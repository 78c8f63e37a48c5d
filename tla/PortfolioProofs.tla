--------------------------- MODULE PortfolioProofs ---------------------------
(***************************************************************************)
(* What Portfolio and Analytics, the two services that compute over the    *)
(* journal, promise for every journal, market and number of requests.      *)
(*                                                                         *)
(* Portfolio, in three parts.  Accounts: over one sound journal, every     *)
(* amount of the answers is a sum over trades (EquityReconciles,           *)
(* ExposuresAgree).  The handlers: what one has read is a sound journal    *)
(* and quotes of it that no ingestion makes older (PortfolioIInv).         *)
(* Closing: a trade closed at the mark of its symbol moves what it gained  *)
(* among the profits (ClosingMovesGain).                                   *)
(*                                                                         *)
(* Analytics, in four.  The walk that finds the drawdown is, at each       *)
(* place, at the highest equity so far and the worst decline from one      *)
(* (IsWalk).  The figures of one reply agree, since winners and losers     *)
(* are parts of the closed trades and their sums.  The handlers: what a    *)
(* report on the full history says never exceeds what the tables hold,     *)
(* nor what a later request reads of them (AnalyticsInv).  The breakdowns  *)
(* are sums by groups.                                                     *)
(***************************************************************************)
EXTENDS Portfolio, Analytics, DataLemmas

\* The size of a sum is within the sum of the sizes.
LEMMA SumWithin ==
    ASSUME NEW f, NEW S, IsFiniteSet(S), \A x \in S : f[x] \in Int,
           NEW g, \A x \in S : g[x] = Abs(f[x])
    PROVE  Abs(SumFunctionOnSet(f, S)) <= SumFunctionOnSet(g, S)
<1>. DEFINE Good(t) == Abs(SumFunctionOnSet(f, t)) <= SumFunctionOnSet(g, t)
            F == {t \in SUBSET S : ~ Good(t)}
<1>. SUFFICES ASSUME ~ Good(S) PROVE FALSE
  OBVIOUS
<1>1. PICK t \in F : \A u \in F : u \subseteq t => u = t
  <2>. HIDE DEF F
  <2>1. F \subseteq SUBSET S /\ F # {}
    BY DEF F
  <2>. QED  BY <2>1, LeastSet
<1>2. t # {}
  <2>1. SumFunctionOnSet(f, {}) = 0 /\ SumFunctionOnSet(g, {}) = 0
    BY SumEmpty
  <2>2. Abs(0) <= 0
    BY DEF Abs
  <2>3. Good({})
    BY <2>1, <2>2
  <2>. HIDE DEF Good
  <2>. QED  BY <1>1, <2>3
<1>3. PICK x \in t : TRUE
  BY <1>2
<1>4. \A y \in S : g[y] \in Int
  BY DEF Abs
<1>5. IsFiniteSet(t) /\ IsFiniteSet(t \ {x}) /\ t \ {x} \subseteq S /\ t \subseteq S
  BY <1>1, FS_Subset
<1>6. /\ SumFunctionOnSet(f, t) = f[x] + SumFunctionOnSet(f, t \ {x})
      /\ SumFunctionOnSet(g, t) = g[x] + SumFunctionOnSet(g, t \ {x})
  BY <1>3, <1>4, <1>5, SumRemove
<1>7. SumFunctionOnSet(f, t \ {x}) \in Int /\ SumFunctionOnSet(g, t \ {x}) \in Int
  BY <1>4, <1>5, SumType
<1>8. Good(t \ {x})
  BY <1>1, <1>3
<1>9. \A a, b, c \in Int : Abs(b) <= c => Abs(a + b) <= Abs(a) + c
  BY DEF Abs
<1>10. f[x] \in Int /\ g[x] = Abs(f[x])
  BY <1>3, <1>5
<1>11. Abs(f[x] + SumFunctionOnSet(f, t \ {x})) <= Abs(f[x]) + SumFunctionOnSet(g, t \ {x})
  BY <1>7, <1>8, <1>9, <1>10
<1>. HIDE DEF F
<1>12. Good(t)
  BY <1>6, <1>10, <1>11
<1>. QED  BY <1>1, <1>12 DEF F

-------------------------------------------------------------------------------
(* The journal of an account, row by row and position by position.              *)

\* Finitely many rows, and the closed ones with the profit that their fill and exit price say.
SoundTrades(trades) ==
    /\ IsFiniteSet(DOMAIN trades)
    /\ IsTable(trades, EntryIds, Row)
    /\ \A id \in DOMAIN trades :
          trades[id].status = "closed" =>
              /\ trades[id].exitPrice \in ExitPrices
              /\ trades[id].pnl = Book!Pnl(trades[id].fill, trades[id].exitPrice)

\* The open trades of the symbols in D, and what was paid for each trade.
OpenOf(trades, D) ==
    {id \in DOMAIN trades : trades[id].status = "open" /\ trades[id].fill.symbol \in D}

Cost(trades) == [id \in DOMAIN trades |-> Signed(trades[id]) * trades[id].fill.price]

\* What is computed from a row is a whole number.
LEMMA RowNumbers ==
    ASSUME NEW trades, SoundTrades(trades), NEW id \in DOMAIN trades
    PROVE  /\ trades[id].status \in {"open", "closed"}
           /\ trades[id].fill \in Fills
           /\ trades[id].fill.symbol \in Symbols
           /\ trades[id].fill.side \in {"buy", "sell"}
           /\ trades[id].fill.quantity \in Nat \ {0} /\ trades[id].fill.price \in Nat \ {0}
           /\ Book!Direction(trades[id].fill.side) \in {1, -1}
           /\ Signed(trades[id]) \in Int
           /\ Cost(trades)[id] = Signed(trades[id]) * trades[id].fill.price
           /\ Cost(trades)[id] \in Int
<1>1. trades[id] \in Row
  BY DEF SoundTrades, IsTable
<1>2. trades[id].status \in {"open", "closed"} /\ trades[id].fill \in Fills
  BY <1>1 DEF Row
<1>3. Book!Direction(trades[id].fill.side) \in {1, -1}
  BY DEF Book!Direction
<1>4. /\ trades[id].fill.symbol \in Symbols
      /\ trades[id].fill.side \in {"buy", "sell"}
      /\ trades[id].fill.quantity \in Nat \ {0} /\ trades[id].fill.price \in Nat \ {0}
  BY <1>2, FillsAssumption
<1>5. \A d \in {1, -1}, n, p \in Nat : d * n \in Int /\ (d * n) * p \in Int
  OBVIOUS
<1>6. Signed(trades[id]) \in Int /\ Signed(trades[id]) * trades[id].fill.price \in Int
  BY <1>3, <1>4, <1>5 DEF Signed
<1>7. Cost(trades)[id] = Signed(trades[id]) * trades[id].fill.price
  BY DEF Cost
<1>. QED  BY <1>2, <1>3, <1>4, <1>6, <1>7

\* A position is the sum of its trades.
LEMMA NetIsSum ==
    ASSUME NEW trades, SoundTrades(trades), NEW s
    PROVE  /\ IsFiniteSet(OpenIn(trades, s)) /\ OpenIn(trades, s) \subseteq DOMAIN trades
           /\ Net(trades, s) \in Int
           /\ \A f : (\A id \in OpenIn(trades, s) : f[id] = Signed(trades[id]))
                       => Net(trades, s) = SumFunctionOnSet(f, OpenIn(trades, s))
           /\ Net(trades, s) # 0 => OpenIn(trades, s) # {}
<1>. DEFINE signed == [id \in OpenIn(trades, s) |-> Signed(trades[id])]
<1>1. IsFiniteSet(OpenIn(trades, s)) /\ OpenIn(trades, s) \subseteq DOMAIN trades
  BY FS_Subset DEF OpenIn, SoundTrades
<1>2. Net(trades, s) = SumFunctionOnSet(signed, OpenIn(trades, s))
  BY SumOfFunction DEF Net
<1>3. \A id \in OpenIn(trades, s) : signed[id] = Signed(trades[id]) /\ signed[id] \in Int
  BY <1>1, RowNumbers
<1>. HIDE DEF signed
<1>4. Net(trades, s) \in Int
  BY <1>1, <1>2, <1>3, SumType
<1>5. Net(trades, s) # 0 => OpenIn(trades, s) # {}
  BY <1>2, SumEmpty
<1>6. ASSUME NEW f, \A id \in OpenIn(trades, s) : f[id] = Signed(trades[id])
      PROVE  Net(trades, s) = SumFunctionOnSet(f, OpenIn(trades, s))
  <2>1. \A id \in OpenIn(trades, s) : f[id] \in Int /\ signed[id] = f[id]
    BY <1>3, <1>6
  <2>. QED  BY <1>1, <1>2, <2>1, SumOfEquals
<1>. QED  BY <1>1, <1>4, <1>5, <1>6

\* The symbols an account has positions in are finitely many, and numbers.
LEMMA PositionsAreFinite ==
    ASSUME NEW trades, SoundTrades(trades)
    PROVE  /\ IsFiniteSet(PositionSymbols(trades))
           /\ PositionSymbols(trades) \subseteq Int
<1>. DEFINE of == [id \in DOMAIN trades |-> trades[id].fill.symbol]
            traded == {of[id] : id \in DOMAIN trades}
<1>1. IsFiniteSet(traded)
  <2>1. of \in Surjection(DOMAIN trades, traded)
    BY DEF Surjection
  <2>. QED  BY <2>1, FS_Surjection DEF SoundTrades
<1>2. PositionSymbols(trades) \subseteq traded
  <2>. SUFFICES ASSUME NEW s \in PositionSymbols(trades) PROVE s \in traded
    OBVIOUS
  <2>1. PICK id \in OpenIn(trades, s) : TRUE
    BY NetIsSum DEF PositionSymbols
  <2>2. id \in DOMAIN trades /\ of[id] = s
    BY <2>1 DEF OpenIn
  <2>. QED  BY <2>2
<1>3. PositionSymbols(trades) \subseteq Int
  <2>. SUFFICES ASSUME NEW s \in PositionSymbols(trades) PROVE s \in Int
    OBVIOUS
  <2>1. s \in Symbols
    BY DEF PositionSymbols
  <2>. QED  BY <2>1, NumbersAssumption
<1>. QED  BY <1>1, <1>2, <1>3, FS_Subset

\* What a position cost is a whole number.
LEMMA EntryValueType ==
    ASSUME NEW trades, SoundTrades(trades), NEW s \in PositionSymbols(trades)
    PROVE  EntryValue(trades, s) \in Int
<1>. DEFINE open == OpenIn(trades, s)
            costs == [id \in open |-> trades[id].fill.quantity * trades[id].fill.price]
            quantities == [id \in open |-> trades[id].fill.quantity]
<1>1. IsFiniteSet(open) /\ open # {} /\ open \subseteq DOMAIN trades /\ Net(trades, s) \in Int
  BY NetIsSum DEF PositionSymbols
<1>2. \A id \in open : costs[id] \in Int /\ quantities[id] \in Nat \ {0}
  <2>. TAKE id \in open
  <2>1. trades[id].fill.quantity \in Nat \ {0} /\ trades[id].fill.price \in Nat \ {0}
    BY <1>1, RowNumbers
  <2>2. \A a, b \in Nat : a * b \in Int
    OBVIOUS
  <2>. QED  BY <2>1, <2>2
<1>3. EntryValue(trades, s) = (Net(trades, s) * SumFunctionOnSet(costs, open))
                                \div SumFunctionOnSet(quantities, open)
  BY SumOfFunction DEF EntryValue
<1>. HIDE DEF open, costs, quantities
<1>4. SumFunctionOnSet(costs, open) \in Int
  BY <1>1, <1>2, SumType
<1>5. SumFunctionOnSet(quantities, open) \in Nat \ {0}
  BY <1>1, <1>2, SumPositive
<1>6. \A a, b \in Int, n \in Nat \ {0} : (a * b) \div n \in Int
  <2>1. \A a \in Int, n \in Nat \ {0} : a \div n \in Int
    OBVIOUS
  <2>2. \A a, b \in Int : a * b \in Int
    OBVIOUS
  <2>. QED  BY <2>1, <2>2
<1>. QED  BY <1>1, <1>3, <1>4, <1>5, <1>6

\* What is not held both ways is a position, and its average entry price times its quantity
\* is what was paid for it.
LEMMA OneSidedEntry ==
    ASSUME NEW trades, SoundTrades(trades), OneSided(trades), NEW s, OpenIn(trades, s) # {}
    PROVE  /\ Net(trades, s) # 0
           /\ EntryValue(trades, s) = SumFunctionOnSet(Cost(trades), OpenIn(trades, s))
<1>. DEFINE open == OpenIn(trades, s)
            costs == [id \in open |-> trades[id].fill.quantity * trades[id].fill.price]
            quantities == [id \in open |-> trades[id].fill.quantity]
<1>1. IsFiniteSet(open) /\ open # {} /\ open \subseteq DOMAIN trades
  BY NetIsSum
<1>2. PICK d \in {1, -1} : \A id \in open : Book!Direction(trades[id].fill.side) = d
  <2>1. PICK one \in open : TRUE
    BY <1>1
  <2>2. \A id \in open : trades[id].fill.side = trades[one].fill.side
    BY <2>1, <1>1 DEF OneSided, OpenIn
  <2>3. Book!Direction(trades[one].fill.side) \in {1, -1}
    BY <1>1, <2>1, RowNumbers
  <2>. QED  BY <2>2, <2>3
<1>3. \A id \in open : /\ quantities[id] \in Nat \ {0}
                       /\ Signed(trades[id]) = d * quantities[id]
                       /\ costs[id] \in Nat \ {0}
                       /\ Cost(trades)[id] = d * costs[id]
  <2>. TAKE id \in open
  <2>1. /\ trades[id].fill.quantity \in Nat \ {0} /\ trades[id].fill.price \in Nat \ {0}
        /\ Cost(trades)[id] = Signed(trades[id]) * trades[id].fill.price
    BY <1>1, RowNumbers
  <2>2. Signed(trades[id]) = d * trades[id].fill.quantity
    BY <1>2 DEF Signed
  <2>3. \A a, b \in Nat \ {0} : a * b \in Nat \ {0} /\ (d * a) * b = d * (a * b)
    OBVIOUS
  <2>. QED  BY <2>1, <2>2, <2>3
<1>4. EntryValue(trades, s) = (Net(trades, s) * SumFunctionOnSet(costs, open))
                                \div SumFunctionOnSet(quantities, open)
  BY SumOfFunction DEF EntryValue
<1>5. Net(trades, s) = SumFunctionOnSet([id \in open |-> Signed(trades[id])], open)
  BY NetIsSum
<1>. HIDE DEF open, costs, quantities
<1>6. SumFunctionOnSet(quantities, open) \in Nat \ {0} /\ SumFunctionOnSet(costs, open) \in Nat \ {0}
  BY <1>1, <1>3, SumPositive
<1>7. Net(trades, s) = d * SumFunctionOnSet(quantities, open)
  <2>. DEFINE signed == [id \in open |-> Signed(trades[id])]
  <2>1. \A id \in open : quantities[id] \in Int /\ signed[id] = d * quantities[id]
    BY <1>3
  <2>. HIDE DEF signed
  <2>2. SumFunctionOnSet(signed, open) = d * SumFunctionOnSet(quantities, open)
    BY <1>1, <1>2, <2>1, SumMultiple
  <2>. QED  BY <1>5, <2>2 DEF signed
<1>8. SumFunctionOnSet(Cost(trades), open) = d * SumFunctionOnSet(costs, open)
  <2>1. \A id \in open : costs[id] \in Int /\ Cost(trades)[id] = d * costs[id]
    BY <1>3
  <2>. QED  BY <1>1, <1>2, <2>1, SumMultiple
<1>9. \A a, b \in Nat \ {0} : d * a # 0 /\ ((d * a) * b) \div a = d * b
  <2>1. \A a \in Nat \ {0}, b \in Int : (a * b) \div a = b
    OBVIOUS
  <2>2. \A a \in Nat \ {0}, b \in Int : ((-a) * b) \div a = -b
    OBVIOUS
  <2>3. \A a \in Nat \ {0} : 1 * a = a /\ (-1) * a = -a /\ a # 0 /\ -a # 0
    OBVIOUS
  <2>. QED  BY <1>2, <2>1, <2>2, <2>3
<1>. QED  BY <1>4, <1>6, <1>7, <1>8, <1>9 DEF open

\* The open trades of some symbols, position by position.
LEMMA OpenByPosition ==
    ASSUME NEW trades, SoundTrades(trades), NEW D, IsFiniteSet(D),
           NEW f, \A id \in OpenOf(trades, D) : f[id] \in Int,
           NEW total, \A s \in D : total[s] = SumFunctionOnSet(f, OpenIn(trades, s))
    PROVE  SumFunctionOnSet(total, D) = SumFunctionOnSet(f, OpenOf(trades, D))
<1>. DEFINE G == [s \in D |-> OpenIn(trades, s)]
<1>1. \A s \in D : IsFiniteSet(G[s])
  BY NetIsSum
<1>2. \A s, e \in D : s # e => G[s] \cap G[e] = {}
  BY DEF OpenIn
<1>3. \A x : x \in OpenOf(trades, D) <=> \E d \in D : x \in G[d]
  BY DEF OpenIn, OpenOf
<1>4. \A s \in D : \A id \in G[s] : f[id] \in Int
  BY DEF OpenIn, OpenOf
<1>5. \A s \in D : total[s] = SumFunctionOnSet(f, G[s])
  OBVIOUS
<1>. DEFINE all == OpenOf(trades, D)
<1>. HIDE DEF G, all
<1>6. \A x : x \in all <=> \E d \in D : x \in G[d]
  BY <1>3 DEF all
<1>7. SumFunctionOnSet(total, D) = SumFunctionOnSet(f, all)
  BY <1>1, <1>2, <1>4, <1>5, <1>6, SumByGroups
<1>. QED  BY <1>7 DEF all

\* What the positions in D cost, at their average entry prices, is what was paid for their trades.
LEMMA EntryValuesAddUp ==
    ASSUME NEW trades, SoundTrades(trades), OneSided(trades),
           NEW D, D \subseteq PositionSymbols(trades)
    PROVE  SumFunction([s \in D |-> EntryValue(trades, s)])
             = SumFunctionOnSet(Cost(trades), OpenOf(trades, D))
<1>. DEFINE value == [s \in D |-> EntryValue(trades, s)]
<1>1. IsFiniteSet(D)
  BY PositionsAreFinite, FS_Subset
<1>2. \A s \in D : value[s] = SumFunctionOnSet(Cost(trades), OpenIn(trades, s))
  <2>. TAKE s \in D
  <2>1. OpenIn(trades, s) # {}
    BY NetIsSum DEF PositionSymbols
  <2>. QED  BY <2>1, OneSidedEntry
<1>3. \A id \in OpenOf(trades, D) : Cost(trades)[id] \in Int
  BY RowNumbers DEF OpenOf
<1>4. SumFunction(value) = SumFunctionOnSet(value, D)
  BY SumOfFunction
<1>. HIDE DEF value
<1>5. SumFunctionOnSet(value, D) = SumFunctionOnSet(Cost(trades), OpenOf(trades, D))
  BY <1>1, <1>2, <1>3, OpenByPosition
<1>. QED  BY <1>4, <1>5 DEF value

\* Quotes of positions of the account, at whole prices.
SoundQuotes(trades, priced) ==
    /\ DOMAIN priced \subseteq PositionSymbols(trades)
    /\ \A s \in DOMAIN priced : priced[s].price \in Nat \ {0}

\* The market value of each.
MarketValues(trades, priced) ==
    [s \in DOMAIN priced |-> MarketValue(trades, s, priced[s].price)]

\* What the answers are sums of.
LEMMA AnswerTerms ==
    ASSUME NEW trades, SoundTrades(trades), NEW priced, SoundQuotes(trades, priced)
    PROVE  /\ IsFiniteSet(DOMAIN priced)
           /\ \A s \in DOMAIN priced :
                 /\ Net(trades, s) \in Int /\ Net(trades, s) # 0 /\ EntryValue(trades, s) \in Int
                 /\ MarketValues(trades, priced)[s] = Net(trades, s) * priced[s].price
                 /\ MarketValues(trades, priced)[s] \in Int /\ MarketValues(trades, priced)[s] # 0
           /\ PositionsValue(trades, priced)
                = SumFunctionOnSet(MarketValues(trades, priced), DOMAIN priced)
<1>1. IsFiniteSet(DOMAIN priced)
  BY PositionsAreFinite, FS_Subset DEF SoundQuotes
<1>2. \A n \in Int, p \in Nat \ {0} : n # 0 => n * p \in Int /\ n * p # 0
  OBVIOUS
<1>3. ASSUME NEW s \in DOMAIN priced
      PROVE  /\ Net(trades, s) \in Int /\ Net(trades, s) # 0 /\ EntryValue(trades, s) \in Int
             /\ MarketValues(trades, priced)[s] = Net(trades, s) * priced[s].price
             /\ MarketValues(trades, priced)[s] \in Int /\ MarketValues(trades, priced)[s] # 0
  <2>1. s \in PositionSymbols(trades) /\ priced[s].price \in Nat \ {0}
    BY DEF SoundQuotes
  <2>2. Net(trades, s) \in Int /\ Net(trades, s) # 0 /\ EntryValue(trades, s) \in Int
    BY <2>1, NetIsSum, EntryValueType DEF PositionSymbols
  <2>3. MarketValues(trades, priced)[s] = Net(trades, s) * priced[s].price
    BY DEF MarketValues, MarketValue
  <2>. QED  BY <1>2, <2>1, <2>2, <2>3
<1>4. PositionsValue(trades, priced)
        = SumFunctionOnSet(MarketValues(trades, priced), DOMAIN priced)
  BY SumOfFunction DEF PositionsValue, MarketValues
<1>. QED  BY <1>1, <1>3, <1>4

\* The unrealized profit is what the positions are worth above their cost.
LEMMA UnrealizedIsDifference ==
    ASSUME NEW trades, SoundTrades(trades), NEW priced, SoundQuotes(trades, priced)
    PROVE  LET entry == [s \in DOMAIN priced |-> EntryValue(trades, s)]
           IN  /\ UnrealizedPnl(trades, priced)
                    = PositionsValue(trades, priced) - SumFunction(entry)
               /\ PositionsValue(trades, priced) \in Int /\ SumFunction(entry) \in Int
               /\ UnrealizedPnl(trades, priced) \in Int
<1>. DEFINE entry == [s \in DOMAIN priced |-> EntryValue(trades, s)]
            gain == [s \in DOMAIN priced |->
                        Net(trades, s) * priced[s].price - EntryValue(trades, s)]
            worth == MarketValues(trades, priced)
            D == DOMAIN priced
<1>1. UnrealizedPnl(trades, priced) = SumFunctionOnSet(gain, D)
  BY SumOfFunction DEF UnrealizedPnl
<1>2. SumFunction(entry) = SumFunctionOnSet(entry, D)
  BY SumOfFunction
<1>3. PositionsValue(trades, priced) = SumFunctionOnSet(worth, D) /\ IsFiniteSet(D)
  BY AnswerTerms
<1>4. \A s \in D : entry[s] \in Int /\ worth[s] \in Int /\ gain[s] = worth[s] - entry[s]
  <2>. TAKE s \in D
  <2>1. EntryValue(trades, s) \in Int /\ worth[s] = Net(trades, s) * priced[s].price /\ worth[s] \in Int
    BY AnswerTerms
  <2>. HIDE DEF worth
  <2>. QED  BY <2>1
<1>. HIDE DEF entry, gain, worth, D
<1>5. SumFunctionOnSet(gain, D) = SumFunctionOnSet(worth, D) - SumFunctionOnSet(entry, D)
  BY <1>3, <1>4, SumDifference
<1>6. SumFunctionOnSet(entry, D) \in Int /\ SumFunctionOnSet(worth, D) \in Int
  BY <1>3, <1>4, SumType
<1>. QED  BY <1>1, <1>2, <1>3, <1>5, <1>6 DEF entry

\* What the closed trades brought in.
Proceeds(trades) == [id \in ClosedIn(trades) |-> Signed(trades[id]) * trades[id].exitPrice]

\* The profit of a closed trade is what it brought in above its cost.
LEMMA ClosedNumbers ==
    ASSUME NEW trades, SoundTrades(trades)
    PROVE  /\ IsFiniteSet(ClosedIn(trades)) /\ ClosedIn(trades) \subseteq DOMAIN trades
           /\ \A id \in ClosedIn(trades) :
                 /\ Proceeds(trades)[id] \in Int
                 /\ trades[id].pnl = Proceeds(trades)[id] - Cost(trades)[id]
<1>1. IsFiniteSet(ClosedIn(trades)) /\ ClosedIn(trades) \subseteq DOMAIN trades
  BY FS_Subset DEF ClosedIn, SoundTrades
<1>2. ASSUME NEW id \in ClosedIn(trades)
      PROVE  /\ Proceeds(trades)[id] \in Int
             /\ trades[id].pnl = Proceeds(trades)[id] - Cost(trades)[id]
  <2>. DEFINE d == Book!Direction(trades[id].fill.side)
              q == trades[id].fill.quantity
              p == trades[id].fill.price
              exit == trades[id].exitPrice
  <2>1. exit \in Nat /\ trades[id].pnl = Book!Pnl(trades[id].fill, exit)
    BY NumbersAssumption DEF SoundTrades, ClosedIn
  <2>2. d \in {1, -1} /\ q \in Nat /\ p \in Nat
    BY <1>1, RowNumbers
  <2>3. Proceeds(trades)[id] = (d * q) * exit
    BY DEF Proceeds, Signed
  <2>4. Cost(trades)[id] = (d * q) * p
    BY <1>1, RowNumbers DEF Signed
  <2>5. trades[id].pnl = (d * (exit - p)) * q
    BY <2>1 DEF Book!Pnl
  <2>. HIDE DEF d, q, p, exit
  <2>6. (d * q) * exit \in Int
    BY <2>1, <2>2
  <2>7. (d * (exit - p)) * q = (d * q) * exit - (d * q) * p
    BY <2>1, <2>2
  <2>. QED  BY <2>3, <2>4, <2>5, <2>6, <2>7
<1>. QED  BY <1>1, <1>2

\* Cash: what the account began with, less what was paid, plus what was brought in; and the
\* realized profit is what was brought in above its cost.
LEMMA CashAndRealized ==
    ASSUME NEW trades, SoundTrades(trades)
    PROVE  LET paid    == SumFunctionOnSet(Cost(trades), DOMAIN trades)
               sold    == SumFunctionOnSet(Cost(trades), ClosedIn(trades))
               brought == SumFunctionOnSet(Proceeds(trades), ClosedIn(trades))
           IN  /\ paid \in Int /\ sold \in Int /\ brought \in Int
               /\ CashBalance(trades) = StartingCash - paid + brought
               /\ RealizedPnl(trades) = brought - sold
<1>. DEFINE D == DOMAIN trades
            C == ClosedIn(trades)
            openLeg == [id \in D |-> -Signed(trades[id]) * trades[id].fill.price]
            pnl == [id \in C |-> trades[id].pnl]
            cost == Cost(trades)
            brought == Proceeds(trades)
<1>1. IsFiniteSet(D) /\ IsFiniteSet(C) /\ C \subseteq D
  BY ClosedNumbers DEF SoundTrades
<1>2. \A id \in D : cost[id] \in Int /\ openLeg[id] = 0 - cost[id]
  <2>. TAKE id \in D
  <2>1. /\ Signed(trades[id]) \in Int /\ trades[id].fill.price \in Int
        /\ cost[id] = Signed(trades[id]) * trades[id].fill.price /\ cost[id] \in Int
    BY RowNumbers
  <2>2. \A a, b \in Int : -a * b = 0 - a * b
    OBVIOUS
  <2>3. openLeg[id] = -Signed(trades[id]) * trades[id].fill.price
    OBVIOUS
  <2>. HIDE DEF openLeg, cost
  <2>. QED  BY <2>1, <2>2, <2>3
<1>3. \A id \in C : brought[id] \in Int /\ cost[id] \in Int /\ pnl[id] = brought[id] - cost[id]
  <2>. TAKE id \in C
  <2>1. brought[id] \in Int /\ pnl[id] = brought[id] - cost[id]
    BY ClosedNumbers
  <2>2. cost[id] \in Int
    BY <1>1, <1>2
  <2>. QED  BY <2>1, <2>2
<1>4. CashBalance(trades) = StartingCash + SumFunctionOnSet(openLeg, D) + SumFunctionOnSet(brought, C)
  <2>1. SumFunction(openLeg) = SumFunctionOnSet(openLeg, D)
    BY SumOfFunction
  <2>2. SumFunction(brought) = SumFunctionOnSet(brought, C)
    BY SumOfFunction DEF Proceeds
  <2>3. CashBalance(trades) = StartingCash + SumFunction(openLeg) + SumFunction(brought)
    BY DEF CashBalance, Proceeds
  <2>. QED  BY <2>1, <2>2, <2>3
<1>5. RealizedPnl(trades) = SumFunctionOnSet(pnl, C)
  BY SumOfFunction DEF RealizedPnl
<1>. HIDE DEF D, C, openLeg, pnl, cost, brought
<1>6. SumFunctionOnSet(openLeg, D) = 0 - SumFunctionOnSet(cost, D)
  <2>. DEFINE zero == [id \in D |-> 0]
  <2>1. SumFunctionOnSet(zero, D) = 0
    BY <1>1, SumOfZeros
  <2>2. \A id \in D : zero[id] \in Int /\ cost[id] \in Int /\ openLeg[id] = zero[id] - cost[id]
    BY <1>2
  <2>. HIDE DEF zero
  <2>3. SumFunctionOnSet(openLeg, D) = SumFunctionOnSet(zero, D) - SumFunctionOnSet(cost, D)
    BY <1>1, <2>2, SumDifference
  <2>. QED  BY <2>1, <2>3
<1>7. SumFunctionOnSet(pnl, C) = SumFunctionOnSet(brought, C) - SumFunctionOnSet(cost, C)
  BY <1>1, <1>3, SumDifference
<1>8. /\ SumFunctionOnSet(cost, D) \in Int /\ SumFunctionOnSet(cost, C) \in Int
      /\ SumFunctionOnSet(brought, C) \in Int
  BY <1>1, <1>2, <1>3, SumType
<1>. QED  BY <1>4, <1>5, <1>6, <1>7, <1>8, NumbersAssumption DEF D, C, cost, brought

\* What the answers are computed from is whole, and the equity is what cash and positions are
\* worth, with the positions that have no price at cost.
LEMMA EquityReconciles ==
    ASSUME NEW trades, SoundTrades(trades), OneSided(trades),
           NEW priced, SoundQuotes(trades, priced),
           NEW missing, missing = PositionSymbols(trades) \ DOMAIN priced
    PROVE  /\ TotalEquity(trades, priced)
                = CashBalance(trades) + PositionsValue(trades, priced)
                    + SumFunction([s \in missing |-> EntryValue(trades, s)])
           /\ SumFunction([s \in missing |-> EntryValue(trades, s)]) \in Int
<1>. DEFINE cost == Cost(trades)
            C == ClosedIn(trades)
            P == OpenOf(trades, DOMAIN priced)
            M == OpenOf(trades, missing)
            paid(S) == SumFunctionOnSet(cost, S)
            brought == SumFunctionOnSet(Proceeds(trades), C)
            positions == PositionsValue(trades, priced)
            unpriced == SumFunction([s \in missing |-> EntryValue(trades, s)])
            entry == SumFunction([s \in DOMAIN priced |-> EntryValue(trades, s)])
<1>1. DOMAIN trades = (P \cup M) \cup C /\ P \cap M = {} /\ (P \cup M) \cap C = {}
  <2>1. ASSUME NEW id \in DOMAIN trades, trades[id].status = "open"
        PROVE  id \in P \cup M
    <3>1. id \in OpenIn(trades, trades[id].fill.symbol) /\ trades[id].fill.symbol \in Symbols
      BY <2>1, RowNumbers DEF OpenIn
    <3>2. Net(trades, trades[id].fill.symbol) # 0
      BY <3>1, OneSidedEntry
    <3>3. trades[id].fill.symbol \in PositionSymbols(trades)
      BY <3>1, <3>2 DEF PositionSymbols
    <3>. QED  BY <2>1, <3>3 DEF OpenOf
  <2>2. \A id \in DOMAIN trades : trades[id].status \in {"open", "closed"}
    BY RowNumbers
  <2>3. P \cup M \subseteq DOMAIN trades /\ C \subseteq DOMAIN trades
    BY DEF OpenOf, ClosedIn
  <2>4. P \cap M = {} /\ (P \cup M) \cap C = {}
    BY DEF OpenOf, ClosedIn
  <2>5. DOMAIN trades \subseteq (P \cup M) \cup C
    BY <2>1, <2>2 DEF ClosedIn
  <2>. QED  BY <2>3, <2>4, <2>5
<1>2. IsFiniteSet(P) /\ IsFiniteSet(M) /\ IsFiniteSet(P \cup M) /\ IsFiniteSet(C)
  <2>1. P \subseteq DOMAIN trades /\ M \subseteq DOMAIN trades /\ C \subseteq DOMAIN trades
    BY DEF OpenOf, ClosedIn
  <2>. HIDE DEF P, M, C
  <2>. QED  BY <2>1, FS_Subset, FS_Union DEF SoundTrades
<1>3. \A id \in DOMAIN trades : cost[id] \in Int
  BY RowNumbers
<1>4. CashBalance(trades) = StartingCash - paid(DOMAIN trades) + brought
  BY CashAndRealized
<1>5. RealizedPnl(trades) = brought - paid(C) /\ brought \in Int
  BY CashAndRealized
<1>6. entry = paid(P)
  BY EntryValuesAddUp DEF SoundQuotes
<1>7. unpriced = paid(M)
  BY EntryValuesAddUp
<1>8. UnrealizedPnl(trades, priced) = positions - entry /\ positions \in Int
  BY UnrealizedIsDifference
<1>9. TotalEquity(trades, priced) = StartingCash + RealizedPnl(trades) + UnrealizedPnl(trades, priced)
  BY DEF TotalEquity
<1>. HIDE DEF cost, C, P, M, brought, positions, unpriced, entry
<1>10. paid(P) \in Int /\ paid(M) \in Int /\ paid(C) \in Int
  BY <1>1, <1>2, <1>3, SumType
<1>11. paid(P \cup M) = paid(P) + paid(M)
  BY <1>1, <1>2, <1>3, SumSplit
<1>12. paid((P \cup M) \cup C) = paid(P \cup M) + paid(C)
  BY <1>1, <1>2, <1>3, SumSplit
<1>13. paid(DOMAIN trades) = paid(P) + paid(M) + paid(C)
  BY <1>1, <1>11, <1>12
<1>. HIDE DEF paid
<1>. QED
  <2>1. CashBalance(trades) + positions + unpriced = TotalEquity(trades, priced)
    BY <1>4, <1>5, <1>6, <1>7, <1>8, <1>9, <1>10, <1>13, NumbersAssumption
  <2>2. unpriced \in Int
    BY <1>7, <1>10
  <2>. QED  BY <2>1, <2>2 DEF positions, unpriced

\* The exposures, and how the gross, the net and the largest one relate.
LEMMA ExposuresAgree ==
    ASSUME NEW trades, SoundTrades(trades), NEW priced, SoundQuotes(trades, priced)
    PROVE  LET shares == Exposures(trades, priced)
               risk   == RiskExposure(trades, priced)
           IN  /\ SumFunction(shares) = risk.grossExposure
               /\ \A s \in DOMAIN shares : shares[s] \in 1..risk.largestPosition
               /\ shares # << >> => \E s \in DOMAIN shares : shares[s] = risk.largestPosition
               /\ Abs(risk.netExposure) <= risk.grossExposure
<1>. DEFINE shares == Exposures(trades, priced)
            D == DOMAIN priced
            worth == MarketValues(trades, priced)
            sizes == {shares[s] : s \in D} \cup {0}
<1>1. IsFiniteSet(D)
  BY AnswerTerms
<1>2. \A s \in D : worth[s] \in Int /\ shares[s] = Abs(worth[s]) /\ shares[s] \in Nat \ {0}
  <2>. TAKE s \in D
  <2>1. worth[s] \in Int /\ worth[s] # 0
    BY AnswerTerms
  <2>2. shares[s] = Abs(worth[s])
    BY DEF Exposures, MarketValues
  <2>. HIDE DEF worth, shares
  <2>. QED  BY <2>1, <2>2 DEF Abs
<1>3. DOMAIN shares = D
  BY DEF Exposures
<1>4. /\ RiskExposure(trades, priced).grossExposure = SumFunction(shares)
      /\ RiskExposure(trades, priced).netExposure = SumFunctionOnSet(worth, D)
      /\ RiskExposure(trades, priced).largestPosition = Max(sizes)
  <2>1. /\ RiskExposure(trades, priced).grossExposure = GrossExposure(trades, priced)
        /\ RiskExposure(trades, priced).netExposure = PositionsValue(trades, priced)
        /\ RiskExposure(trades, priced).largestPosition = Max(sizes)
    BY DEF RiskExposure
  <2>2. GrossExposure(trades, priced) = SumFunction(shares)
    BY DEF GrossExposure, Exposures
  <2>3. PositionsValue(trades, priced) = SumFunctionOnSet(worth, D)
    BY AnswerTerms
  <2>. QED  BY <2>1, <2>2, <2>3
<1>5. SumFunction(shares) = SumFunctionOnSet(shares, D)
  BY <1>3, SumOfFunction
<1>. HIDE DEF worth, shares, D
<1>6. Abs(SumFunctionOnSet(worth, D)) <= SumFunctionOnSet(shares, D)
  BY <1>1, <1>2, SumWithin
<1>7. IsFiniteSet(sizes) /\ sizes # {} /\ sizes \subseteq Int
  <2>. DEFINE values == {shares[s] : s \in D}
  <2>1. IsFiniteSet(values)
    <3>1. [s \in D |-> shares[s]] \in Surjection(D, values)
      BY DEF Surjection
    <3>. HIDE DEF values
    <3>. QED  BY <1>1, <3>1, FS_Surjection
  <2>2. IsFiniteSet(values \cup {0})
    <3>. HIDE DEF values
    <3>. QED  BY <2>1, FS_AddElement
  <2>3. values \subseteq Int
    BY <1>2
  <2>. QED  BY <2>2, <2>3
<1>8. Max(sizes) \in sizes /\ \A x \in sizes : Max(sizes) >= x
  <2>. HIDE DEF sizes
  <2>. QED  BY <1>7, MaxIsGreatest
<1>9. \A s \in D : shares[s] \in sizes
  OBVIOUS
<1>10. Max(sizes) \in Int
  BY <1>7, <1>8
<1>11. \A s \in D : shares[s] \in 1..Max(sizes)
  <2>. TAKE s \in D
  <2>1. shares[s] \in Nat \ {0} /\ Max(sizes) >= shares[s]
    BY <1>2, <1>8, <1>9
  <2>. HIDE DEF sizes
  <2>. QED  BY <1>10, <2>1
<1>12. D # {} => \E s \in D : shares[s] = Max(sizes)
  <2>. SUFFICES ASSUME NEW s \in D PROVE \E x \in D : shares[x] = Max(sizes)
    OBVIOUS
  <2>1. shares[s] \in Nat \ {0} /\ Max(sizes) >= shares[s]
    BY <1>2, <1>8, <1>9
  <2>2. Max(sizes) # 0
    <3>. HIDE DEF sizes
    <3>. QED  BY <1>10, <2>1
  <2>. QED  BY <1>8, <2>2
<1>13. shares # << >> => D # {}
  <2>1. DOMAIN shares = {} => shares = << >>
    BY DEF shares, Exposures
  <2>. QED  BY <1>3, <2>1
<1>. HIDE DEF sizes
<1>. QED  BY <1>3, <1>4, <1>5, <1>6, <1>11, <1>12, <1>13 DEF shares

-------------------------------------------------------------------------------
(* The journal under the request.                                              *)

\* The profit of a trade is a whole number.
LEMMA PnlType ==
    ASSUME NEW fill \in Fills, NEW exit \in ExitPrices
    PROVE  Book!Pnl(fill, exit) \in Int
<1>1. fill.quantity \in Nat /\ fill.price \in Nat /\ exit \in Nat
  BY FillsAssumption, NumbersAssumption
<1>2. Book!Direction(fill.side) \in {1, -1}
  BY DEF Book!Direction
<1>3. \A d \in {1, -1}, a, b, c \in Nat : (d * (a - b)) * c \in Int
  OBVIOUS
<1>. QED  BY <1>1, <1>2, <1>3 DEF Book!Pnl

\* Recording, closing and disowning keep the journal sound, and so does selecting an account.
LEMMA JournalStaysSound ==
    ASSUME NEW table, SoundTrades(table)
    PROVE  /\ \A id \in EntryIds, u \in Users, fill \in Fills :
                 id \notin DOMAIN table => SoundTrades(Put(table, id, Book!OpenRow(u, fill)))
           /\ \A id \in DOMAIN table, exit \in ExitPrices :
                 SoundTrades(Put(table, id,
                    Book!ClosedRow(table[id], exit, Book!Pnl(table[id].fill, exit))))
           /\ \A u : SoundTrades(Book!Disowned(table, u))
           /\ \A u : SoundTrades(TradesOf(table, u))
<1>1. IsFiniteSet(DOMAIN table) /\ IsTable(table, EntryIds, Row)
  BY DEF SoundTrades
<1>2. \A id \in DOMAIN table : table[id] \in Row /\ id \in EntryIds
  BY <1>1 DEF IsTable
<1>3. ASSUME NEW id \in EntryIds, NEW u \in Users, NEW fill \in Fills, id \notin DOMAIN table
      PROVE  SoundTrades(Put(table, id, Book!OpenRow(u, fill)))
  <2>. DEFINE row == Book!OpenRow(u, fill)
              new == Put(table, id, row)
  <2>1. row \in Row /\ row.status # "closed"
    BY DEF Book!OpenRow, Row
  <2>. HIDE DEF row
  <2>2. /\ DOMAIN new = DOMAIN table \cup {id} /\ new[id] = row
        /\ \A x \in DOMAIN table : x # id => new[x] = table[x]
    BY DEF Put
  <2>3. IsTable(new, EntryIds, Row)
    BY <1>1, <2>1, PutType
  <2>4. IsFiniteSet(DOMAIN new)
    BY <1>1, <2>2, FS_AddElement
  <2>. HIDE DEF new
  <2>. QED  BY <1>3, <2>1, <2>2, <2>3, <2>4 DEF SoundTrades, new, row
<1>4. ASSUME NEW id \in DOMAIN table, NEW exit \in ExitPrices
      PROVE  SoundTrades(Put(table, id,
                Book!ClosedRow(table[id], exit, Book!Pnl(table[id].fill, exit))))
  <2>. DEFINE row == Book!ClosedRow(table[id], exit, Book!Pnl(table[id].fill, exit))
              new == Put(table, id, row)
  <2>1. /\ row \in Row /\ row.exitPrice = exit /\ row.fill = table[id].fill
        /\ row.pnl = Book!Pnl(row.fill, exit)
    <3>1. Book!Pnl(table[id].fill, exit) \in Int
      BY <1>2, PnlType DEF Row
    <3>. QED  BY <1>2, <3>1 DEF Book!ClosedRow, Row
  <2>. HIDE DEF row
  <2>2. /\ DOMAIN new = DOMAIN table /\ new[id] = row
        /\ \A x \in DOMAIN table : x # id => new[x] = table[x]
    BY DEF Put
  <2>3. IsTable(new, EntryIds, Row)
    BY <1>1, <1>2, <2>1, PutType
  <2>. HIDE DEF new
  <2>. QED  BY <1>1, <2>1, <2>2, <2>3 DEF SoundTrades, new, row
<1>5. ASSUME NEW u
      PROVE  SoundTrades(Book!Disowned(table, u))
  <2>. DEFINE new == Book!Disowned(table, u)
  <2>1. /\ DOMAIN new = DOMAIN table
        /\ \A id \in DOMAIN new :
              new[id] = IF table[id].user = u THEN [table[id] EXCEPT !.user = NULL] ELSE table[id]
    BY DEF Book!Disowned
  <2>2. \A id \in DOMAIN new :
           /\ new[id] \in Row
           /\ new[id].status = table[id].status /\ new[id].fill = table[id].fill
           /\ new[id].exitPrice = table[id].exitPrice /\ new[id].pnl = table[id].pnl
    BY <1>2, <2>1 DEF Row
  <2>3. new = [id \in DOMAIN new |-> new[id]]
    BY DEF Book!Disowned
  <2>. HIDE DEF new
  <2>4. IsTable(new, EntryIds, Row)
    BY <1>2, <2>1, <2>2, <2>3 DEF IsTable
  <2>. QED  BY <1>1, <2>1, <2>2, <2>4 DEF SoundTrades, new
<1>6. ASSUME NEW u
      PROVE  SoundTrades(TradesOf(table, u))
  <2>. DEFINE new == TradesOf(table, u)
  <2>1. /\ DOMAIN new \subseteq DOMAIN table /\ new = [id \in DOMAIN new |-> new[id]]
        /\ \A id \in DOMAIN new : new[id] = table[id]
    BY DEF TradesOf
  <2>. HIDE DEF new
  <2>2. IsTable(new, EntryIds, Row)
    BY <1>2, <2>1 DEF IsTable
  <2>. QED  BY <1>1, <2>1, <2>2, FS_Subset DEF SoundTrades, new
<1>. QED  BY <1>3, <1>4, <1>5, <1>6

\* Ticks are added, never changed or removed.
LEMMA TicksGrow ==
    ASSUME IsTicks(ticks, Symbols, Times, Prices), NEW s \in Symbols, NEW t \in Times, NEW p \in Prices
    PROVE  /\ IsTicks(WithTick(ticks, s, t, p), Symbols, Times, Prices)
           /\ \A x \in Symbols : DOMAIN ticks[x] \subseteq DOMAIN WithTick(ticks, s, t, p)[x]
<1>. DEFINE new == WithTick(ticks, s, t, p)
<1>1. CASE t \in DOMAIN ticks[s]
  BY <1>1 DEF WithTick
<1>2. CASE t \notin DOMAIN ticks[s]
  <2>1. new = [ticks EXCEPT ![s] = Put(ticks[s], t, p)]
    BY <1>2 DEF WithTick
  <2>2. IsTable(Put(ticks[s], t, p), Times, Prices)
    BY PutType DEF IsTicks
  <2>3. DOMAIN ticks[s] \subseteq DOMAIN Put(ticks[s], t, p)
    BY DEF Put
  <2>4. /\ new = [x \in Symbols |-> new[x]] /\ new[s] = Put(ticks[s], t, p)
        /\ \A x \in Symbols : x # s => new[x] = ticks[x]
    BY <2>1 DEF IsTicks
  <2>. HIDE DEF new
  <2>5. IsTicks(new, Symbols, Times, Prices)
    BY <2>2, <2>4 DEF IsTicks
  <2>6. \A x \in Symbols : DOMAIN ticks[x] \subseteq DOMAIN new[x]
    BY <2>3, <2>4
  <2>. QED  BY <2>5, <2>6 DEF new
<1>. QED  BY <1>1, <1>2

-------------------------------------------------------------------------------
(* The inductive invariant *)

\* The fields of a view.
Fields == {"kind", "user", "trades", "seen", "todo", "priced", "missing"}

\* A handler has read a sound journal; the latest ticks it could see then are still there, and
\* what it priced since is no older.
SoundView(v, tk) ==
    /\ DOMAIN v = Fields
    /\ v.kind = "holdings" => v.todo = {}
    /\ SoundTrades(v.trades)
    /\ \A s \in PositionSymbols(v.trades) : v.seen[s] \subseteq DOMAIN tk[s]
    /\ \A s \in DOMAIN v.priced : \A t \in v.seen[s] : t <= v.priced[s].asOf

\* A stored row is what its request computed, except that its account may be gone.
StoredFrom(row, v) == row = [Mtm(v) EXCEPT !.user = row.user]

\* A handler that is reading, or has answered, has a sound view.
ViewsAreSound ==
    /\ view = [q \in Requests |-> view[q]]
    /\ \A q \in Requests :
          /\ pc[q] \in {"pricing", "ok"} => SoundView(view[q], ticks)
          /\ pc[q] = "ok" => view[q].todo = {}

\* Only a fully priced snapshot request stores a row, and it stores what it computed.
SnapshotsAreAnswers ==
    \A q \in DOMAIN snapshots :
        /\ pc[q] = "ok" /\ view[q].kind = "snapshot" /\ view[q].missing = {}
        /\ StoredFrom(snapshots[q], view[q])

\* TypeOK is not inductive: it takes profits for granted, whose type rests on the journal's.
PortfolioIInv == TypeOK /\ SoundTrades(entries) /\ ViewsAreSound /\ SnapshotsAreAnswers

\* A view prices positions of the journal it read.
LEMMA ViewQuotes ==
    ASSUME NEW v, NEW tk, IsView(v), SoundView(v, tk)
    PROVE  /\ SoundTrades(v.trades) /\ SoundQuotes(v.trades, v.priced)
           /\ v.kind # "holdings" /\ v.todo = {} =>
                 v.missing = PositionSymbols(v.trades) \ DOMAIN v.priced
<1>1. \A s \in DOMAIN v.priced : v.priced[s].price \in Nat \ {0}
  <2>1. \A s \in DOMAIN v.priced : v.priced[s] \in Quote
    BY DEF IsView, IsTable
  <2>. QED  BY <2>1, NumbersAssumption DEF Quote
<1>2. DOMAIN v.priced \subseteq PositionSymbols(v.trades)
  BY DEF IsView, IsTable
<1>3. ASSUME v.kind # "holdings", v.todo = {}
      PROVE  v.missing = PositionSymbols(v.trades) \ DOMAIN v.priced
  BY <1>3 DEF IsView
<1>. QED  BY <1>1, <1>2, <1>3 DEF SoundQuotes, SoundView

\* What is stored has the type of a snapshot.
LEMMA MtmType ==
    ASSUME NEW v, NEW tk, IsView(v), SoundView(v, tk)
    PROVE  Mtm(v) \in Snapshot
<1>1. SoundTrades(v.trades) /\ SoundQuotes(v.trades, v.priced) /\ v.user \in Users
  BY ViewQuotes DEF IsView
<1>2. CashBalance(v.trades) \in Int /\ RealizedPnl(v.trades) \in Int
  BY <1>1, CashAndRealized, NumbersAssumption
<1>3. PositionsValue(v.trades, v.priced) \in Int /\ UnrealizedPnl(v.trades, v.priced) \in Int
  BY <1>1, UnrealizedIsDifference
<1>4. TotalEquity(v.trades, v.priced) \in Int
  BY <1>2, <1>3, NumbersAssumption DEF TotalEquity
<1>. QED  BY <1>1, <1>2, <1>3, <1>4 DEF Mtm, Snapshot

-------------------------------------------------------------------------------
(* Every step preserves it.                                                    *)

\* Nothing has been traded or read.
LEMMA PortfolioInitially == Init => PortfolioIInv
<1>. SUFFICES ASSUME Init PROVE PortfolioIInv
  OBVIOUS
<1>1. IsTable(EmptyTable, EntryIds, Row) /\ IsTable(EmptyTable, Requests, Snapshot)
  BY EmptyTableType
<1>2. IsFiniteSet(DOMAIN EmptyTable) /\ DOMAIN EmptyTable = {}
  BY EmptyTableType, FS_EmptySet
<1>3. IsTicks(ticks, Symbols, Times, Prices)
  <2>1. IsTable(EmptyTable, Times, Prices)
    BY EmptyTableType
  <2>. QED  BY <2>1 DEF Init, NoTicks, IsTicks
<1>4. TypeOK
  BY <1>1, <1>3 DEF Init, TypeOK
<1>5. SoundTrades(entries)
  BY <1>1, <1>2 DEF Init, SoundTrades
<1>6. ViewsAreSound
  BY DEF Init, ViewsAreSound
<1>7. SnapshotsAreAnswers
  BY <1>2 DEF Init, SnapshotsAreAnswers
<1>. QED  BY <1>4, <1>5, <1>6, <1>7 DEF PortfolioIInv

\* The part of the invariant that is about one request.
LEMMA OfRequest ==
    ASSUME PortfolioIInv, NEW q \in Requests
    PROVE  /\ pc[q] \in {"idle", "pricing"} \cup Replies
           /\ pc[q] \in {"pricing", "ok"} => IsView(view[q]) /\ SoundView(view[q], ticks)
           /\ pc[q] \notin {"pricing", "ok"} => view[q] = NoView
           /\ pc[q] = "ok" => view[q].todo = {}
           /\ pc[q] # "ok" => q \notin DOMAIN snapshots
  BY DEF PortfolioIInv, TypeOK, ViewsAreSound, SnapshotsAreAnswers

\* A step of one handler, which leaves it with the view nv at np.
Handled(q, np, nv) ==
    /\ pc[q] \in {"idle", "pricing"}
    /\ np \in {"pricing"} \cup Replies
    /\ pc' = [r \in Requests |-> IF r = q THEN np ELSE pc[r]]
    /\ view' = [r \in Requests |-> IF r = q THEN nv ELSE view[r]]
    /\ IF np \in {"pricing", "ok"}
       THEN IsView(nv) /\ SoundView(nv, ticks) /\ (np = "ok" => nv.todo = {})
       ELSE nv = NoView
    /\ \/ snapshots' = snapshots
       \/ /\ np = "ok" /\ nv.kind = "snapshot" /\ nv.missing = {}
          /\ snapshots' = Put(snapshots, q, Mtm(nv))
    /\ UNCHANGED <<users, ticks, entries>>

\* Such a step preserves the invariant: it touches no other handler's view and snapshot.
LEMMA HandlersKeep ==
    ASSUME PortfolioIInv, NEW q \in Requests, NEW np, NEW nv, Handled(q, np, nv)
    PROVE  PortfolioIInv'
<1>1. /\ users' \subseteq Users
      /\ IsTicks(ticks', Symbols, Times, Prices)
      /\ IsTable(entries', EntryIds, Row)
      /\ SoundTrades(entries)'
  BY DEF PortfolioIInv, TypeOK, Handled
<1>2. pc' \in [Requests -> {"idle", "pricing"} \cup Replies]
  BY DEF PortfolioIInv, TypeOK, Handled
<1>3. \A r \in Requests :
         IF pc'[r] \in {"pricing", "ok"} THEN IsView(view'[r]) ELSE view'[r] = NoView
  BY OfRequest DEF Handled
<1>4. \A r \in Requests :
         /\ pc'[r] \in {"pricing", "ok"} => SoundView(view'[r], ticks')
         /\ pc'[r] = "ok" => view'[r].todo = {}
  BY OfRequest DEF Handled
<1>5. view' = [r \in Requests |-> view'[r]]
  BY DEF Handled
<1>6. q \notin DOMAIN snapshots /\ DOMAIN snapshots \subseteq Requests
  BY OfRequest DEF Handled, PortfolioIInv, TypeOK, IsTable
<1>7. \A r \in DOMAIN snapshots :
         /\ r \in Requests
         /\ pc'[r] = "ok" /\ view'[r].kind = "snapshot" /\ view'[r].missing = {}
         /\ StoredFrom(snapshots[r], view'[r])
  BY <1>6 DEF Handled, PortfolioIInv, SnapshotsAreAnswers
<1>8. CASE snapshots' = snapshots
  <2>1. IsTable(snapshots', Requests, Snapshot)
    BY <1>8 DEF PortfolioIInv, TypeOK
  <2>2. SnapshotsAreAnswers'
    BY <1>7, <1>8 DEF SnapshotsAreAnswers
  <2>. QED  BY <1>1, <1>2, <1>3, <1>4, <1>5, <2>1, <2>2 DEF PortfolioIInv, TypeOK, ViewsAreSound
<1>9. CASE /\ np = "ok" /\ nv.kind = "snapshot" /\ nv.missing = {}
           /\ snapshots' = Put(snapshots, q, Mtm(nv))
  <2>1. IsView(nv) /\ SoundView(nv, ticks)
    BY <1>9 DEF Handled
  <2>2. Mtm(nv) \in Snapshot
    BY <2>1, MtmType
  <2>3. IsTable(snapshots', Requests, Snapshot)
    BY <1>9, <2>2, PutType DEF PortfolioIInv, TypeOK
  <2>4. StoredFrom(Mtm(nv), nv)
    BY DEF StoredFrom, Mtm
  <2>5. /\ DOMAIN snapshots' = DOMAIN snapshots \cup {q} /\ snapshots'[q] = Mtm(nv)
        /\ \A r \in DOMAIN snapshots : snapshots'[r] = snapshots[r]
    BY <1>6, <1>9 DEF Put
  <2>6. pc'[q] = "ok" /\ view'[q] = nv
    BY <1>9 DEF Handled
  <2>7. SnapshotsAreAnswers'
    BY <1>7, <1>9, <2>4, <2>5, <2>6 DEF SnapshotsAreAnswers
  <2>. QED  BY <1>1, <1>2, <1>3, <1>4, <1>5, <2>3, <2>7 DEF PortfolioIInv, TypeOK, ViewsAreSound
<1>. QED  BY <1>8, <1>9 DEF Handled

\* The journal that a handler reads is sound, and the latest ticks are in the table.
LEMMA ListTradesKeeps ==
    ASSUME PortfolioIInv, NEW q \in Requests, ListTrades(q)
    PROVE  PortfolioIInv'
<1>1. PICK u \in Users, kind \in {"holdings", "summary", "snapshot"} :
         LET trades == TradesOf(entries, u)
         IN  /\ pc[q] = "idle"
             /\ view' = [view EXCEPT ![q] =
                   [kind |-> kind, user |-> u, trades |-> trades,
                    seen |-> [s \in PositionSymbols(trades) |-> LatestTimes(ticks, s)],
                    todo |-> IF kind = "holdings" THEN {} ELSE PositionSymbols(trades),
                    priced |-> EmptyTable, missing |-> {}]]
             /\ Goto(q, "pricing")
             /\ UNCHANGED <<users, ticks, entries, snapshots>>
  BY DEF ListTrades
<1>. DEFINE trades == TradesOf(entries, u)
            nv == [kind |-> kind, user |-> u, trades |-> trades,
                   seen |-> [s \in PositionSymbols(trades) |-> LatestTimes(ticks, s)],
                   todo |-> IF kind = "holdings" THEN {} ELSE PositionSymbols(trades),
                   priced |-> EmptyTable, missing |-> {}]
<1>2. SoundTrades(trades)
  BY JournalStaysSound DEF PortfolioIInv
<1>3. \A s \in PositionSymbols(trades) : LatestTimes(ticks, s) \subseteq DOMAIN ticks[s]
  BY DEF LatestTimes
<1>4. \A s \in PositionSymbols(trades) : DOMAIN ticks[s] \subseteq Times
  BY DEF PositionSymbols, PortfolioIInv, TypeOK, IsTicks, IsTable
<1>. HIDE DEF trades
<1>5. IsTable(EmptyTable, PositionSymbols(trades), Quote) /\ DOMAIN EmptyTable = {}
  BY EmptyTableType
<1>6. IsView(nv)
  <2>1. nv.seen \in [PositionSymbols(trades) -> SUBSET Times]
    BY <1>3, <1>4
  <2>2. IsTable(nv.trades, EntryIds, Row)
    BY <1>2 DEF SoundTrades
  <2>. QED  BY <1>5, <2>1, <2>2 DEF IsView
<1>7. SoundView(nv, ticks)
  BY <1>2, <1>3, <1>5 DEF SoundView, Fields
<1>8. view' = [r \in Requests |-> IF r = q THEN nv ELSE view[r]]
  <2>1. view' = [view EXCEPT ![q] = nv]
    BY <1>1 DEF trades
  <2>2. view = [r \in Requests |-> view[r]]
    BY DEF PortfolioIInv, ViewsAreSound
  <2>. HIDE DEF nv
  <2>. QED  BY <2>1, <2>2
<1>9. pc' = [r \in Requests |-> IF r = q THEN "pricing" ELSE pc[r]]
  BY <1>1 DEF Goto, PortfolioIInv, TypeOK
<1>. HIDE DEF nv
<1>10. Handled(q, "pricing", nv)
  BY <1>1, <1>6, <1>7, <1>8, <1>9 DEF Handled
<1>. QED  BY <1>10, HandlersKeep

\* A position is priced at the latest tick there is, and there are all that there were.
LEMMA PricePositionKeeps ==
    ASSUME PortfolioIInv, NEW q \in Requests, PricePosition(q)
    PROVE  PortfolioIInv'
<1>. DEFINE v == view[q]
            s == Min(v.todo)
            times == LatestTimes(ticks, s)
<1>1. pc[q] = "pricing" /\ v.todo # {} /\ UNCHANGED <<users, ticks, entries, snapshots, pc>>
  BY DEF PricePosition
<1>2. IsView(v) /\ SoundView(v, ticks)
  BY <1>1, OfRequest
<1>3. s \in v.todo /\ s \in PositionSymbols(v.trades)
  <2>1. SoundTrades(v.trades) /\ v.todo \subseteq PositionSymbols(v.trades)
    BY <1>2 DEF IsView, SoundView
  <2>2. IsFiniteSet(v.todo) /\ v.todo \subseteq Int
    BY <2>1, PositionsAreFinite, FS_Subset
  <2>. QED  BY <1>1, <2>1, <2>2, MinIsMember
<1>4. /\ view = [r \in Requests |-> view[r]] /\ pc' = [r \in Requests |-> IF r = q THEN "pricing" ELSE pc[r]]
      /\ s \in Symbols /\ IsTable(ticks[s], Times, Prices)
  BY <1>1, <1>3 DEF PortfolioIInv, TypeOK, ViewsAreSound, IsTicks, PositionSymbols
<1>5. DOMAIN v = Fields
  BY <1>2 DEF SoundView
<1>6. CASE \E t \in times :
             view' = [view EXCEPT ![q].todo = @ \ {s},
                                  ![q].priced = Put(@, s, [price |-> ticks[s][t], asOf |-> t])]
  <2>1. PICK t \in times :
             view' = [view EXCEPT ![q].todo = @ \ {s},
                                  ![q].priced = Put(@, s, [price |-> ticks[s][t], asOf |-> t])]
    BY <1>6
  <2>. DEFINE quote == [price |-> ticks[s][t], asOf |-> t]
              nv == [v EXCEPT !.todo = @ \ {s}, !.priced = Put(@, s, quote)]
  <2>2. t \in DOMAIN ticks[s] /\ \A x \in DOMAIN ticks[s] : x <= t
    BY DEF LatestTimes
  <2>3. quote \in Quote /\ quote.asOf = t
    BY <1>4, <2>2 DEF Quote, IsTable
  <2>. HIDE DEF quote, s, times
  <2>4. view' = [r \in Requests |-> IF r = q THEN nv ELSE view[r]]
    BY <1>4, <2>1 DEF quote
  <2>. HIDE DEF v
  <2>5. /\ DOMAIN nv = Fields
        /\ nv.todo = v.todo \ {s} /\ nv.priced = Put(v.priced, s, quote)
        /\ nv.kind = v.kind /\ nv.user = v.user /\ nv.trades = v.trades /\ nv.seen = v.seen
        /\ nv.missing = v.missing
    BY <1>5 DEF Fields
  <2>. HIDE DEF nv
  <2>6. /\ DOMAIN nv.priced = DOMAIN v.priced \cup {s} /\ nv.priced[s] = quote
        /\ \A x \in DOMAIN v.priced : x # s => nv.priced[x] = v.priced[x]
    BY <2>5 DEF Put
  <2>7. IsView(nv)
    <3>1. IsTable(nv.priced, PositionSymbols(v.trades), Quote)
      BY <1>2, <1>3, <2>3, <2>5, PutType DEF IsView
    <3>2. v.kind # "holdings" /\ s \notin v.missing
      BY <1>2, <1>3 DEF IsView, SoundView
    <3>3. DOMAIN nv.priced = PositionSymbols(v.trades) \ (nv.todo \cup nv.missing)
      BY <1>2, <1>3, <2>5, <2>6, <3>2 DEF IsView
    <3>. QED  BY <1>2, <2>5, <3>1, <3>2, <3>3 DEF IsView
  <2>8. SoundView(nv, ticks)
    <3>1. \A x \in v.seen[s] : x <= quote.asOf
      BY <1>2, <1>3, <2>2, <2>3 DEF SoundView
    <3>. QED  BY <1>2, <2>5, <2>6, <3>1 DEF SoundView
  <2>9. Handled(q, "pricing", nv)
    BY <1>1, <1>4, <2>4, <2>7, <2>8 DEF Handled
  <2>. QED  BY <2>9, HandlersKeep
<1>7. CASE view' = [view EXCEPT ![q].todo = @ \ {s}, ![q].missing = @ \cup {s}]
  <2>. DEFINE nv == [v EXCEPT !.todo = @ \ {s}, !.missing = @ \cup {s}]
  <2>. HIDE DEF s, times
  <2>1. view' = [r \in Requests |-> IF r = q THEN nv ELSE view[r]]
    BY <1>4, <1>7
  <2>. HIDE DEF v
  <2>2. /\ DOMAIN nv = Fields
        /\ nv.todo = v.todo \ {s} /\ nv.missing = v.missing \cup {s}
        /\ nv.kind = v.kind /\ nv.user = v.user /\ nv.trades = v.trades /\ nv.seen = v.seen
        /\ nv.priced = v.priced
    BY <1>5 DEF Fields
  <2>. HIDE DEF nv
  <2>3. nv.todo \cup nv.missing = v.todo \cup v.missing
    BY <1>3, <2>2
  <2>4. IsView(nv)
    BY <1>2, <1>3, <2>2, <2>3 DEF IsView
  <2>5. SoundView(nv, ticks)
    BY <1>2, <2>2 DEF SoundView
  <2>6. Handled(q, "pricing", nv)
    BY <1>1, <1>4, <2>1, <2>4, <2>5 DEF Handled
  <2>. QED  BY <2>6, HandlersKeep
<1>. QED  BY <1>6, <1>7 DEF PricePosition

\* A handler answers from its view, stores what it computed from it, or forgets it.
LEMMA StoreOrAnswerKeeps ==
    ASSUME PortfolioIInv, NEW q \in Requests, StoreOrAnswer(q)
    PROVE  PortfolioIInv'
<1>1. /\ pc[q] = "pricing" /\ view[q].todo = {} /\ UNCHANGED <<users, ticks, entries>>
      /\ IsView(view[q]) /\ SoundView(view[q], ticks)
  BY OfRequest DEF StoreOrAnswer
<1>2. \A np : Goto(q, np) => pc' = [r \in Requests |-> IF r = q THEN np ELSE pc[r]]
  BY DEF Goto, PortfolioIInv, TypeOK
<1>3. view = [r \in Requests |-> view[r]]
  BY DEF PortfolioIInv, ViewsAreSound
<1>4. \A np : Fail(q, np) => view' = [r \in Requests |-> IF r = q THEN NoView ELSE view[r]]
  BY <1>3 DEF Fail
<1>5. view' = view => view' = [r \in Requests |-> IF r = q THEN view[q] ELSE view[r]]
  BY <1>3
<1>6. \/ Handled(q, "ok", view[q])
      \/ Handled(q, "conflict", NoView)
      \/ Handled(q, "error", NoView)
  <2>1. CASE /\ view[q].kind # "snapshot" /\ Goto(q, "ok") /\ UNCHANGED <<snapshots, view>>
    BY <1>1, <1>2, <1>5, <2>1 DEF Handled, Replies
  <2>2. CASE Fail(q, "conflict") /\ UNCHANGED snapshots
    BY <1>1, <1>2, <1>4, <2>2 DEF Handled, Replies, Fail
  <2>3. CASE /\ view[q].kind = "snapshot" /\ view[q].missing = {}
             /\ snapshots' = Put(snapshots, q, Mtm(view[q]))
             /\ Goto(q, "ok") /\ UNCHANGED view
    BY <1>1, <1>2, <1>5, <2>3 DEF Handled, Replies
  <2>4. CASE Fail(q, "error") /\ UNCHANGED snapshots
    BY <1>1, <1>2, <1>4, <2>4 DEF Handled, Replies, Fail
  <2>. QED  BY <2>1, <2>2, <2>3, <2>4 DEF StoreOrAnswer
<1>. QED  BY <1>6, HandlersKeep

\* A handler that dies leaves nothing.
LEMMA AbortKeeps ==
    ASSUME PortfolioIInv, NEW q \in Requests, Abort(q)
    PROVE  PortfolioIInv'
<1>1. Handled(q, "lost", NoView)
  <2>1. /\ pc' = [r \in Requests |-> IF r = q THEN "lost" ELSE pc[r]]
        /\ view' = [r \in Requests |-> IF r = q THEN NoView ELSE view[r]]
    BY DEF Abort, Fail, Goto, PortfolioIInv, TypeOK, ViewsAreSound
  <2>. QED  BY <2>1 DEF Abort, Handled, Replies
<1>. QED  BY <1>1, HandlersKeep

\* The environment leaves handlers and their snapshots alone.
LEMMA JournalKeeps ==
    ASSUME PortfolioIInv, JournalStep
    PROVE  PortfolioIInv'
<1>1. SoundTrades(entries')
  <2>1. SoundTrades(entries) /\ users \subseteq Users
    BY DEF PortfolioIInv, TypeOK
  <2>2. CASE \E id \in EntryIds, u \in users, fill \in Fills : Book!Record(id, u, fill)
    <3>1. PICK id \in EntryIds, u \in users, fill \in Fills : Book!Record(id, u, fill)
      BY <2>2
    <3>2. u \in Users /\ id \notin DOMAIN entries
          /\ entries' = Put(entries, id, Book!OpenRow(u, fill))
      BY <2>1, <3>1 DEF Book!Record, Book!Put, Put
    <3>3. SoundTrades(Put(entries, id, Book!OpenRow(u, fill)))
      BY <2>1, <3>2, JournalStaysSound
    <3>. QED  BY <3>2, <3>3
  <2>3. CASE \E id \in EntryIds, exit \in ExitPrices : Book!Close(id, exit)
    <3>1. PICK id \in EntryIds, exit \in ExitPrices : Book!Close(id, exit)
      BY <2>3
    <3>2. /\ id \in DOMAIN entries
          /\ entries' = Put(entries, id,
                 Book!ClosedRow(entries[id], exit, Book!Pnl(entries[id].fill, exit)))
      BY <3>1 DEF Book!Close, Book!Put, Put
    <3>3. SoundTrades(Put(entries, id,
                 Book!ClosedRow(entries[id], exit, Book!Pnl(entries[id].fill, exit))))
      BY <2>1, <3>2, JournalStaysSound
    <3>. QED  BY <3>2, <3>3
  <2>. QED  BY <2>2, <2>3 DEF JournalStep
<1>2. IsTable(entries', EntryIds, Row)
  BY <1>1 DEF SoundTrades
<1>3. UNCHANGED <<users, ticks, snapshots, view, pc>>
  BY DEF JournalStep
<1>. QED  BY <1>1, <1>2, <1>3 DEF PortfolioIInv, TypeOK, ViewsAreSound, SnapshotsAreAnswers

\* The ticks that handlers saw stay.
LEMMA IngestKeeps ==
    ASSUME PortfolioIInv, NEW s \in Symbols, NEW t \in Times, NEW p \in Prices, IngestTick(s, t, p)
    PROVE  PortfolioIInv'
<1>1. ticks' = WithTick(ticks, s, t, p) /\ UNCHANGED <<users, entries, snapshots, view, pc>>
  BY DEF IngestTick
<1>2. /\ IsTicks(ticks', Symbols, Times, Prices)
      /\ \A x \in Symbols : DOMAIN ticks[x] \subseteq DOMAIN ticks'[x]
  BY <1>1, TicksGrow DEF PortfolioIInv, TypeOK
<1>3. \A v : SoundView(v, ticks) => SoundView(v, ticks')
  <2>1. \A v : PositionSymbols(v.trades) \subseteq Symbols
    BY DEF PositionSymbols
  <2>. QED  BY <1>2, <2>1 DEF SoundView
<1>4. ViewsAreSound'
  BY <1>1, <1>3 DEF PortfolioIInv, ViewsAreSound
<1>. QED  BY <1>1, <1>2, <1>4 DEF PortfolioIInv, TypeOK, SnapshotsAreAnswers

\* Rows change their owner and nothing else.
LEMMA DeleteUserKeeps ==
    ASSUME PortfolioIInv, NEW u \in Users, DeleteUser(u)
    PROVE  PortfolioIInv'
<1>1. /\ users' \subseteq Users /\ entries' = Book!Disowned(entries, u)
      /\ snapshots' = Book!Disowned(snapshots, u) /\ UNCHANGED <<ticks, view, pc>>
  BY DEF DeleteUser, PortfolioIInv, TypeOK
<1>2. SoundTrades(entries') /\ IsTable(entries', EntryIds, Row)
  BY <1>1, JournalStaysSound DEF PortfolioIInv, SoundTrades
<1>3. /\ DOMAIN snapshots' = DOMAIN snapshots
      /\ snapshots' = [r \in DOMAIN snapshots |-> snapshots'[r]]
      /\ \A r \in DOMAIN snapshots :
            \/ snapshots'[r] = snapshots[r]
            \/ snapshots'[r] = [snapshots[r] EXCEPT !.user = NULL]
  BY <1>1 DEF Book!Disowned
<1>4. \A r \in DOMAIN snapshots : snapshots[r] \in Snapshot /\ r \in Requests
  BY DEF PortfolioIInv, TypeOK, IsTable
<1>5. IsTable(snapshots', Requests, Snapshot)
  <2>1. \A row \in Snapshot : [row EXCEPT !.user = NULL] \in Snapshot
    BY DEF Snapshot
  <2>. QED  BY <1>3, <1>4, <2>1 DEF IsTable
<1>6. \A r \in DOMAIN snapshots : StoredFrom(snapshots'[r], view[r])
  <2>. TAKE r \in DOMAIN snapshots
  <2>1. snapshots[r] = [Mtm(view[r]) EXCEPT !.user = snapshots[r].user]
    BY DEF PortfolioIInv, SnapshotsAreAnswers, StoredFrom
  <2>2. \A row, m : row = [m EXCEPT !.user = row.user] /\ "user" \in DOMAIN m =>
            [row EXCEPT !.user = NULL] = [m EXCEPT !.user = NULL]
    OBVIOUS
  <2>3. "user" \in DOMAIN Mtm(view[r])
    BY DEF Mtm
  <2>4. [Mtm(view[r]) EXCEPT !.user = NULL].user = NULL
    BY <2>3
  <2>. QED  BY <1>3, <2>1, <2>2, <2>3, <2>4 DEF StoredFrom
<1>7. SnapshotsAreAnswers'
  BY <1>1, <1>3, <1>6 DEF PortfolioIInv, SnapshotsAreAnswers
<1>. QED  BY <1>1, <1>2, <1>5, <1>7 DEF PortfolioIInv, TypeOK, ViewsAreSound

\* Every step preserves the invariant.
LEMMA PortfolioInductive == PortfolioIInv /\ [Next]_vars => PortfolioIInv'
<1>. SUFFICES ASSUME PortfolioIInv, [Next]_vars PROVE PortfolioIInv'
  OBVIOUS
<1>1. ASSUME NEW q \in Requests, ListTrades(q) \/ PricePosition(q) \/ StoreOrAnswer(q) \/ Abort(q)
      PROVE  PortfolioIInv'
  BY <1>1, ListTradesKeeps, PricePositionKeeps, StoreOrAnswerKeeps, AbortKeeps
<1>2. CASE JournalStep
  BY <1>2, JournalKeeps
<1>3. ASSUME NEW s \in Symbols, NEW t \in Times, NEW p \in Prices, IngestTick(s, t, p)
      PROVE  PortfolioIInv'
  BY <1>3, IngestKeeps
<1>4. ASSUME NEW u \in Users, DeleteUser(u)
      PROVE  PortfolioIInv'
  BY <1>4, DeleteUserKeeps
<1>5. CASE UNCHANGED vars
  BY <1>5 DEF vars, PortfolioIInv, TypeOK, ViewsAreSound, SnapshotsAreAnswers
<1>. QED  BY <1>1, <1>2, <1>3, <1>4, <1>5 DEF Next

-------------------------------------------------------------------------------
(* What the invariant implies.                                                 *)

\* A stored row has every position priced, so the balance sheet is complete.
LEMMA SnapshotsBalance ==
    ASSUME PortfolioIInv
    PROVE  SnapshotsReconcile
<1>. SUFFICES ASSUME NEW q \in DOMAIN snapshots, OneSided(view[q].trades)
              PROVE  Balanced(snapshots[q])
  BY DEF SnapshotsReconcile
<1>. DEFINE v == view[q]
<1>1. /\ q \in Requests /\ pc[q] = "ok" /\ v.kind = "snapshot" /\ v.missing = {}
      /\ StoredFrom(snapshots[q], v)
  BY DEF PortfolioIInv, TypeOK, IsTable, SnapshotsAreAnswers
<1>2. IsView(v) /\ SoundView(v, ticks) /\ v.todo = {}
  BY <1>1, OfRequest
<1>. HIDE DEF v
<1>3. /\ SoundTrades(v.trades) /\ SoundQuotes(v.trades, v.priced)
      /\ v.missing = PositionSymbols(v.trades) \ DOMAIN v.priced
  BY <1>1, <1>2, ViewQuotes
<1>4. TotalEquity(v.trades, v.priced)
        = CashBalance(v.trades) + PositionsValue(v.trades, v.priced)
            + SumFunction([s \in v.missing |-> EntryValue(v.trades, s)])
  BY <1>3, EquityReconciles DEF v
<1>5. SumFunction([s \in v.missing |-> EntryValue(v.trades, s)]) = 0
  BY <1>1, SumOfFunction, SumEmpty
<1>6. CashBalance(v.trades) \in Int /\ PositionsValue(v.trades, v.priced) \in Int
  BY <1>2, MtmType DEF Mtm, Snapshot
<1>7. /\ snapshots[q].totalEquity = TotalEquity(v.trades, v.priced)
      /\ snapshots[q].cashBalance = CashBalance(v.trades)
      /\ snapshots[q].positionsValue = PositionsValue(v.trades, v.priced)
  BY <1>1 DEF StoredFrom, Mtm
<1>. QED  BY <1>4, <1>5, <1>6, <1>7 DEF Balanced

\* What is answered is computed from a sound view.
LEMMA AnswersAddUp ==
    ASSUME PortfolioIInv
    PROVE  AnswersAgree
<1>. SUFFICES ASSUME NEW q \in Requests, pc[q] = "ok", view[q].kind # "holdings"
              PROVE  LET v      == view[q]
                         answer == Answer(v)
                         shares == answer.allocation
                         risk   == answer.risk
                     IN  /\ OneSided(v.trades) =>
                               answer.performance.totalReturn
                                 = Mtm(v).cashBalance + risk.netExposure + Unpriced(v) - StartingCash
                         /\ SumFunction(shares) = risk.grossExposure
                         /\ \A s \in DOMAIN shares : shares[s] \in 1..risk.largestPosition
                         /\ shares # << >> =>
                               \E s \in DOMAIN shares : shares[s] = risk.largestPosition
                         /\ Abs(risk.netExposure) <= risk.grossExposure
  BY DEF AnswersAgree
<1>. DEFINE v == view[q]
<1>1. IsView(v) /\ SoundView(v, ticks) /\ v.todo = {}
  BY OfRequest
<1>2. v.kind # "holdings"
  OBVIOUS
<1>. HIDE DEF v
<1>3. /\ SoundTrades(v.trades) /\ SoundQuotes(v.trades, v.priced)
      /\ v.missing = PositionSymbols(v.trades) \ DOMAIN v.priced
  BY <1>1, <1>2, ViewQuotes
<1>4. /\ Answer(v).performance.totalReturn = TotalEquity(v.trades, v.priced) - StartingCash
      /\ Answer(v).allocation = Exposures(v.trades, v.priced)
      /\ Answer(v).risk = RiskExposure(v.trades, v.priced)
      /\ Mtm(v).cashBalance = CashBalance(v.trades)
      /\ RiskExposure(v.trades, v.priced).netExposure = PositionsValue(v.trades, v.priced)
  BY DEF Answer, PerformanceMetrics, Mtm, RiskExposure
<1>5. ASSUME OneSided(v.trades)
      PROVE  /\ TotalEquity(v.trades, v.priced)
                  = CashBalance(v.trades) + PositionsValue(v.trades, v.priced) + Unpriced(v)
             /\ Unpriced(v) \in Int
  BY <1>3, <1>5, EquityReconciles DEF Unpriced
<1>6. LET shares == Exposures(v.trades, v.priced)
          risk   == RiskExposure(v.trades, v.priced)
      IN  /\ SumFunction(shares) = risk.grossExposure
          /\ \A s \in DOMAIN shares : shares[s] \in 1..risk.largestPosition
          /\ shares # << >> => \E s \in DOMAIN shares : shares[s] = risk.largestPosition
          /\ Abs(risk.netExposure) <= risk.grossExposure
  BY <1>3, ExposuresAgree
<1>7. OneSided(v.trades) =>
         Answer(v).performance.totalReturn
           = Mtm(v).cashBalance + Answer(v).risk.netExposure + Unpriced(v) - StartingCash
  <2>1. Answer(v).risk.netExposure = PositionsValue(v.trades, v.priced)
    BY <1>4
  <2>2. ASSUME OneSided(v.trades)
        PROVE  /\ TotalEquity(v.trades, v.priced)
                    = Mtm(v).cashBalance + Answer(v).risk.netExposure + Unpriced(v)
               /\ Unpriced(v) \in Int
    BY <1>4, <1>5, <2>1, <2>2
  <2>3. Answer(v).performance.totalReturn = TotalEquity(v.trades, v.priced) - StartingCash
    BY <1>4
  <2>4. Mtm(v).cashBalance \in Int /\ Answer(v).risk.netExposure \in Int
    BY <1>1, <2>1, MtmType DEF Mtm, Snapshot
  <2>. QED  BY <2>2, <2>3, <2>4, NumbersAssumption
<1>. QED  BY <1>4, <1>6, <1>7 DEF v

\* Freshness is part of a sound view.
LEMMA ViewsAreFresh ==
    ASSUME PortfolioIInv
    PROVE  ValuesAreFresh
  BY OfRequest DEF ValuesAreFresh, SoundView

-------------------------------------------------------------------------------
(* Closing a trade at the market price.                                        *)

\* The symbols the market has a price of, and the latest one.
Quoted(tk) == {s \in Symbols : LatestTimes(tk, s) # {}}

Marks(tk) == [s \in Symbols |-> tk[s][CHOOSE t \in LatestTimes(tk, s) : TRUE]]

\* What each open trade has gained, and what each closed one had.
Gains(trades, tk) ==
    [id \in OpenOf(trades, Quoted(tk)) |->
        Signed(trades[id]) * Marks(tk)[trades[id].fill.symbol] - Cost(trades)[id]]

\* What the closed trades have realized.
Profits(trades) == [id \in ClosedIn(trades) |-> trades[id].pnl]

\* A symbol has one latest tick, since the table has one row per time.
LEMMA LatestIsOne ==
    ASSUME NEW tk, IsTicks(tk, Symbols, Times, Prices), NEW s \in Symbols,
           NEW t \in LatestTimes(tk, s)
    PROVE  Marks(tk)[s] = tk[s][t] /\ Marks(tk)[s] \in Nat \ {0}
<1>. DEFINE c == CHOOSE x \in LatestTimes(tk, s) : TRUE
<1>1. c \in LatestTimes(tk, s)
  OBVIOUS
<1>2. IsTable(tk[s], Times, Prices)
  BY DEF IsTicks
<1>3. c \in DOMAIN tk[s] /\ t \in DOMAIN tk[s] /\ t <= c /\ c <= t
  BY <1>1 DEF LatestTimes
<1>4. c \in Nat /\ t \in Nat
  BY <1>2, <1>3, NumbersAssumption DEF IsTable
<1>5. Marks(tk)[s] = tk[s][c]
  BY DEF Marks
<1>. HIDE DEF c
<1>6. c = t
  BY <1>3, <1>4
<1>7. tk[s][t] \in Nat \ {0}
  BY <1>2, <1>3, NumbersAssumption DEF IsTable
<1>. QED  BY <1>5, <1>6, <1>7

\* The quotes are the marks of the positions that have one.
LEMMA QuotesAreSound ==
    ASSUME NEW trades, NEW tk, IsTicks(tk, Symbols, Times, Prices)
    PROVE  /\ SoundQuotes(trades, Quotes(tk, trades))
           /\ DOMAIN Quotes(tk, trades) = PositionSymbols(trades) \cap Quoted(tk)
           /\ \A s \in DOMAIN Quotes(tk, trades) : Quotes(tk, trades)[s].price = Marks(tk)[s]
<1>1. DOMAIN Quotes(tk, trades) = PositionSymbols(trades) \cap Quoted(tk)
  BY DEF Quotes, PositionSymbols, Quoted
<1>2. \A s \in DOMAIN Quotes(tk, trades) : Quotes(tk, trades)[s].price = Marks(tk)[s]
  BY DEF Quotes, PositionSymbols, Marks
<1>3. \A s \in DOMAIN Quotes(tk, trades) : Marks(tk)[s] \in Nat \ {0}
  <2>. TAKE s \in DOMAIN Quotes(tk, trades)
  <2>1. s \in Symbols /\ LatestTimes(tk, s) # {}
    BY <1>1 DEF Quoted
  <2>. QED  BY <2>1, LatestIsOne
<1>. QED  BY <1>1, <1>2, <1>3 DEF SoundQuotes

\* The equity is what the account began with and what its trades gained.
LEMMA EquityIsGains ==
    ASSUME NEW trades, SoundTrades(trades), OneSided(trades),
           NEW tk, IsTicks(tk, Symbols, Times, Prices)
    PROVE  TotalEquity(trades, Quotes(tk, trades))
             = StartingCash + SumFunctionOnSet(Profits(trades), ClosedIn(trades))
                 + SumFunctionOnSet(Gains(trades, tk), OpenOf(trades, Quoted(tk)))
<1>. DEFINE priced == Quotes(tk, trades)
            D == DOMAIN priced
            O == OpenOf(trades, Quoted(tk))
            gains == Gains(trades, tk)
            gain == [s \in D |-> Net(trades, s) * priced[s].price - EntryValue(trades, s)]
<1>1. SoundQuotes(trades, priced) /\ D = PositionSymbols(trades) \cap Quoted(tk)
  BY QuotesAreSound
<1>2. IsFiniteSet(D)
  BY <1>1, AnswerTerms
<1>3. OpenOf(trades, D) = O
  <2>1. ASSUME NEW id \in O
        PROVE  trades[id].fill.symbol \in D
    <3>1. id \in OpenIn(trades, trades[id].fill.symbol) /\ trades[id].fill.symbol \in Quoted(tk)
      BY DEF OpenIn, OpenOf
    <3>2. Net(trades, trades[id].fill.symbol) # 0
      BY <3>1, OneSidedEntry
    <3>. QED  BY <1>1, <3>1, <3>2 DEF Quoted, PositionSymbols
  <2>. HIDE DEF D
  <2>. QED  BY <1>1, <2>1 DEF OpenOf
<1>4. \A id \in O : gains[id] \in Int
  <2>. TAKE id \in O
  <2>1. id \in DOMAIN trades /\ trades[id].fill.symbol \in Quoted(tk)
    BY DEF OpenOf
  <2>2. Marks(tk)[trades[id].fill.symbol] \in Int
    BY <2>1, LatestIsOne DEF Quoted
  <2>3. Signed(trades[id]) \in Int /\ Cost(trades)[id] \in Int
    BY <2>1, RowNumbers
  <2>4. \A a, b, c \in Int : a * b - c \in Int
    OBVIOUS
  <2>. QED  BY <2>2, <2>3, <2>4 DEF Gains
<1>5. ASSUME NEW s \in D
      PROVE  gain[s] = SumFunctionOnSet(gains, OpenIn(trades, s))
  <2>. DEFINE I == OpenIn(trades, s)
              signed == [id \in I |-> Signed(trades[id])]
              worth == [id \in I |-> priced[s].price * Signed(trades[id])]
  <2>1. s \in PositionSymbols(trades) /\ s \in Quoted(tk) /\ priced[s].price \in Int
        /\ priced[s].price = Marks(tk)[s]
    <3>1. s \in DOMAIN priced
      OBVIOUS
    <3>. HIDE DEF priced, D
    <3>2. priced[s].price \in Int
      BY <1>1, <3>1 DEF SoundQuotes
    <3>3. priced[s].price = Marks(tk)[s]
      BY <3>1, QuotesAreSound DEF priced
    <3>4. s \in PositionSymbols(trades) /\ s \in Quoted(tk)
      BY <1>1
    <3>. QED  BY <3>2, <3>3, <3>4
  <2>2. IsFiniteSet(I) /\ I # {} /\ I \subseteq DOMAIN trades /\ Net(trades, s) \in Int
        /\ Net(trades, s) = SumFunctionOnSet(signed, I)
    BY <2>1, NetIsSum DEF PositionSymbols
  <2>3. EntryValue(trades, s) = SumFunctionOnSet(Cost(trades), I)
    BY <2>2, OneSidedEntry
  <2>4. \A id \in I : /\ signed[id] \in Int /\ worth[id] = priced[s].price * signed[id]
                      /\ worth[id] \in Int /\ Cost(trades)[id] \in Int
                      /\ gains[id] = worth[id] - Cost(trades)[id]
    <3>. TAKE id \in I
    <3>1. id \in OpenOf(trades, Quoted(tk)) /\ trades[id].fill.symbol = s
      BY <2>1 DEF OpenIn, OpenOf
    <3>2. Signed(trades[id]) \in Int /\ Cost(trades)[id] \in Int
      BY <2>2, RowNumbers
    <3>3. gains[id] = Signed(trades[id]) * priced[s].price - Cost(trades)[id]
      BY <2>1, <3>1 DEF Gains
    <3>4. \A a, b \in Int : a * b = b * a /\ a * b \in Int
      OBVIOUS
    <3>5. signed[id] = Signed(trades[id]) /\ worth[id] = priced[s].price * Signed(trades[id])
      OBVIOUS
    <3>. HIDE DEF priced, signed, worth, gains, I
    <3>. QED  BY <2>1, <3>2, <3>3, <3>4, <3>5
  <2>5. gain[s] = Net(trades, s) * priced[s].price - EntryValue(trades, s)
    OBVIOUS
  <2>. HIDE DEF priced, signed, worth, gains, gain, I
  <2>6. SumFunctionOnSet(worth, I) = priced[s].price * SumFunctionOnSet(signed, I)
    BY <2>1, <2>2, <2>4, SumMultiple
  <2>7. SumFunctionOnSet(gains, I) = SumFunctionOnSet(worth, I) - SumFunctionOnSet(Cost(trades), I)
    BY <2>2, <2>4, SumDifference
  <2>8. \A a, b \in Int : a * b = b * a
    OBVIOUS
  <2>9. Net(trades, s) * priced[s].price = priced[s].price * SumFunctionOnSet(signed, I)
    BY <2>1, <2>2, <2>8
  <2>. QED  BY <2>3, <2>5, <2>6, <2>7, <2>9 DEF I
<1>6. UnrealizedPnl(trades, priced) = SumFunctionOnSet(gain, D)
  BY SumOfFunction DEF UnrealizedPnl
<1>7. RealizedPnl(trades) = SumFunctionOnSet(Profits(trades), ClosedIn(trades))
  BY SumOfFunction DEF RealizedPnl, Profits
<1>8. TotalEquity(trades, priced) = StartingCash + RealizedPnl(trades) + UnrealizedPnl(trades, priced)
  BY DEF TotalEquity
<1>. HIDE DEF priced, D, gains, gain, O
<1>9. SumFunctionOnSet(gain, D) = SumFunctionOnSet(gains, OpenOf(trades, D))
  BY <1>2, <1>3, <1>4, <1>5, OpenByPosition
<1>. QED  BY <1>3, <1>6, <1>7, <1>8, <1>9 DEF priced, gains, O

\* Closing an open trade at the mark of its symbol moves its gain among the profits.
LEMMA ClosingMovesGain ==
    ASSUME NEW trades, SoundTrades(trades), OneSided(trades),
           NEW tk, IsTicks(tk, Symbols, Times, Prices),
           NEW id \in DOMAIN trades, trades[id].status = "open",
           NEW exit \in ExitPrices, NEW t \in LatestTimes(tk, trades[id].fill.symbol),
           tk[trades[id].fill.symbol][t] = exit,
           NEW after,
           after = Put(trades, id,
                      Book!ClosedRow(trades[id], exit, Book!Pnl(trades[id].fill, exit)))
    PROVE  TotalEquity(after, Quotes(tk, after)) = TotalEquity(trades, Quotes(tk, trades))
<1>. DEFINE row == Book!ClosedRow(trades[id], exit, Book!Pnl(trades[id].fill, exit))
            s == trades[id].fill.symbol
            O == OpenOf(trades, Quoted(tk))
            C == ClosedIn(trades)
            gains == Gains(trades, tk)
            profits == Profits(trades)
<1>1. SoundTrades(after)
  BY JournalStaysSound
<1>2. /\ row.status = "closed" /\ row.fill = trades[id].fill
      /\ row.pnl = Book!Pnl(trades[id].fill, exit)
  <2>1. trades[id] \in Row
    BY DEF SoundTrades, IsTable
  <2>. QED  BY <2>1 DEF Book!ClosedRow, Row
<1>3. /\ DOMAIN after = DOMAIN trades /\ after[id] = row
      /\ \A x \in DOMAIN trades : x # id => after[x] = trades[x]
  <2>. HIDE DEF row
  <2>1. after = Put(trades, id, row)
    BY DEF row
  <2>. QED  BY <2>1 DEF Put
<1>4. OneSided(after)
  BY <1>2, <1>3 DEF OneSided
<1>5. s \in Symbols /\ s \in Quoted(tk) /\ Marks(tk)[s] = exit
  <2>1. s \in Symbols
    BY RowNumbers
  <2>. QED  BY <2>1, LatestIsOne DEF Quoted
<1>6. id \in O /\ id \notin C
  BY <1>5 DEF OpenOf, ClosedIn
<1>7. OpenOf(after, Quoted(tk)) = O \ {id} /\ ClosedIn(after) = C \cup {id}
  BY <1>2, <1>3 DEF OpenOf, ClosedIn
<1>8. \A x \in O \ {id} : Gains(after, tk)[x] = gains[x]
  <2>. TAKE x \in O \ {id}
  <2>1. x \in DOMAIN trades /\ x # id /\ after[x] = trades[x] /\ Cost(after)[x] = Cost(trades)[x]
    BY <1>3 DEF OpenOf, Cost
  <2>2. x \in OpenOf(after, Quoted(tk))
    BY <1>7
  <2>. QED  BY <2>1, <2>2 DEF Gains
<1>9. \A x \in C : Profits(after)[x] = profits[x]
  BY <1>3, <1>6, <1>7 DEF Profits, ClosedIn
<1>10. \A x \in O : gains[x] \in Int
  <2>. TAKE x \in O
  <2>1. x \in DOMAIN trades /\ trades[x].fill.symbol \in Quoted(tk)
    BY DEF OpenOf
  <2>2. Marks(tk)[trades[x].fill.symbol] \in Int
    BY <2>1, LatestIsOne DEF Quoted
  <2>3. Signed(trades[x]) \in Int /\ Cost(trades)[x] \in Int
    BY <2>1, RowNumbers
  <2>4. \A a, b, c \in Int : a * b - c \in Int
    OBVIOUS
  <2>. QED  BY <2>2, <2>3, <2>4 DEF Gains
<1>11. Profits(after)[id] = gains[id]
  <2>. DEFINE d == Book!Direction(trades[id].fill.side)
              q == trades[id].fill.quantity
              p == trades[id].fill.price
  <2>1. d \in {1, -1} /\ q \in Nat /\ p \in Nat /\ exit \in Nat
    BY RowNumbers, NumbersAssumption
  <2>2. Profits(after)[id] = (d * (exit - p)) * q
    BY <1>2, <1>3, <1>7 DEF Profits, Book!Pnl
  <2>3. gains[id] = (d * q) * exit - (d * q) * p
    BY <1>5, <1>6, RowNumbers DEF Gains, Signed
  <2>. HIDE DEF d, q, p, gains
  <2>4. (d * (exit - p)) * q = (d * q) * exit - (d * q) * p
    BY <2>1
  <2>. QED  BY <2>2, <2>3, <2>4
<1>12. /\ IsFiniteSet(O) /\ IsFiniteSet(C)
       /\ \A x \in C : profits[x] \in Int
  <2>1. IsFiniteSet(O)
    BY FS_Subset DEF SoundTrades, OpenOf
  <2>2. IsFiniteSet(C) /\ C \subseteq DOMAIN trades
    BY ClosedNumbers
  <2>3. ASSUME NEW x \in C PROVE profits[x] \in Int
    <3>1. trades[x].pnl = Book!Pnl(trades[x].fill, trades[x].exitPrice)
          /\ trades[x].exitPrice \in ExitPrices /\ trades[x].fill \in Fills
      BY RowNumbers DEF SoundTrades, ClosedIn
    <3>. QED  BY <3>1, PnlType DEF Profits
  <2>. QED  BY <2>1, <2>2, <2>3
<1>13. TotalEquity(trades, Quotes(tk, trades))
         = StartingCash + SumFunctionOnSet(profits, C) + SumFunctionOnSet(gains, O)
  BY EquityIsGains
<1>14. TotalEquity(after, Quotes(tk, after))
         = StartingCash + SumFunctionOnSet(Profits(after), C \cup {id})
             + SumFunctionOnSet(Gains(after, tk), O \ {id})
  BY <1>1, <1>4, <1>7, EquityIsGains, ZenonT(60)
<1>. HIDE DEF row, O, C, gains, profits, s
<1>15. IsFiniteSet(O \ {id}) /\ \A x \in O \ {id} : gains[x] \in Int
  BY <1>10, <1>12, FS_Subset
<1>16. SumFunctionOnSet(Gains(after, tk), O \ {id}) = SumFunctionOnSet(gains, O \ {id})
  BY <1>8, <1>15, SumOfEquals
<1>17. SumFunctionOnSet(gains, O) = gains[id] + SumFunctionOnSet(gains, O \ {id})
  BY <1>6, <1>10, <1>12, SumRemove
<1>18. SumFunctionOnSet(Profits(after), C \cup {id})
         = gains[id] + SumFunctionOnSet(Profits(after), C)
  <2>1. \A x \in C \cup {id} : Profits(after)[x] \in Int
    BY <1>6, <1>9, <1>10, <1>11, <1>12
  <2>. QED  BY <1>6, <1>11, <1>12, <2>1, SumAdd
<1>19. SumFunctionOnSet(Profits(after), C) = SumFunctionOnSet(profits, C)
  BY <1>9, <1>12, SumOfEquals
<1>20. /\ gains[id] \in Int /\ SumFunctionOnSet(profits, C) \in Int
       /\ SumFunctionOnSet(gains, O \ {id}) \in Int
  BY <1>6, <1>10, <1>12, <1>15, SumType
<1>. QED  BY <1>13, <1>14, <1>16, <1>17, <1>18, <1>19, <1>20, NumbersAssumption

\* A step that closes an entry closes it in its account's journal, and changes nothing else there.
LEMMA ClosingNeutralStep ==
    ASSUME PortfolioIInv, [Next]_vars, NEW id \in DOMAIN entries,
           entries[id].status = "open", entries'[id].status = "closed",
           entries[id].user # NULL, OneSided(TradesOf(entries, entries[id].user)),
           \E t \in LatestTimes(ticks, entries[id].fill.symbol) :
               ticks[entries[id].fill.symbol][t] = entries'[id].exitPrice
    PROVE  EquityOf(entries[id].user, entries', ticks) = EquityOf(entries[id].user, entries, ticks)
<1>. DEFINE u == entries[id].user
            trades == TradesOf(entries, u)
            after == TradesOf(entries', u)
            closed(exit) == Book!ClosedRow(entries[id], exit, Book!Pnl(entries[id].fill, exit))
<1>1. PICK exit \in ExitPrices : entries' = Put(entries, id, closed(exit))
  <2>1. CASE UNCHANGED entries
    BY <2>1
  <2>2. CASE JournalStep
    <3>1. ASSUME NEW i \in EntryIds, NEW owner \in users, NEW fill \in Fills,
                 Book!Record(i, owner, fill)
          PROVE  entries'[id] = entries[id]
      BY <3>1 DEF Book!Record, Book!Put
    <3>2. ASSUME NEW i \in EntryIds, NEW exit \in ExitPrices, Book!Close(i, exit)
          PROVE  /\ i # id => entries'[id] = entries[id]
                 /\ i = id => entries' = Put(entries, id, closed(exit))
      BY <3>2 DEF Book!Close, Book!Put, Put
    <3>. HIDE DEF closed
    <3>. QED  BY <2>2, <3>1, <3>2 DEF JournalStep
  <2>3. ASSUME NEW w \in Users, DeleteUser(w)
        PROVE  FALSE
    <3>1. entries[id] \in Row
      BY DEF PortfolioIInv, SoundTrades, IsTable
    <3>2. entries'[id].status = entries[id].status
      BY <2>3, <3>1 DEF DeleteUser, Book!Disowned, Row
    <3>. QED  BY <3>2
  <2>. QED  BY <2>1, <2>2, <2>3
         DEF Next, vars, ListTrades, PricePosition, StoreOrAnswer, Abort, IngestTick
<1>2. closed(exit).user = u /\ closed(exit).exitPrice = exit
  <2>1. entries[id] \in Row
    BY DEF PortfolioIInv, SoundTrades, IsTable
  <2>. QED  BY <2>1 DEF Book!ClosedRow, Row
<1>3. entries'[id] = closed(exit)
  BY <1>1 DEF Put
<1>4. id \in DOMAIN trades /\ trades[id] = entries[id]
  BY DEF TradesOf
<1>5. after = Put(trades, id, closed(exit))
  <2>. DEFINE row == closed(exit)
  <2>1. row.user = u /\ entries' = Put(entries, id, row)
    BY <1>1, <1>2
  <2>. HIDE DEF row
  <2>2. /\ DOMAIN entries' = DOMAIN entries /\ entries'[id] = row
        /\ \A i \in DOMAIN entries : i # id => entries'[i] = entries[i]
    BY <2>1 DEF Put
  <2>3. /\ DOMAIN after = DOMAIN trades \cup {id} /\ after = [i \in DOMAIN after |-> after[i]]
        /\ \A i \in DOMAIN after : after[i] = entries'[i]
        /\ \A i \in DOMAIN trades : trades[i] = entries[i] /\ i \in DOMAIN entries
    BY <2>1, <2>2, <1>4 DEF TradesOf
  <2>. HIDE DEF after, trades
  <2>4. \A i \in DOMAIN trades \cup {id} : after[i] = IF i = id THEN row ELSE trades[i]
    BY <2>2, <2>3
  <2>5. after = [i \in DOMAIN trades \cup {id} |-> IF i = id THEN row ELSE trades[i]]
    BY <2>3, <2>4
  <2>. QED  BY <2>5 DEF Put, row
<1>6. SoundTrades(trades)
  BY JournalStaysSound DEF PortfolioIInv
<1>7. IsTicks(ticks, Symbols, Times, Prices)
  BY DEF PortfolioIInv, TypeOK
<1>8. PICK t \in LatestTimes(ticks, trades[id].fill.symbol) :
         ticks[trades[id].fill.symbol][t] = exit
  BY <1>2, <1>3, <1>4
<1>9. after = Put(trades, id,
                 Book!ClosedRow(trades[id], exit, Book!Pnl(trades[id].fill, exit)))
  BY <1>4, <1>5
<1>10. OneSided(trades) /\ trades[id].status = "open"
  BY <1>4
<1>. HIDE DEF trades, after
<1>11. TotalEquity(after, Quotes(ticks, after)) = TotalEquity(trades, Quotes(ticks, trades))
  BY <1>4, <1>6, <1>7, <1>8, <1>9, <1>10, ClosingMovesGain
<1>. QED  BY <1>11 DEF EquityOf, trades, after

-------------------------------------------------------------------------------
(* The theorems.                                                               *)

\* The invariant holds throughout.
LEMMA PortfolioAlways == Spec => []PortfolioIInv
  BY PortfolioInitially, PortfolioInductive, PTL DEF Spec

\* Accounts add up: a stored snapshot of an account that holds no symbol both ways balances,
\* and so do all answers, whatever was traded, closed or ticked between the reads.
THEOREM PortfolioInvariance == Spec => []PortfolioInv
<1>1. PortfolioIInv => PortfolioInv
  BY SnapshotsBalance, AnswersAddUp DEF PortfolioIInv, PortfolioInv
<1>. QED  BY <1>1, PortfolioAlways, PTL

\* No position is valued at a tick older than the latest one there was when the request read
\* the journal.
THEOREM ValuesStayFresh == Spec => []ValuesAreFresh
<1>1. PortfolioIInv => ValuesAreFresh
  BY ViewsAreFresh
<1>. QED  BY <1>1, PortfolioAlways, PTL

\* Closing a trade at the market price leaves the equity of its account as it was.
THEOREM ClosingStaysNeutral == Spec => ClosingIsNeutral
<1>. DEFINE Neutral ==
       \A id \in DOMAIN entries :
         LET row == entries[id]
             s   == row.fill.symbol
         IN  /\ row.status = "open" /\ entries'[id].status = "closed"
             /\ row.user # NULL /\ OneSided(TradesOf(entries, row.user))
             /\ \E t \in LatestTimes(ticks, s) : ticks[s][t] = entries'[id].exitPrice
             => EquityOf(row.user, entries', ticks) = EquityOf(row.user, entries, ticks)
<1>1. PortfolioIInv /\ [Next]_vars => [Neutral]_vars
  BY ClosingNeutralStep
<1>. QED  BY <1>1, PortfolioAlways, PTL DEF Spec, ClosingIsNeutral

-------------------------------------------------------------------------------
(* Analytics: the inductive invariant.                                         *)

\* A sequence of anything, and a journal as the statistics read it: finitely many entries.
IsSequence(s) == s \in Seq(Range(s))
IsJournal(j) ==
    /\ IsFiniteSet(DOMAIN j)
    /\ \A i \in DOMAIN j : /\ j[i].status \in {"open", "closed"}
                           /\ j[i].pnl \in Int \cup {null} /\ j[i].filled \in Int
IsCurve(curve) == curve \in Seq(Int)

\* A journal as a whole, as the statistics read it.
WholeOf(rows) == [i \in DOMAIN rows |-> Entry(rows[i])]
Whole == WholeOf(journal)
\* An earlier journal: what it has closed, the later one has closed just so.
IsPart(j, k) ==
    /\ DOMAIN j \subseteq DOMAIN k
    /\ \A i \in DOMAIN j : j[i].status = "closed" => k[i] = j[i]
Everything == [from |-> null, to |-> null]

\* The counts of a report do not exceed those of a journal.
Counts(stats, j) ==
    /\ stats.totalTrades <= Cardinality(DOMAIN j)
    /\ stats.totalTrades - stats.openTrades <= Cardinality(closedTradesOf(j))
    /\ stats.winningTrades <= Cardinality(Wins(j))
AreCounts(stats) ==
    /\ stats.totalTrades \in Int /\ stats.openTrades \in Int /\ stats.winningTrades \in Int

IsDrawdown(shown) == shown.num \in Int /\ shown.den \in Nat \ {0}

\* The drawdown of a report is no more than one of the curve; or of one that the snapshots have.
DrawdownOf(stats, curve) ==
    stats.maxDrawdownPct # null =>
        /\ IsDrawdown(stats.maxDrawdownPct) /\ Len(curve) >= 2
        /\ \/ SameNumber(stats.maxDrawdownPct, Zero)
           \/ \E p, q \in DOMAIN curve : /\ p < q /\ curve[p] > 0
                 /\ SameNumber(Decline(curve[p], curve[q]), stats.maxDrawdownPct)
DrawdownKept(stats) ==
    stats.maxDrawdownPct # null =>
        /\ IsDrawdown(stats.maxDrawdownPct) /\ SumFunction(equitySnapshots) >= 2
        /\ CertainOrder =>
              \/ SameNumber(stats.maxDrawdownPct, Zero)
              \/ \E a, b \in DOMAIN equitySnapshots : /\ a.asOf < b.asOf /\ a.equity > 0
                    /\ SameNumber(Decline(a.equity, b.equity), stats.maxDrawdownPct)

\* Rows are well-formed, and the table of snapshots has a number of copies of each.
TablesOK ==
    /\ journal \in Seq(Entries) /\ IsSequence(reports)
    /\ IsFiniteSet(DOMAIN equitySnapshots) /\ DOMAIN equitySnapshots \subseteq Snapshots
    /\ equitySnapshots \in [DOMAIN equitySnapshots -> Nat \ {0}]

\* A curve is one of the snapshots there are: as many places at most, and in the order of asOf.
IsRead(curve) ==
    /\ IsCurve(curve) /\ Len(curve) <= SumFunction(equitySnapshots)
    /\ \E rows \in [DOMAIN curve -> DOMAIN equitySnapshots] :
          InOrderOfAsOf(rows) /\ curve = Equity(rows)

\* A request that is loading has what it read of the journal, and a curve of the snapshots.
IsLoad(q) ==
    /\ q = [at |-> "loading", range |-> q.range, entries |-> q.entries, curve |-> q.curve,
            stored |-> q.stored]
    /\ q.stored \in 0..Len(reports)
    /\ q.entries # null =>
          IsJournal(q.entries) /\ (q.range = Everything => IsPart(q.entries, Whole))
    /\ q.curve # null => IsRead(q.curve)
LoadsOK ==
    /\ request = [r \in Queries |-> request[r]]
    /\ \A r \in Queries : Loading(r) => IsLoad(request[r])

ReportsOK ==
    \A k \in DOMAIN reports :
          /\ reports[k].after \in 0..(k - 1)
          /\ Agree(reports[k].stats) /\ AreCounts(reports[k].stats)
          /\ FullHistory(k) => Counts(reports[k].stats, Whole) /\ DrawdownKept(reports[k].stats)

\* What a request for the full history has read forgets nothing of the reports before it.
Remembers(q) ==
    q.range = Everything =>
        \A i \in 1..q.stored : FullHistory(i) =>
            /\ q.entries # null => Counts(reports[i].stats, q.entries)
            /\ q.curve # null /\ CertainOrder => DrawdownOf(reports[i].stats, q.curve)
LoadsRemember == \A r \in Queries : Loading(r) => Remembers(request[r])

AnalyticsInv == TablesOK /\ LoadsOK /\ ReportsOK /\ LoadsRemember /\ ReportsNeverForget

-------------------------------------------------------------------------------
(* Analytics: the walk for the drawdown.                                       *)

\* The running peaks and the worst declines of a curve.
IsWalk(peak, worst, curve) ==
    /\ peak \in [0..Len(curve) -> Int] /\ worst \in [0..Len(curve) -> [num : Int, den : Int]]
    /\ peak[0] = curve[1] /\ worst[0] = Zero
    /\ computeMaxDrawdownPct(curve) = worst[Len(curve)]
    /\ \A n \in 1..Len(curve) :
          LET decline == Fraction(peak[n] - curve[n], peak[n])
          IN  /\ peak[n] = IF curve[n] > peak[n-1] THEN curve[n] ELSE peak[n-1]
              /\ worst[n] = IF peak[n] > 0 /\ Exceeds(decline, worst[n-1]) THEN decline
                            ELSE worst[n-1]

\* The walk over a curve, step by step.
LEMMA PartialWalks ==
    ASSUME NEW curve, IsCurve(curve), Len(curve) >= 2
    PROVE  \E peak, worst : IsWalk(peak, worst, curve)
<1> DEFINE m == Len(curve)
           A == [peak : Int, worst : [num : Int, den : Int]]
           start == WalkFrom(curve[1])
           next == [x \in A \X (1..m) |-> Walk(x[1], curve[x[2]])]
           Solves(g) == g = [s \in SUBSET DOMAIN curve |->
                                IF s = {} THEN start ELSE Walk(g[s \ {Max(s)}], curve[Max(s)])]
<1>1. m \in Nat /\ DOMAIN curve = 1..m /\ (\A n \in 1..m : curve[n] \in Int)
  BY DEF IsCurve
<1>2. curve[1] \in Int
  BY <1>1
<1>3. start \in A /\ start.peak = curve[1] /\ start.worst = Zero
  BY <1>2 DEF WalkFrom, Zero, Fraction
<1>4. ASSUME NEW a \in A, NEW e \in Int
      PROVE  LET peak    == IF e > a.peak THEN e ELSE a.peak
                 decline == Fraction(peak - e, peak)
             IN  /\ Walk(a, e) \in A
                 /\ Walk(a, e).peak = peak
                 /\ Walk(a, e).worst = IF peak > 0 /\ Exceeds(decline, a.worst) THEN decline ELSE a.worst
  <2> DEFINE peak == IF e > a.peak THEN e ELSE a.peak
             decline == Fraction(peak - e, peak)
             worst == IF peak > 0 /\ Exceeds(decline, a.worst) THEN decline ELSE a.worst
  <2>1. a.peak \in Int /\ a.worst \in [num : Int, den : Int]
    OBVIOUS
  <2>2. peak \in Int
    BY <2>1
  <2>3. decline \in [num : Int, den : Int]
    <3> HIDE DEF peak
    <3> QED BY <2>2 DEF Fraction
  <2>4. worst \in [num : Int, den : Int]
    <3> HIDE DEF peak, decline
    <3> QED BY <2>1, <2>3
  <2>5. Walk(a, e) = [peak |-> peak, worst |-> worst]
    BY DEF Walk
  <2> HIDE DEF peak, worst
  <2>6. Walk(a, e) \in A /\ Walk(a, e).peak = peak /\ Walk(a, e).worst = worst
    BY <2>2, <2>4, <2>5
  <2> QED BY <2>6 DEF peak, worst
<1>5. next \in [A \X (1..m) -> A]
  <2>1. \A a \in A, n \in 1..m : Walk(a, curve[n]) \in A
    BY <1>1, <1>4
  <2> HIDE DEF A, m
  <2> QED BY <2>1
<1>6. PICK g \in [SUBSET (1..m) -> A] : Solves(g)
  <2> HIDE DEF A, m, start
  <2>1. PICK g \in [SUBSET (1..m) -> A] : IsFold(g, m, start, next)
    <3> HIDE DEF next
    <3> QED BY <1>1, <1>3, <1>5, FoldExists
  <2>2. ASSUME NEW s \in SUBSET (1..m), s # {}
        PROVE  g[s] = Walk(g[s \ {Max(s)}], curve[Max(s)])
    <3>1. Max(s) \in 1..m /\ s \ {Max(s)} \in SUBSET (1..m)
      BY <1>1, <2>2, MaxOfPlaces
    <3>2. g[s] = next[<<g[s \ {Max(s)}], Max(s)>>]
      BY <2>1, <2>2 DEF IsFold
    <3>3. g[s \ {Max(s)}] \in A
      BY <3>1
    <3> QED BY <3>1, <3>2, <3>3
  <2>3. g[{}] = start
    BY <2>1 DEF IsFold
  <2> HIDE DEF next
  <2>4. Solves(g)
    BY <1>1, <2>1, <2>2, <2>3
  <2> QED BY <2>4
<1>7. PICK h : Solves(h) /\ computeMaxDrawdownPct(curve) = h[1..m].worst
  <2> HIDE DEF A, m, start, next
  <2>1. FoldLeft(Walk, start, curve) = (CHOOSE h : Solves(h))[DOMAIN curve]
    BY DEF FoldLeft, MapThenFoldSet
  <2>2. computeMaxDrawdownPct(curve) = FoldLeft(Walk, start, curve).worst
    BY DEF computeMaxDrawdownPct, start
  <2> HIDE DEF Solves, start
  <2> QED BY <1>1, <1>6, <2>1, <2>2
<1> HIDE DEF start, next
<1> DEFINE K == [n \in 0..m |-> h[1..n]]
<1>8. K[0] = start
  <2>1. {} \in SUBSET DOMAIN curve /\ 1..0 = {} /\ 0 \in 0..m
    BY <1>1
  <2>2. h[{}] = start
    BY <1>7, <2>1
  <2> QED BY <2>1, <2>2
<1>9. ASSUME NEW n \in 1..m
      PROVE  K[n] = Walk(K[n-1], curve[n])
  <2>1. n \in Nat /\ n \in 1..n /\ n \in 0..m /\ n - 1 \in 0..m
    BY <1>1
  <2>2. 1..n \in SUBSET DOMAIN curve
    BY <1>1
  <2>3. Max(1..n) = n /\ (1..n) \ {n} = 1..(n-1)
    BY <2>1, MaxOfAll
  <2>4. h[1..n] = Walk(h[(1..n) \ {n}], curve[n])
    BY <1>7, <2>1, <2>2, <2>3
  <2> QED BY <2>1, <2>3, <2>4
<1>10. K \in [0..m -> A]
  <2> DEFINE S == {n \in 0..m : K[n] \in A}
  <2> HIDE DEF K, A
  <2>1. 0 \in S
    <3>1. 0 \in 0..m /\ K[0] \in A
      BY <1>1, <1>3, <1>8
    <3> QED BY <3>1
  <2>2. ASSUME NEW n \in 0..(m-1), n \in S
        PROVE  n + 1 \in S
    <3>1. n + 1 \in 1..m /\ n + 1 \in 0..m /\ (n + 1) - 1 = n /\ curve[n+1] \in Int
      BY <1>1
    <3>2. K[n+1] = Walk(K[n], curve[n+1])
      BY <1>9, <3>1
    <3>3. K[n] \in A
      BY <2>2
    <3>4. Walk(K[n], curve[n+1]) \in A
      BY <1>4, <3>1, <3>3 DEF A
    <3> QED BY <3>1, <3>2, <3>4
  <2>3. \A n \in 0..m : n \in S
    <3> HIDE DEF S
    <3> QED BY <1>1, <2>1, <2>2, InductionTo
  <2> QED BY <2>3 DEF K
<1>11. h[1..m] = K[m] /\ m \in 0..m
  BY <1>1
<1> HIDE DEF K, Solves
<1> DEFINE peak == [n \in 0..m |-> K[n].peak]
           worst == [n \in 0..m |-> K[n].worst]
<1>12. peak \in [0..m -> Int] /\ worst \in [0..m -> [num : Int, den : Int]]
  BY <1>10
<1>13. peak[0] = curve[1] /\ worst[0] = Zero
  BY <1>1, <1>3, <1>8
<1>14. computeMaxDrawdownPct(curve) = worst[m]
  BY <1>7, <1>11
<1>15. ASSUME NEW n \in 1..m
       PROVE  LET decline == Fraction(peak[n] - curve[n], peak[n])
              IN  /\ peak[n] = IF curve[n] > peak[n-1] THEN curve[n] ELSE peak[n-1]
                  /\ worst[n] = IF peak[n] > 0 /\ Exceeds(decline, worst[n-1]) THEN decline
                                ELSE worst[n-1]
  <2>1. n \in 0..m /\ n - 1 \in 0..m /\ curve[n] \in Int
    BY <1>1
  <2>2. K[n-1] \in A /\ K[n] = Walk(K[n-1], curve[n])
    BY <1>9, <1>10, <2>1
  <2>3. peak[n] = K[n].peak /\ peak[n-1] = K[n-1].peak /\ worst[n] = K[n].worst /\ worst[n-1] = K[n-1].worst
    BY <2>1
  <2> HIDE DEF peak, worst
  <2>4. peak[n] = IF curve[n] > peak[n-1] THEN curve[n] ELSE peak[n-1]
    BY <1>4, <2>1, <2>2, <2>3, ZenonT(60)
  <2> DEFINE q == peak[n]
             decline == Fraction(q - curve[n], q)
  <2>5. q = IF curve[n] > K[n-1].peak THEN curve[n] ELSE K[n-1].peak
    BY <2>3, <2>4
  <2> HIDE DEF q
  <2>6. worst[n] = IF q > 0 /\ Exceeds(decline, worst[n-1]) THEN decline ELSE worst[n-1]
    <3> HIDE DEF A
    <3>1. K[n].worst = IF q > 0 /\ Exceeds(decline, K[n-1].worst) THEN decline ELSE K[n-1].worst
      <4> DEFINE v == K[n-1]
                 equity == curve[n]
      <4>1. q = IF equity > v.peak THEN equity ELSE v.peak
        BY <2>5
      <4>2. K[n] = Walk(v, equity)
        BY <2>2
      <4> HIDE DEF v, equity
      <4>3. Walk(v, equity).worst = IF q > 0 /\ Exceeds(Fraction(q - equity, q), v.worst)
                                    THEN Fraction(q - equity, q) ELSE v.worst
        <5> DEFINE fall == Fraction(q - equity, q)
        <5>1. Walk(v, equity) = [peak  |-> q,
                                 worst |-> IF q > 0 /\ Exceeds(fall, v.worst) THEN fall ELSE v.worst]
          BY <4>1 DEF Walk
        <5> HIDE DEF fall
        <5>2. Walk(v, equity).worst = IF q > 0 /\ Exceeds(fall, v.worst) THEN fall ELSE v.worst
          BY <5>1
        <5> QED BY <5>2 DEF fall
      <4> QED BY <4>2, <4>3 DEF v, equity
    <3> QED BY <2>3, <3>1
  <2> QED BY <2>4, <2>6 DEF q
<1> HIDE DEF peak, worst
<1>16. IsWalk(peak, worst, curve)
  BY <1>12, <1>13, <1>14, <1>15 DEF m, IsWalk
<1> QED BY <1>16

\* Of fractions: what is exceeded by neither of two is transitive, and a higher peak is a worse
\* decline to the same equity.
LEMMA Transitive ==
    ASSUME NEW a, NEW b, NEW c, a.num \in Int, a.den \in Nat \ {0}, IsDrawdown(b), IsDrawdown(c),
           ~ Exceeds(a, b), ~ Exceeds(b, c)
    PROVE  ~ Exceeds(a, c)
<1>1. \A p, q, r \in Int, x, y, z \in Nat \ {0} : p * y <= q * x /\ q * z <= r * y => p * z <= r * x
  <2> SUFFICES ASSUME NEW p \in Int, NEW q \in Int, NEW r \in Int,
                      NEW x \in Nat \ {0}, NEW y \in Nat \ {0}, NEW z \in Nat \ {0},
                      p * y <= q * x, q * z <= r * y
               PROVE  p * z <= r * x
    OBVIOUS
  <2>1. \A u, v \in Int, k \in Nat \ {0} : (u <= v => u * k <= v * k) /\ (u * k <= v * k => u <= v)
    BY Z3
  <2>2. (p * y) * z <= (q * x) * z /\ (q * z) * x <= (r * y) * x
    BY <2>1
  <2>3. /\ (p * y) * z = (p * z) * y /\ (q * x) * z = (q * z) * x /\ (r * y) * x = (r * x) * y
        /\ (p * z) * y \in Int /\ (q * z) * x \in Int /\ (r * x) * y \in Int
    BY Z3
  <2>4. (p * z) * y <= (r * x) * y
    BY <2>2, <2>3
  <2>5. p * z \in Int /\ r * x \in Int
    OBVIOUS
  <2> QED BY <2>1, <2>4, <2>5
<1>2. a.num * b.den <= b.num * a.den /\ b.num * c.den <= c.num * b.den
  <2>1. a.num * b.den \in Int /\ b.num * a.den \in Int /\ b.num * c.den \in Int /\ c.num * b.den \in Int
    BY DEF IsDrawdown
  <2> QED BY <2>1 DEF Exceeds
<1>3. a.num * c.den <= c.num * a.den /\ a.num * c.den \in Int /\ c.num * a.den \in Int
  BY <1>1, <1>2 DEF IsDrawdown
<1> QED BY <1>3 DEF Exceeds

\* A decline from a higher peak is no smaller.
LEMMA HigherPeak ==
    ASSUME NEW p \in Int, NEW c \in Int, NEW e \in Int, 0 < c, c <= p, 0 <= e
    PROVE  ~ Exceeds(Decline(c, e), Decline(p, e))
<1>1. e * c <= e * p
  BY Z3
<1>2. (c - e) * p = c * p - e * p /\ (p - e) * c = c * p - e * c
  BY Z3
<1>3. c * p \in Int /\ e * p \in Int /\ e * c \in Int
  OBVIOUS
<1> DEFINE cp == c * p
           ep == e * p
           ec == e * c
<1> HIDE DEF cp, ep, ec
<1>4. (c - e) * p = cp - ep /\ (p - e) * c = cp - ec /\ ec <= ep /\ cp \in Int /\ ep \in Int /\ ec \in Int
  BY <1>1, <1>2, <1>3 DEF cp, ep, ec
<1>5. ~ ((c - e) * p > (p - e) * c)
  BY <1>4
<1> QED BY <1>5 DEF Exceeds, Decline, Fraction

\* What the walk over a curve finds: a decline of the curve that no step of it exceeds.
LEMMA WalkFinds ==
    ASSUME NEW curve, IsCurve(curve), Len(curve) >= 2
    PROVE  LET shown == computeMaxDrawdownPct(curve)
           IN  /\ IsDrawdown(shown) /\ shown.num >= 0
               /\ \/ SameNumber(shown, Zero)
                  \/ \E p, q \in DOMAIN curve : /\ p < q /\ curve[p] > 0
                        /\ SameNumber(Decline(curve[p], curve[q]), shown)
               /\ \A q \in DOMAIN curve : \A p \in DOMAIN curve : p < q /\ curve[p] > 0 =>
                     \E peak \in Int : /\ peak >= curve[p]
                                       /\ ~ Exceeds(Decline(peak, curve[q]), shown)
<1> DEFINE m == Len(curve)
<1>1. m \in Nat /\ m >= 2 /\ DOMAIN curve = 1..m /\ (\A n \in 1..m : curve[n] \in Int)
  BY DEF IsCurve
<1>0. PICK peak, worst : IsWalk(peak, worst, curve)
  BY PartialWalks
<1>2. /\ peak \in [0..m -> Int] /\ worst \in [0..m -> [num : Int, den : Int]]
      /\ peak[0] = curve[1] /\ worst[0] = Zero
      /\ computeMaxDrawdownPct(curve) = worst[m]
      /\ \A n \in 1..m :
            /\ peak[n] = IF curve[n] > peak[n-1] THEN curve[n] ELSE peak[n-1]
            /\ worst[n] = IF peak[n] > 0 /\ Exceeds(Decline(peak[n], curve[n]), worst[n-1])
                          THEN Decline(peak[n], curve[n]) ELSE worst[n-1]
  BY <1>0 DEF IsWalk, Decline
<1> HIDE DEF m
<1> DEFINE Highest(n) == /\ \A k \in 1..n : curve[k] <= peak[n]
                         /\ \E k \in 1..m : (k <= n \/ n = 0) /\ peak[n] = curve[k]
           Found(n) == \/ worst[n] = Zero
                       \/ \E k \in 1..n : /\ peak[k] > curve[k] /\ peak[k] > 0
                                          /\ worst[n] = Decline(peak[k], curve[k])
           NoneWorse(n) == \A k \in 1..n : peak[k] > 0 => ~ Exceeds(Decline(peak[k], curve[k]), worst[n])
           Good(n) == /\ IsDrawdown(worst[n]) /\ worst[n].num >= 0
                      /\ Highest(n) /\ Found(n) /\ NoneWorse(n)
<1>3. Good(0)
  <2>1. IsDrawdown(worst[0]) /\ worst[0].num >= 0
    BY <1>2 DEF IsDrawdown, Zero, Fraction
  <2>2. Highest(0)
    <3>1. 1 \in 1..m /\ 1..0 = {}
      BY <1>1
    <3> QED BY <1>2, <3>1
  <2> QED BY <1>2, <2>1, <2>2
<1>4. ASSUME NEW n \in 0..(m-1), Good(n)
      PROVE  Good(n + 1)
  <2> DEFINE o == n + 1
             p == peak[n+1]
             decline == Decline(p, curve[n+1])
  <2>1. o \in 1..m /\ o - 1 = n /\ n \in 0..m /\ o \in 0..m /\ curve[o] \in Int
    BY <1>1
  <2>2. /\ p = IF curve[o] > peak[n] THEN curve[o] ELSE peak[n]
        /\ worst[o] = IF p > 0 /\ Exceeds(decline, worst[n]) THEN decline ELSE worst[n]
    BY <1>2, <2>1
  <2>3. p \in Int /\ peak[n] \in Int /\ p >= peak[n] /\ p >= curve[o]
    BY <1>2, <2>1, <2>2
  <2>4. decline.num = p - curve[o] /\ decline.den = p
    BY DEF Decline, Fraction
  <2> HIDE DEF p, decline
  <2>7. \A k \in 1..o : curve[k] <= p
    <3> SUFFICES ASSUME NEW k \in 1..o PROVE curve[k] <= p
      OBVIOUS
    <3>1. CASE k = o
      BY <2>3, <3>1
    <3>2. CASE k # o
      <4>1. k \in 1..n /\ k \in 1..m
        BY <1>1, <3>2
      <4>2. curve[k] <= peak[n] /\ curve[k] \in Int
        BY <1>1, <1>4, <4>1
      <4> QED BY <2>3, <4>2
    <3> QED BY <3>1, <3>2
  <2>5. CASE p > 0 /\ Exceeds(decline, worst[n])
    <3>1. worst[o] = decline
      BY <2>2, <2>5
    <3>2. decline.num > 0 /\ IsDrawdown(decline)
      <4>1. decline.num * worst[n].den > worst[n].num * decline.den
        BY <2>5 DEF Exceeds
      <4>2. \A a, b, c \in Int, d \in Nat \ {0} : b >= 0 /\ c > 0 /\ a * d > b * c => a > 0
        <5> SUFFICES ASSUME NEW a \in Int, NEW b \in Int, NEW c \in Int, NEW d \in Nat \ {0},
                            b >= 0, c > 0, a <= 0
                     PROVE  ~ (a * d > b * c)
          OBVIOUS
        <5>1. a * d <= 0 /\ b * c >= 0 /\ a * d \in Int /\ b * c \in Int
          BY Z3
        <5> QED BY <5>1
      <4>3. decline.num \in Int /\ decline.den \in Int /\ decline.den > 0
        BY <2>1, <2>3, <2>4, <2>5
      <4>4. worst[n].num \in Int /\ worst[n].den \in Nat \ {0} /\ worst[n].num >= 0
        BY <1>4 DEF IsDrawdown
      <4>5. decline.num > 0
        <5> DEFINE a == decline.num
                   b == worst[n].num
                   c == decline.den
                   d == worst[n].den
        <5>1. /\ a \in Int /\ b \in Int /\ c \in Int /\ d \in Nat \ {0}
              /\ b >= 0 /\ c > 0 /\ a * d > b * c
          BY <4>1, <4>3, <4>4
        <5> HIDE DEF a, b, c, d
        <5>2. a > 0
          BY ONLY <4>2, <5>1
        <5> QED BY <5>2 DEF a
      <4> QED BY <4>3, <4>5 DEF IsDrawdown
    <3>3. p > curve[o]
      BY <2>1, <2>3, <2>4, <3>2
    <3>4. Found(o)
      <4>1. o \in 1..o
        BY <2>1
      <4> QED BY <2>5, <3>1, <3>3, <4>1 DEF p, decline
    <3>5. ~ Exceeds(worst[n], decline)
      <4>1. decline.num * worst[n].den > worst[n].num * decline.den
        BY <2>5 DEF Exceeds
      <4>2. decline.num * worst[n].den \in Int /\ worst[n].num * decline.den \in Int
        BY <1>4, <3>2, SMTT(30) DEF IsDrawdown
      <4> QED BY <4>1, <4>2 DEF Exceeds
    <3>6. ~ Exceeds(decline, decline)
      <4>1. decline.num * decline.den \in Int
        BY <3>2 DEF IsDrawdown
      <4> QED BY <4>1 DEF Exceeds
    <3>7. NoneWorse(o)
      <4> SUFFICES ASSUME NEW k \in 1..o, peak[k] > 0
                   PROVE  ~ Exceeds(Decline(peak[k], curve[k]), decline)
        BY <3>1
      <4>1. CASE k = o
        BY <3>6, <4>1 DEF p, decline
      <4>2. CASE k # o
        <5>1. k \in 1..n /\ k \in 1..m /\ k \in 0..m
          BY <1>1, <4>2
        <5>2. ~ Exceeds(Decline(peak[k], curve[k]), worst[n])
          BY <1>4, <5>1
        <5>3. Decline(peak[k], curve[k]).num \in Int /\ Decline(peak[k], curve[k]).den \in Nat \ {0}
          <6>1. peak[k] \in Int /\ curve[k] \in Int
            BY <1>1, <1>2, <5>1
          <6> QED BY <6>1 DEF Decline, Fraction
        <5> QED BY <1>4, <3>2, <3>5, <5>2, <5>3, Transitive
      <4> QED BY <4>1, <4>2
    <3>8. Highest(o)
      <4>1. \A k \in 1..o : curve[k] <= peak[o]
        BY <2>7 DEF p
      <4>2. \E k \in 1..m : (k <= o \/ o = 0) /\ peak[o] = curve[k]
        <5>1. p = curve[o] \/ p = peak[n]
          BY <2>2
        <5>2. CASE p = curve[o]
          BY <2>1, <5>2 DEF p
        <5>3. CASE p = peak[n]
          <6>1. PICK k \in 1..m : (k <= n \/ n = 0) /\ peak[n] = curve[k]
            BY <1>4
          <6>2. k <= o
            <7>1. n = 0 => peak[n] = curve[1] /\ o = 1
              BY <1>2
            <7>2. n # 0 \/ p = curve[o]
              BY <5>3, <7>1
            <7> QED BY <1>1, <3>3, <6>1, <7>2
          <6> QED BY <5>3, <6>1, <6>2 DEF p
        <5> QED BY <5>1, <5>2, <5>3
      <4> QED BY <4>1, <4>2
    <3>9. IsDrawdown(worst[o]) /\ worst[o].num >= 0
      BY <3>1, <3>2 DEF IsDrawdown
    <3> HIDE DEF Highest, Found, NoneWorse
    <3> QED BY <3>4, <3>7, <3>8, <3>9
  <2>6. CASE ~ (p > 0 /\ Exceeds(decline, worst[n]))
    <3>1. worst[o] = worst[n]
      BY <2>2, <2>6
    <3>2. Found(o)
      <4>1. \A k \in 1..n : k \in 1..o
        BY <2>1
      <4> QED BY <1>4, <3>1, <4>1
    <3>3. NoneWorse(o)
      <4> SUFFICES ASSUME NEW k \in 1..o, peak[k] > 0
                   PROVE  ~ Exceeds(Decline(peak[k], curve[k]), worst[n])
        BY <3>1
      <4>1. CASE k = o
        BY <2>6, <4>1 DEF p, decline
      <4>2. CASE k # o
        <5>1. k \in 1..n
          BY <1>1, <4>2
        <5> QED BY <1>4, <5>1
      <4> QED BY <4>1, <4>2
    <3>4. Highest(o)
      <4>1. \A k \in 1..o : curve[k] <= peak[o]
        BY <2>7 DEF p
      <4>2. \E k \in 1..m : (k <= o \/ o = 0) /\ peak[o] = curve[k]
        <5>1. CASE p = curve[o]
          BY <2>1, <5>1 DEF p
        <5>2. CASE p # curve[o]
          <6>1. p = peak[n]
            BY <2>2, <5>2
          <6>2. PICK k \in 1..m : (k <= n \/ n = 0) /\ peak[n] = curve[k]
            BY <1>4
          <6>3. n = 0 => k <= o
            <7>1. n = 0 => peak[n] = curve[1] /\ o = 1
              BY <1>2
            <7>2. n # 0
              BY <5>2, <6>1, <7>1
            <7> QED BY <7>2
          <6> QED BY <2>1, <6>1, <6>2, <6>3 DEF p
        <5> QED BY <5>1, <5>2
      <4> QED BY <4>1, <4>2
    <3>5. IsDrawdown(worst[o]) /\ worst[o].num >= 0
      BY <1>4, <3>1
    <3> HIDE DEF Highest, Found, NoneWorse
    <3> QED BY <3>2, <3>3, <3>4, <3>5
  <2> QED BY <2>5, <2>6
<1> HIDE DEF Good
<1>5. \A n \in 0..m : Good(n)
  <2> DEFINE S == {n \in 0..m : Good(n)}
  <2>1. 0 \in S
    BY <1>1, <1>3
  <2>2. \A n \in 0..(m-1) : n \in S => n + 1 \in S
    BY <1>1, <1>4
  <2>3. \A n \in 0..m : n \in S
    <3> HIDE DEF S
    <3> QED BY <1>1, <2>1, <2>2, InductionTo
  <2> QED BY <2>3
<1>6. Good(m)
  BY <1>1, <1>5
<1> DEFINE shown == worst[m]
<1>7. IsDrawdown(shown) /\ shown.num >= 0
  BY <1>6 DEF Good
<1>8. \/ SameNumber(shown, Zero)
      \/ \E p, q \in DOMAIN curve : /\ p < q /\ curve[p] > 0
            /\ SameNumber(Decline(curve[p], curve[q]), shown)
  <2>1. CASE shown = Zero
    BY <2>1 DEF SameNumber, Zero, Fraction
  <2>2. CASE shown # Zero
    <3>1. PICK q \in 1..m : peak[q] > curve[q] /\ peak[q] > 0 /\ shown = Decline(peak[q], curve[q])
      BY <1>6, <2>2 DEF Good
    <3>2. q \in 0..m /\ q # 0
      BY <1>1
    <3>3. PICK p \in 1..m : p <= q /\ peak[q] = curve[p]
      BY <1>5, <3>2 DEF Good
    <3>4. p < q
      BY <1>1, <3>1, <3>3
    <3>5. SameNumber(Decline(curve[p], curve[q]), shown)
      <4>1. shown = Decline(curve[p], curve[q])
        BY <3>1, <3>3
      <4> QED BY <4>1 DEF SameNumber
    <3> QED BY <1>1, <3>1, <3>3, <3>4, <3>5
  <2> QED BY <2>1, <2>2
<1>9. \A q \in DOMAIN curve : \A p \in DOMAIN curve : p < q /\ curve[p] > 0 =>
         \E h \in Int : h >= curve[p] /\ ~ Exceeds(Decline(h, curve[q]), shown)
  <2> SUFFICES ASSUME NEW q \in 1..m, NEW p \in 1..m, p < q, curve[p] > 0
               PROVE  \E h \in Int : h >= curve[p] /\ ~ Exceeds(Decline(h, curve[q]), shown)
    BY <1>1
  <2>1. q \in 0..m /\ p \in 1..q
    BY <1>1
  <2>2. peak[q] \in Int /\ curve[p] \in Int /\ peak[q] >= curve[p]
    BY <1>1, <1>2, <1>5, <2>1 DEF Good
  <2>3. ~ Exceeds(Decline(peak[q], curve[q]), shown)
    BY <1>6, <2>2 DEF Good
  <2> QED BY <2>2, <2>3
<1>10. computeMaxDrawdownPct(curve) = shown
  BY <1>2
<1> HIDE DEF shown
<1> QED BY <1>7, <1>8, <1>9, <1>10

\* The drawdown of a curve that is never negative is the worst decline there is.
LEMMA WalkIsWorst ==
    ASSUME NEW curve, IsCurve(curve), Len(curve) >= 2, \A i \in DOMAIN curve : curve[i] >= 0
    PROVE  IsWorst(computeMaxDrawdownPct(curve), curve)
<1> DEFINE shown == computeMaxDrawdownPct(curve)
<1>1. /\ IsDrawdown(shown) /\ shown.num >= 0
      /\ \/ SameNumber(shown, Zero)
         \/ \E p, q \in DOMAIN curve : /\ p < q /\ curve[p] > 0
               /\ SameNumber(Decline(curve[p], curve[q]), shown)
      /\ \A q \in DOMAIN curve : \A p \in DOMAIN curve : p < q /\ curve[p] > 0 =>
            \E peak \in Int : /\ peak >= curve[p] /\ ~ Exceeds(Decline(peak, curve[q]), shown)
  BY WalkFinds
<1> HIDE DEF shown
<1>2. ASSUME NEW p \in DOMAIN curve, NEW q \in DOMAIN curve, p < q, curve[p] > 0
      PROVE  ~ Exceeds(Decline(curve[p], curve[q]), shown)
  <2>1. PICK peak \in Int : peak >= curve[p] /\ ~ Exceeds(Decline(peak, curve[q]), shown)
    BY <1>1, <1>2
  <2>2. curve[p] \in Int /\ curve[q] \in Int /\ curve[q] >= 0
    BY DEF IsCurve
  <2>3. ~ Exceeds(Decline(curve[p], curve[q]), Decline(peak, curve[q]))
    BY <1>2, <2>1, <2>2, HigherPeak
  <2>4. /\ Decline(curve[p], curve[q]).num \in Int /\ Decline(curve[p], curve[q]).den \in Nat \ {0}
        /\ IsDrawdown(Decline(peak, curve[q]))
    BY <1>2, <2>1, <2>2 DEF IsDrawdown, Decline, Fraction
  <2> QED BY <1>1, <2>1, <2>3, <2>4, Transitive
<1>3. \A decline \in Declines(curve) : ~ Exceeds(decline, shown)
  BY <1>2 DEF Declines
<1>4. ~ SameNumber(shown, Zero) => \E decline \in Declines(curve) : SameNumber(decline, shown)
  <2> SUFFICES ASSUME ~ SameNumber(shown, Zero)
               PROVE  \E decline \in Declines(curve) : SameNumber(decline, shown)
    OBVIOUS
  <2>1. PICK p, q \in DOMAIN curve : p < q /\ curve[p] > 0 /\ SameNumber(Decline(curve[p], curve[q]), shown)
    BY <1>1
  <2>2. Decline(curve[p], curve[q]) \in Declines(curve)
    <3>1. <<p, q>> \in {x \in (DOMAIN curve) \X (DOMAIN curve) : x[1] < x[2] /\ curve[x[1]] > 0}
      BY <2>1
    <3> QED BY <3>1 DEF Declines
  <2> QED BY <2>1, <2>2
<1> QED BY <1>3, <1>4 DEF IsWorst, shown

-------------------------------------------------------------------------------
(* Analytics: the table of snapshots, and the curves read from it.             *)

\* One more copy of a snapshot is one more snapshot.
LEMMA OneMoreCopy ==
    ASSUME NEW t, IsFiniteSet(DOMAIN t), t \in [DOMAIN t -> Nat \ {0}], NEW s,
           NEW copies, copies = IF s \in DOMAIN t THEN t[s] ELSE 0
    PROVE  LET u == Put(t, s, copies + 1)
           IN  /\ IsFiniteSet(DOMAIN u) /\ DOMAIN u = DOMAIN t \cup {s}
               /\ u \in [DOMAIN u -> Nat \ {0}] /\ SumFunction(u) = SumFunction(t) + 1
<1> DEFINE u == Put(t, s, copies + 1)
           D == DOMAIN t
<1>1. DOMAIN u = D \cup {s} /\ u = [x \in D \cup {s} |-> IF x = s THEN copies + 1 ELSE t[x]]
  BY DEF Put
<1>2. copies \in Nat /\ \A x \in D : t[x] \in Nat \ {0}
  OBVIOUS
<1>3. IsFiniteSet(D \cup {s})
  BY FS_AddElement
<1>4. u[s] = copies + 1 /\ \A x \in D : x # s => u[x] = t[x]
  BY <1>1
<1>5. \A x \in D \cup {s} : u[x] \in Nat \ {0}
  BY <1>2, <1>4
<1>6. u \in [D \cup {s} -> Nat \ {0}]
  BY <1>1, <1>5
<1> HIDE DEF u
<1>7. SumFunctionOnSet(u, D \cup {s}) = SumFunctionOnSet(t, D) + 1
  <2>1. CASE s \notin D
    <3>1. SumFunctionOnSet(u, D \cup {s}) = u[s] + SumFunctionOnSet(u, D)
      <4>1. \A y \in D \cup {s} : u[y] \in Int
        BY <1>5
      <4> HIDE DEF D
      <4> QED BY <2>1, <4>1, SumAdd DEF D
    <3>2. \A x \in D : t[x] \in Int /\ u[x] = t[x]
      BY <1>2, <1>4, <2>1
    <3>3. SumFunctionOnSet(u, D) = SumFunctionOnSet(t, D)
      BY <3>2, SumOfEquals
    <3>4. SumFunctionOnSet(t, D) \in Int
      BY <3>2, SumType
    <3> QED BY <1>4, <2>1, <3>1, <3>3, <3>4
  <2>2. CASE s \in D
    <3>1. D \cup {s} = D
      BY <2>2
    <3>2. \A x \in D : t[x] \in Int /\ u[x] \in Int
      BY <1>2, <1>5
    <3>3. SumFunctionOnSet(u, D) = u[s] + SumFunctionOnSet(u, D \ {s})
      BY <2>2, <3>2, SumRemove
    <3>4. SumFunctionOnSet(t, D) = t[s] + SumFunctionOnSet(t, D \ {s})
      BY <2>2, <3>2, SumRemove
    <3>5. IsFiniteSet(D \ {s}) /\ \A x \in D \ {s} : t[x] \in Int /\ u[x] = t[x]
      BY <1>2, <1>4, FS_RemoveElement
    <3>6. SumFunctionOnSet(u, D \ {s}) = SumFunctionOnSet(t, D \ {s})
      BY <3>5, SumOfEquals
    <3>7. SumFunctionOnSet(t, D \ {s}) \in Int
      BY <3>5, SumType
    <3> QED BY <1>2, <1>4, <2>2, <3>1, <3>3, <3>4, <3>6, <3>7
  <2> QED BY <2>1, <2>2
<1>8. SumFunction(u) = SumFunction(t) + 1
  BY <1>1, <1>7, SumOfFunction
<1> QED BY <1>1, <1>3, <1>6, <1>8 DEF u

\* A listing has every row there is, as many in all as there are copies.
LEMMA Listed ==
    ASSUME NEW copies, IsFiniteSet(DOMAIN copies), copies \in [DOMAIN copies -> Nat \ {0}],
           NEW rows \in Listings(copies)
    PROVE  /\ SumFunction(copies) \in Nat /\ DOMAIN rows = 1..SumFunction(copies)
           /\ rows \in [1..SumFunction(copies) -> DOMAIN copies]
           /\ \A s \in DOMAIN copies : \E i \in DOMAIN rows : rows[i] = s
<1> DEFINE D == DOMAIN copies
<1>1. \A s \in D : copies[s] \in Nat \ {0}
  OBVIOUS
<1>2. SumFunctionOnSet(copies, D) \in Nat
  <2>1. CASE D = {}
    BY <2>1, SumEmpty
  <2>2. CASE D # {}
    BY <1>1, <2>2, SumPositive
  <2> QED BY <2>1, <2>2
<1>3. SumFunction(copies) \in Nat
  BY <1>2, SumOfFunction
<1>4. /\ rows \in [1..SumFunction(copies) -> D]
      /\ \A s \in D : Cardinality({i \in DOMAIN rows : rows[i] = s}) = copies[s]
  BY DEF Listings
<1>5. \A s \in D : \E i \in DOMAIN rows : rows[i] = s
  <2> SUFFICES ASSUME NEW s \in D, {i \in DOMAIN rows : rows[i] = s} = {} PROVE FALSE
    OBVIOUS
  <2>1. Cardinality({i \in DOMAIN rows : rows[i] = s}) = 0
    BY FS_EmptySet
  <2> QED BY <1>1, <1>4, <2>1
<1> QED BY <1>3, <1>4, <1>5

\* A subset of a finite set has no more members, and both have a number of them.
LEMMA Fewer ==
    ASSUME NEW S, IsFiniteSet(S), NEW T, T \subseteq S
    PROVE  /\ IsFiniteSet(T) /\ Cardinality(T) \in Nat /\ Cardinality(S) \in Nat
           /\ Cardinality(T) <= Cardinality(S)
  BY FS_Subset, FS_CardinalityType

\* The snapshots of a range are a part of the table, and the whole of it for the full history.
LEMMA PartOfTable ==
    ASSUME NEW t, IsFiniteSet(DOMAIN t), t \in [DOMAIN t -> Nat \ {0}], NEW range
    PROVE  LET u == InRange(range, t)
           IN  /\ DOMAIN u \subseteq DOMAIN t /\ IsFiniteSet(DOMAIN u)
               /\ u \in [DOMAIN u -> Nat \ {0}] /\ SumFunction(u) <= SumFunction(t)
               /\ range = Everything => u = t
<1> DEFINE u == InRange(range, t)
           D == DOMAIN t
           E == {s \in D : Within(range, s.asOf)}
<1>1. DOMAIN u = E /\ u = [s \in E |-> t[s]]
  BY DEF InRange
<1>2. E \subseteq D /\ IsFiniteSet(E) /\ IsFiniteSet(D \ E) /\ E \cup (D \ E) = D /\ E \cap (D \ E) = {}
  BY FS_Subset
<1>3. \A s \in D : t[s] \in Nat \ {0}
  OBVIOUS
<1>4. u \in [E -> Nat \ {0}]
  BY <1>1, <1>2, <1>3
<1>5. range = Everything => u = t
  <2> SUFFICES ASSUME range = Everything PROVE u = t
    OBVIOUS
  <2>1. range.from = null /\ range.to = null
    BY DEF Everything
  <2>2. \A s \in D : Within(range, s.asOf)
    BY <2>1 DEF Within
  <2> QED BY <1>1, <2>2
<1> HIDE DEF u
<1>6. SumFunction(u) <= SumFunction(t)
  <2> HIDE DEF E
  <2>1. SumFunctionOnSet(t, D) = SumFunctionOnSet(t, E) + SumFunctionOnSet(t, D \ E)
    <3>1. \A s \in E \cup (D \ E) : t[s] \in Int
      BY <1>2, <1>3
    <3>2. SumFunctionOnSet(t, E \cup (D \ E)) = SumFunctionOnSet(t, E) + SumFunctionOnSet(t, D \ E)
      BY <1>2, <3>1, SumSplit
    <3> QED BY <1>2, <3>2
  <2>2. SumFunctionOnSet(t, D \ E) \in Nat
    <3>1. CASE D \ E = {}
      <4>1. SumFunctionOnSet(t, D \ E) = 0
        BY <3>1, SumEmpty
      <4> QED BY <4>1
    <3>2. CASE D \ E # {}
      <4>1. \A s \in D \ E : t[s] \in Nat \ {0}
        BY <1>3
      <4>2. SumFunctionOnSet(t, D \ E) \in Nat \ {0}
        BY <1>2, <3>2, <4>1, SumPositive
      <4> QED BY <4>2
    <3> QED BY <3>1, <3>2
  <2>3. SumFunctionOnSet(u, E) = SumFunctionOnSet(t, E) /\ SumFunctionOnSet(t, E) \in Int
    <3>1. \A s \in E : t[s] \in Int /\ u[s] = t[s]
      BY <1>1, <1>2, <1>3
    <3> QED BY <1>2, <3>1, SumOfEquals, SumType
  <2>4. SumFunction(u) = SumFunctionOnSet(u, E) /\ SumFunction(t) = SumFunctionOnSet(t, D)
    BY <1>1, SumOfFunction
  <2> QED BY <2>1, <2>2, <2>3, <2>4
<1> QED BY <1>1, <1>2, <1>4, <1>5, <1>6 DEF u

\* What the read of the snapshots returns is a curve of the snapshots, and for the full history it has them all.
LEMMA ReadCurves ==
    ASSUME TablesOK, NEW range,
           NEW rows \in Listings(InRange(range, equitySnapshots)), InOrderOfAsOf(rows)
    PROVE  /\ IsRead(Equity(rows))
           /\ range = Everything =>
                 /\ Len(Equity(rows)) = SumFunction(equitySnapshots)
                 /\ DOMAIN Equity(rows) = DOMAIN rows
                 /\ \A s \in DOMAIN equitySnapshots : \E i \in DOMAIN rows : rows[i] = s
<1> DEFINE t == equitySnapshots
           u == InRange(range, t)
           n == SumFunction(u)
           curve == Equity(rows)
<1>1. IsFiniteSet(DOMAIN t) /\ t \in [DOMAIN t -> Nat \ {0}] /\ DOMAIN t \subseteq Snapshots
  BY DEF TablesOK
<1>2. /\ DOMAIN u \subseteq DOMAIN t /\ IsFiniteSet(DOMAIN u)
      /\ u \in [DOMAIN u -> Nat \ {0}] /\ SumFunction(u) <= SumFunction(t)
      /\ range = Everything => u = t
  <2> HIDE DEF t
  <2> QED BY <1>1, PartOfTable
<1>3. /\ n \in Nat /\ DOMAIN rows = 1..n /\ rows \in [1..n -> DOMAIN u]
      /\ \A s \in DOMAIN u : \E i \in DOMAIN rows : rows[i] = s
  <2> DEFINE v == InRange(range, equitySnapshots)
  <2>1. rows \in Listings(v) /\ IsFiniteSet(DOMAIN v) /\ v \in [DOMAIN v -> Nat \ {0}]
    BY <1>2
  <2> HIDE DEF v
  <2>2. /\ SumFunction(v) \in Nat /\ DOMAIN rows = 1..SumFunction(v)
        /\ rows \in [1..SumFunction(v) -> DOMAIN v]
        /\ \A s \in DOMAIN v : \E i \in DOMAIN rows : rows[i] = s
    BY <2>1, Listed
  <2> QED BY <2>2 DEF v
<1> HIDE DEF u, n
<1>4. curve = [i \in 1..n |-> rows[i].equity]
  BY <1>3 DEF Equity
<1>5. \A i \in 1..n : rows[i] \in DOMAIN t /\ rows[i].equity \in Int
  <2> SUFFICES ASSUME NEW i \in 1..n PROVE rows[i] \in DOMAIN t /\ rows[i].equity \in Int
    OBVIOUS
  <2>1. rows[i] \in DOMAIN t
    BY <1>2, <1>3
  <2>2. rows[i] \in Snapshots
    BY <1>1, <2>1
  <2> QED BY <2>1, <2>2, CurveAssumption DEF Snapshots
<1>6. IsCurve(curve) /\ Len(curve) = n /\ DOMAIN curve = 1..n
  <2>1. curve \in [1..n -> Int]
    BY <1>4, <1>5
  <2> HIDE DEF curve
  <2> QED BY <1>3, <2>1 DEF IsCurve
<1>7. Len(curve) <= SumFunction(t)
  BY <1>2, <1>6 DEF n
<1>8. rows \in [DOMAIN curve -> DOMAIN t]
  BY <1>3, <1>5, <1>6
<1>9. IsRead(curve)
  BY <1>6, <1>7, <1>8 DEF IsRead
<1>10. range = Everything => Len(curve) = SumFunction(t) /\ \A s \in DOMAIN t : \E i \in DOMAIN rows : rows[i] = s
  BY <1>2, <1>3, <1>6 DEF n
<1> QED BY <1>3, <1>6, <1>9, <1>10

-------------------------------------------------------------------------------
(* Analytics: what the rows of the statistics say.                             *)

\* The fields of both.
LEMMA JoinedFields ==
    ASSUME NEW row, NEW more
    PROVE  /\ DOMAIN Joined(row, more) = DOMAIN row \cup DOMAIN more
           /\ \A f \in DOMAIN row : Joined(row, more)[f] = row[f]
           /\ \A f \in DOMAIN more : f \notin DOMAIN row => Joined(row, more)[f] = more[f]
  BY DEF Joined

\* The rows of the breakdowns and the performance reply, figure by figure.
LEMMA FiguresFields ==
    ASSUME NEW j
    PROVE  LET s == FiguresOf(j)
           IN  /\ DOMAIN s = {"totalTrades", "winningTrades", "losingTrades", "breakevenTrades",
                              "openTrades", "totalRealizedPnl", "winRate"}
               /\ s.totalTrades = Cardinality(DOMAIN j)
               /\ s.winningTrades = Cardinality(Wins(j))
               /\ s.losingTrades = Cardinality(Losses(j))
               /\ s.breakevenTrades = Cardinality(closedTradesOf(j) \ (Wins(j) \cup Losses(j)))
               /\ s.openTrades = Cardinality(DOMAIN j \ closedTradesOf(j))
               /\ s.totalRealizedPnl = TotalPnl(j, closedTradesOf(j))
               /\ s.winRate = computeWinRate(j)
<1> DEFINE c == computeTradeCounts(j)
           more == [totalRealizedPnl |-> TotalPnl(j, closedTradesOf(j)), winRate |-> computeWinRate(j)]
           s == Joined(c, more)
<1>1. /\ DOMAIN c = {"totalTrades", "winningTrades", "losingTrades", "breakevenTrades", "openTrades"}
      /\ c.totalTrades = Cardinality(DOMAIN j)
      /\ c.winningTrades = Cardinality(Wins(j))
      /\ c.losingTrades = Cardinality(Losses(j))
      /\ c.breakevenTrades = Cardinality(closedTradesOf(j) \ (Wins(j) \cup Losses(j)))
      /\ c.openTrades = Cardinality(DOMAIN j \ closedTradesOf(j))
  BY DEF computeTradeCounts
<1>2. /\ DOMAIN more = {"totalRealizedPnl", "winRate"}
      /\ more.totalRealizedPnl = TotalPnl(j, closedTradesOf(j)) /\ more.winRate = computeWinRate(j)
  OBVIOUS
<1> HIDE DEF c, more
<1>3. /\ DOMAIN s = DOMAIN c \cup DOMAIN more
      /\ \A f \in DOMAIN c : s[f] = c[f]
      /\ \A f \in DOMAIN more : f \notin DOMAIN c => s[f] = more[f]
  BY JoinedFields
<1> HIDE DEF s
<1>4. /\ s["totalTrades"] = c["totalTrades"] /\ s["winningTrades"] = c["winningTrades"]
      /\ s["losingTrades"] = c["losingTrades"] /\ s["breakevenTrades"] = c["breakevenTrades"]
      /\ s["openTrades"] = c["openTrades"] /\ s["totalRealizedPnl"] = more["totalRealizedPnl"]
      /\ s["winRate"] = more["winRate"]
  BY <1>1, <1>2, <1>3
<1>5. DOMAIN s = {"totalTrades", "winningTrades", "losingTrades", "breakevenTrades",
                              "openTrades", "totalRealizedPnl", "winRate"}
  BY <1>1, <1>2, <1>3
<1>6. FiguresOf(j) = s
  BY DEF FiguresOf, s, c, more
<1> QED BY <1>1, <1>2, <1>4, <1>5, <1>6

\* What a row says beyond the figures, and that it says the same as they do.
LEMMA RowFields ==
    ASSUME NEW j
    PROVE  LET s == MonthRow(j)
               t == StrategyRow(j)
               u == SessionRow(j)
           IN  /\ DOMAIN u = DOMAIN FiguresOf(j) \cup {"averageReturn"}
               /\ DOMAIN t = DOMAIN u \cup {"expectancy"}
               /\ DOMAIN s = DOMAIN t \cup
                     {"averageReturnPct", "plannedRiskRewardRatio", "realizedRiskRewardRatio"}
               /\ \A f \in DOMAIN FiguresOf(j) :
                     s[f] = FiguresOf(j)[f] /\ t[f] = FiguresOf(j)[f] /\ u[f] = FiguresOf(j)[f]
               /\ s.averageReturn = computeAverageReturn(j)
               /\ s.expectancy = computeExpectancy(j)
               /\ s.realizedRiskRewardRatio = computeRealizedRiskRewardRatio(j)
<1> DEFINE c == FiguresOf(j)
           m1 == [averageReturn |-> computeAverageReturn(j)]
           u == Joined(c, m1)
           m2 == [expectancy |-> computeExpectancy(j)]
           t == Joined(u, m2)
           m3 == [averageReturnPct        |-> computeAverageReturnPct(j),
                  plannedRiskRewardRatio  |-> computePlannedRiskRewardRatio(j),
                  realizedRiskRewardRatio |-> computeRealizedRiskRewardRatio(j)]
           s == Joined(t, m3)
<1>1. DOMAIN c = {"totalTrades", "winningTrades", "losingTrades", "breakevenTrades",
                              "openTrades", "totalRealizedPnl", "winRate"}
  BY FiguresFields
<1>2. /\ DOMAIN m1 = {"averageReturn"} /\ m1.averageReturn = computeAverageReturn(j)
      /\ DOMAIN m2 = {"expectancy"} /\ m2.expectancy = computeExpectancy(j)
      /\ DOMAIN m3 = {"averageReturnPct", "plannedRiskRewardRatio", "realizedRiskRewardRatio"}
      /\ m3.realizedRiskRewardRatio = computeRealizedRiskRewardRatio(j)
  OBVIOUS
<1>3. SessionRow(j) = u /\ StrategyRow(j) = t /\ MonthRow(j) = s
  BY DEF SessionRow, StrategyRow, MonthRow
<1> HIDE DEF c, m1, m2, m3
<1>4. /\ DOMAIN u = DOMAIN c \cup DOMAIN m1
      /\ \A f \in DOMAIN c : u[f] = c[f]
      /\ \A f \in DOMAIN m1 : f \notin DOMAIN c => u[f] = m1[f]
  BY JoinedFields
<1> HIDE DEF u
<1>5. /\ DOMAIN t = DOMAIN u \cup DOMAIN m2
      /\ \A f \in DOMAIN u : t[f] = u[f]
      /\ \A f \in DOMAIN m2 : f \notin DOMAIN u => t[f] = m2[f]
  BY JoinedFields
<1> HIDE DEF t
<1>6. /\ DOMAIN s = DOMAIN t \cup DOMAIN m3
      /\ \A f \in DOMAIN t : s[f] = t[f]
      /\ \A f \in DOMAIN m3 : f \notin DOMAIN t => s[f] = m3[f]
  BY JoinedFields
<1> HIDE DEF s
<1>7. \A f \in DOMAIN c : s[f] = c[f] /\ t[f] = c[f] /\ u[f] = c[f]
  BY <1>4, <1>5, <1>6
<1>8. s["averageReturn"] = m1["averageReturn"]
  <2>1. "averageReturn" \in DOMAIN m1 /\ "averageReturn" \notin DOMAIN c
    BY <1>1, <1>2
  <2> QED BY <1>4, <1>5, <1>6, <2>1
<1>9. s["expectancy"] = m2["expectancy"]
  <2>1. "expectancy" \in DOMAIN m2 /\ "expectancy" \notin DOMAIN u
    BY <1>1, <1>2, <1>4
  <2> QED BY <1>5, <1>6, <2>1
<1>10. s["realizedRiskRewardRatio"] = m3["realizedRiskRewardRatio"]
  <2>1. "realizedRiskRewardRatio" \in DOMAIN m3 /\ "realizedRiskRewardRatio" \notin DOMAIN t
    BY <1>1, <1>2, <1>4, <1>5
  <2> QED BY <1>6, <2>1
<1>11. DOMAIN u = DOMAIN c \cup {"averageReturn"} /\ DOMAIN t = DOMAIN u \cup {"expectancy"}
       /\ DOMAIN s = DOMAIN t \cup
                     {"averageReturnPct", "plannedRiskRewardRatio", "realizedRiskRewardRatio"}
  BY <1>2, <1>4, <1>5, <1>6
<1>12. /\ s.averageReturn = computeAverageReturn(j) /\ s.expectancy = computeExpectancy(j)
       /\ s.realizedRiskRewardRatio = computeRealizedRiskRewardRatio(j)
  BY <1>2, <1>8, <1>9, <1>10
<1> QED BY <1>3, <1>7, <1>11, <1>12 DEF c

\* The performance reply.
LEMMA FullStatFields ==
    ASSUME NEW j, NEW curve
    PROVE  LET s == computeFullStatSet(j, curve)
               risk == computeRiskAdjustedReturns(curve)
           IN  /\ s.totalTrades = Cardinality(DOMAIN j)
               /\ s.winningTrades = Cardinality(Wins(j))
               /\ s.losingTrades = Cardinality(Losses(j))
               /\ s.breakevenTrades = Cardinality(closedTradesOf(j) \ (Wins(j) \cup Losses(j)))
               /\ s.openTrades = Cardinality(DOMAIN j \ closedTradesOf(j))
               /\ s.totalRealizedPnl = TotalPnl(j, closedTradesOf(j))
               /\ s.winRate = computeWinRate(j)
               /\ s.averageReturn = computeAverageReturn(j)
               /\ s.expectancy = computeExpectancy(j)
               /\ s.realizedRiskRewardRatio = computeRealizedRiskRewardRatio(j)
               /\ s.maxDrawdownPct = computeMaxDrawdownPct(curve)
               /\ s.sharpeRatio = risk.sharpeRatio
               /\ s.sortinoRatio = risk.sortinoRatio
<1> DEFINE c == FiguresOf(j)
           r == MonthRow(j)
           risk == computeRiskAdjustedReturns(curve)
           m == [maxDrawdownPct |-> computeMaxDrawdownPct(curve),
                 sharpeRatio    |-> risk.sharpeRatio,
                 sortinoRatio   |-> risk.sortinoRatio]
           s == Joined(r, m)
<1>1. /\ DOMAIN c = {"totalTrades", "winningTrades", "losingTrades", "breakevenTrades",
                              "openTrades", "totalRealizedPnl", "winRate"}
      /\ c.totalTrades = Cardinality(DOMAIN j)
      /\ c.winningTrades = Cardinality(Wins(j))
      /\ c.losingTrades = Cardinality(Losses(j))
      /\ c.breakevenTrades = Cardinality(closedTradesOf(j) \ (Wins(j) \cup Losses(j)))
      /\ c.openTrades = Cardinality(DOMAIN j \ closedTradesOf(j))
      /\ c.totalRealizedPnl = TotalPnl(j, closedTradesOf(j))
      /\ c.winRate = computeWinRate(j)
  BY FiguresFields
<1>2. /\ DOMAIN r = DOMAIN c \cup {"averageReturn", "expectancy",
                      "averageReturnPct", "plannedRiskRewardRatio", "realizedRiskRewardRatio"}
      /\ \A f \in DOMAIN c : r[f] = c[f]
      /\ r.averageReturn = computeAverageReturn(j) /\ r.expectancy = computeExpectancy(j)
      /\ r.realizedRiskRewardRatio = computeRealizedRiskRewardRatio(j)
  BY RowFields
<1>3. /\ DOMAIN m = {"maxDrawdownPct", "sharpeRatio", "sortinoRatio"}
      /\ m.maxDrawdownPct = computeMaxDrawdownPct(curve)
      /\ m.sharpeRatio = risk.sharpeRatio /\ m.sortinoRatio = risk.sortinoRatio
  OBVIOUS
<1>4. computeFullStatSet(j, curve) = s
  BY DEF computeFullStatSet
<1> HIDE DEF c, r, m, risk
<1>5. /\ \A f \in DOMAIN r : s[f] = r[f]
      /\ \A f \in DOMAIN m : f \notin DOMAIN r => s[f] = m[f]
  BY JoinedFields
<1> HIDE DEF s
<1>6. \A f \in DOMAIN c : s[f] = c[f]
  BY <1>2, <1>5
<1>7. /\ s["totalTrades"] = c["totalTrades"] /\ s["winningTrades"] = c["winningTrades"]
      /\ s["losingTrades"] = c["losingTrades"] /\ s["breakevenTrades"] = c["breakevenTrades"]
      /\ s["openTrades"] = c["openTrades"] /\ s["totalRealizedPnl"] = c["totalRealizedPnl"]
      /\ s["winRate"] = c["winRate"]
  BY <1>1, <1>6
<1>8. /\ s["averageReturn"] = r["averageReturn"] /\ s["expectancy"] = r["expectancy"]
      /\ s["realizedRiskRewardRatio"] = r["realizedRiskRewardRatio"]
  BY <1>2, <1>5
<1>9. DOMAIN m \cap DOMAIN r = {}
  BY <1>1, <1>2, <1>3
<1>10. /\ s["maxDrawdownPct"] = m["maxDrawdownPct"] /\ s["sharpeRatio"] = m["sharpeRatio"]
       /\ s["sortinoRatio"] = m["sortinoRatio"]
  BY <1>3, <1>5, <1>9
<1> QED BY <1>1, <1>2, <1>3, <1>4, <1>7, <1>8, <1>10 DEF risk

-------------------------------------------------------------------------------
(* Analytics: the figures of one reply.                                        *)

\* A finite set and the part of it that another one leaves.
LEMMA TwoParts ==
    ASSUME NEW S, IsFiniteSet(S), NEW T, T \subseteq S
    PROVE  /\ Cardinality(S) \in Nat /\ Cardinality(T) \in Nat /\ Cardinality(S \ T) \in Nat
           /\ Cardinality(S) = Cardinality(T) + Cardinality(S \ T)
<1>1. IsFiniteSet(T) /\ S \cap T = T
  BY FS_Subset
<1>2. Cardinality(S \ T) = Cardinality(S) - Cardinality(T)
  BY <1>1, FS_Difference
<1>3. IsFiniteSet(S \ T)
  BY FS_Difference
<1>4. Cardinality(S) \in Nat /\ Cardinality(T) \in Nat /\ Cardinality(S \ T) \in Nat
  BY <1>1, <1>3, FS_CardinalityType
<1> QED BY <1>2, <1>4

\* The total of some trades of known P&L.
LEMMA TotalOf ==
    ASSUME NEW j, NEW ids, IsFiniteSet(ids), \A i \in ids : j[i].pnl \in Int,
           NEW f, \A i \in ids : f[i] = j[i].pnl
    PROVE  TotalPnl(j, ids) = SumFunctionOnSet(f, ids) /\ TotalPnl(j, ids) \in Int
<1> DEFINE g == [i \in ids |-> j[i].pnl]
<1>1. TotalPnl(j, ids) = SumFunctionOnSet(g, ids)
  <2>1. DOMAIN g = ids
    OBVIOUS
  <2>2. SumFunction(g) = SumFunctionOnSet(g, DOMAIN g)
    <3> HIDE DEF g
    <3> QED BY SumOfFunction
  <2> QED BY <2>1, <2>2 DEF TotalPnl
<1>2. \A i \in ids : f[i] \in Int /\ g[i] = f[i]
  OBVIOUS
<1> HIDE DEF g
<1>3. SumFunctionOnSet(g, ids) = SumFunctionOnSet(f, ids)
  BY <1>2, SumOfEquals
<1>4. SumFunctionOnSet(f, ids) \in Int
  BY <1>2, SumType
<1> QED BY <1>1, <1>3, <1>4

\* The closed trades of a journal: winners, losers and the rest, and their profits and losses.
LEMMA TradesAddUp ==
    ASSUME NEW j, IsJournal(j)
    PROVE  LET C == closedTradesOf(j)
               W == Wins(j)
               L == Losses(j)
               R == C \ (W \cup L)
           IN  /\ C \subseteq DOMAIN j /\ W \subseteq C /\ L \subseteq C /\ W \cap L = {}
               /\ IsFiniteSet(DOMAIN j) /\ IsFiniteSet(C) /\ IsFiniteSet(W) /\ IsFiniteSet(L)
               /\ \A i \in C : j[i].pnl \in Int
               /\ Cardinality(W) \in Nat /\ Cardinality(L) \in Nat /\ Cardinality(R) \in Nat
               /\ Cardinality(DOMAIN j \ C) \in Nat
               /\ Cardinality(C) = Cardinality(W) + Cardinality(L) + Cardinality(R)
               /\ Cardinality(DOMAIN j) = Cardinality(C) + Cardinality(DOMAIN j \ C)
               /\ TotalPnl(j, W) \in Int /\ TotalPnl(j, L) \in Int
               /\ TotalPnl(j, C) = TotalPnl(j, W) + TotalPnl(j, L)
               /\ IF W = {} THEN TotalPnl(j, W) = 0 ELSE TotalPnl(j, W) > 0
               /\ IF L = {} THEN TotalPnl(j, L) = 0 ELSE TotalPnl(j, L) < 0
<1> DEFINE C == closedTradesOf(j)
           W == Wins(j)
           L == Losses(j)
           R == C \ (W \cup L)
           f == [i \in C |-> j[i].pnl]
<1>1. IsFiniteSet(DOMAIN j) /\ \A i \in DOMAIN j : j[i].pnl \in Int \cup {null}
  BY DEF IsJournal
<1>2. C \subseteq DOMAIN j /\ \A i \in C : j[i].pnl \in Int
  BY <1>1 DEF closedTradesOf
<1>3. W = {i \in C : j[i].pnl > 0} /\ L = {i \in C : j[i].pnl < 0}
  BY DEF Wins, Losses
<1>4. W \subseteq C /\ L \subseteq C /\ W \cap L = {}
  BY <1>2, <1>3
<1>5. \A i \in C : f[i] = j[i].pnl /\ f[i] \in Int
  BY <1>2
<1>6. /\ \A i \in W : f[i] \in Nat \ {0}
      /\ \A i \in L : f[i] \in Int /\ f[i] < 0
      /\ \A i \in R : f[i] = 0
  BY <1>3, <1>5
<1> HIDE DEF C, W, L, f
<1>7. IsFiniteSet(C) /\ IsFiniteSet(W) /\ IsFiniteSet(L)
  BY <1>1, <1>2, <1>4, FS_Subset
<1>8. IsFiniteSet(W \cup L) /\ IsFiniteSet(R) /\ W \cup L \subseteq C /\ R \subseteq C
  BY <1>4, <1>7, FS_Subset
<1>9. /\ Cardinality(C) = Cardinality(W \cup L) + Cardinality(R)
      /\ Cardinality(R) \in Nat /\ Cardinality(W \cup L) \in Nat
  BY <1>7, <1>8, TwoParts
<1>10. /\ Cardinality(W \cup L) = Cardinality(W) + Cardinality(L)
       /\ Cardinality(W) \in Nat /\ Cardinality(L) \in Nat
  <2>1. W \subseteq W \cup L /\ (W \cup L) \ W = L
    BY <1>4
  <2> QED BY <1>8, <2>1, TwoParts
<1>11. /\ Cardinality(DOMAIN j) = Cardinality(C) + Cardinality(DOMAIN j \ C)
       /\ Cardinality(DOMAIN j \ C) \in Nat
  BY <1>1, <1>2, TwoParts
<1>12. /\ TotalPnl(j, C) = SumFunctionOnSet(f, C)
       /\ TotalPnl(j, W) = SumFunctionOnSet(f, W) /\ TotalPnl(j, W) \in Int
       /\ TotalPnl(j, L) = SumFunctionOnSet(f, L) /\ TotalPnl(j, L) \in Int
  BY <1>2, <1>4, <1>5, <1>7, TotalOf
<1>13. SumFunctionOnSet(f, C) = SumFunctionOnSet(f, W) + SumFunctionOnSet(f, L)
  <2>1. SumFunctionOnSet(f, R) = 0
    BY <1>6, <1>8, SumOfZeros
  <2>2. SumFunctionOnSet(f, W \cup L) = SumFunctionOnSet(f, W) + SumFunctionOnSet(f, L)
    BY <1>4, <1>5, <1>7, SumSplit
  <2>3. SumFunctionOnSet(f, (W \cup L) \cup R) = SumFunctionOnSet(f, W \cup L) + SumFunctionOnSet(f, R)
    <3>1. \A x \in (W \cup L) \cup R : f[x] \in Int
      BY <1>4, <1>5
    <3>2. (W \cup L) \cap R = {}
      OBVIOUS
    <3> QED BY <1>8, <3>1, <3>2, SumSplit
  <2>4. (W \cup L) \cup R = C
    BY <1>4
  <2> HIDE DEF R
  <2>5. SumFunctionOnSet(f, C) = SumFunctionOnSet(f, W \cup L) + SumFunctionOnSet(f, R)
    BY <2>3, <2>4
  <2>6. SumFunctionOnSet(f, W) \in Int /\ SumFunctionOnSet(f, L) \in Int
    BY <1>12
  <2> QED BY <2>1, <2>2, <2>5, <2>6
<1>14. IF W = {} THEN TotalPnl(j, W) = 0 ELSE TotalPnl(j, W) > 0
  <2>1. CASE W = {}
    BY <1>12, <2>1, SumEmpty
  <2>2. CASE W # {}
    <3>1. SumFunctionOnSet(f, W) \in Nat \ {0}
      BY <1>6, <1>7, <2>2, SumPositive
    <3> QED BY <1>12, <2>2, <3>1
  <2> QED BY <2>1, <2>2
<1>15. IF L = {} THEN TotalPnl(j, L) = 0 ELSE TotalPnl(j, L) < 0
  <2>1. CASE L = {}
    BY <1>12, <2>1, SumEmpty
  <2>2. CASE L # {}
    <3> DEFINE h == [i \in L |-> (-1) * f[i]]
               k == -1
    <3>1. \A i \in L : h[i] \in Nat \ {0} /\ f[i] \in Int /\ h[i] = k * f[i]
      BY <1>6
    <3>2. k \in Int
      OBVIOUS
    <3> HIDE DEF h
    <3>3. SumFunctionOnSet(h, L) \in Nat \ {0}
      BY <1>7, <2>2, <3>1, SumPositive
    <3>4. SumFunctionOnSet(h, L) = k * SumFunctionOnSet(f, L)
      <4> HIDE DEF k
      <4> QED BY <1>7, <3>1, <3>2, SumMultiple
    <3>5. SumFunctionOnSet(f, L) \in Int
      BY <1>12
    <3> QED BY <1>12, <2>2, <3>3, <3>4, <3>5
  <2> QED BY <2>1, <2>2
<1> QED BY <1>1, <1>2, <1>4, <1>7, <1>9, <1>10, <1>11, <1>12, <1>13, <1>14, <1>15 DEF C, W, L

\* Products of integers, rearranged.
LEMMA Rearranged ==
    ASSUME NEW w \in Nat, NEW l \in Nat, w + l > 0, NEW p \in Int, NEW q \in Int
    PROVE  LET d == w + l
           IN  /\ w > 0 /\ l > 0 =>
                    LET num == (w * p) * (d * l) - (l * (-q)) * (d * w)
                        den == (d * w) * (d * l)
                    IN  /\ num \in Int /\ den \in Int /\ num * d = (p + q) * den
                        /\ num > 0 <=> p + q > 0
                        /\ (p * l) * w > l * (w * (-q)) <=> p + q > 0
               /\ w = 0 /\ l > 0 =>
                    LET num == (w * 0) * (d * l) - (l * (-q)) * (d * 1)
                        den == (d * 1) * (d * l)
                    IN  num \in Int /\ den \in Int /\ num * d = q * den
               /\ w > 0 /\ l = 0 =>
                    LET num == (w * p) * (d * 1) - (l * 0) * (d * w)
                        den == (d * w) * (d * 1)
                    IN  num \in Int /\ den \in Int /\ num * d = p * den
<1> DEFINE d == w + l
<1>1. d \in Nat \ {0}
  OBVIOUS
<1>2. ASSUME w > 0, l > 0
      PROVE  LET num == (w * p) * (d * l) - (l * (-q)) * (d * w)
                 den == (d * w) * (d * l)
             IN  /\ num \in Int /\ den \in Int /\ num * d = (p + q) * den
                 /\ num > 0 <=> p + q > 0
                 /\ (p * l) * w > l * (w * (-q)) <=> p + q > 0
  <2> DEFINE num == (w * p) * (d * l) - (l * (-q)) * (d * w)
             den == (d * w) * (d * l)
             k == (d * w) * l
             s == p + q
             c == w * l
  <2> HIDE DEF d
  <2>1. \A x, y, z, a, b \in Int :
           /\ (x * a) * (z * y) - (y * (-b)) * (z * x) = ((z * x) * y) * (a + b)
           /\ (z * x) * (z * y) = ((z * x) * y) * z
           /\ (a * y) * x - y * (x * (-b)) = (x * y) * (a + b)
    BY Z3
  <2>2. num = k * s /\ den = k * d /\ (p * l) * w - l * (w * (-q)) = c * s
    BY <1>1, <2>1
  <2>3. \A x, y \in Int : x > 0 /\ y > 0 => x * y > 0
    BY Z3
  <2>4. k \in Int /\ k > 0 /\ c \in Int /\ c > 0 /\ s \in Int
    <3>1. d * w > 0 /\ d * w \in Int
      BY <1>1, <1>2, <2>3
    <3> QED BY <1>2, <2>3, <3>1
  <2>5. \A x, y \in Int : x > 0 => (x * y > 0 <=> y > 0) /\ x * y \in Int
    BY Z3
  <2>6. num \in Int /\ den \in Int /\ (num > 0 <=> s > 0)
    <3> HIDE DEF k, s, num, den
    <3> QED BY <1>1, <2>2, <2>4, <2>5
  <2>7. \A x, y, z \in Int : (x * y) * z = y * (x * z)
    BY Z3
  <2>8. num * d = s * den
    <3> HIDE DEF k, s, num, den
    <3> QED BY <1>1, <2>2, <2>4, <2>7
  <2>9. (p * l) * w > l * (w * (-q)) <=> s > 0
    <3>1. (p * l) * w \in Int /\ l * (w * (-q)) \in Int
      OBVIOUS
    <3>2. c * s > 0 <=> s > 0
      <4> HIDE DEF c, s
      <4> QED BY <2>4, <2>5
    <3> DEFINE x == (p * l) * w
               y == l * (w * (-q))
               z == c * s
    <3>3. x \in Int /\ y \in Int /\ x - y = z /\ (z > 0 <=> s > 0)
      BY <2>2, <3>1, <3>2
    <3> HIDE DEF x, y, z, s
    <3>4. x > y <=> s > 0
      BY <3>3
    <3> QED BY <3>4 DEF x, y
  <2> QED BY <2>6, <2>8, <2>9
<1>3. ASSUME w = 0, l > 0
      PROVE  LET num == (w * 0) * (d * l) - (l * (-q)) * (d * 1)
                 den == (d * 1) * (d * l)
             IN  num \in Int /\ den \in Int /\ num * d = q * den
  <2>1. \A x, y, b \in Int : ((0 * 0) * (x * y) - (y * (-b)) * (x * 1)) * x = b * ((x * 1) * (x * y))
    BY Z3
  <2> QED BY <1>1, <1>3, <2>1
<1>4. ASSUME w > 0, l = 0
      PROVE  LET num == (w * p) * (d * 1) - (l * 0) * (d * w)
                 den == (d * w) * (d * 1)
             IN  num \in Int /\ den \in Int /\ num * d = p * den
  <2>1. \A x, y, b \in Int : ((y * b) * (x * 1) - (0 * 0) * (x * y)) * x = b * ((x * y) * (x * 1))
    BY Z3
  <2> QED BY <1>1, <1>4, <2>1
<1> QED BY <1>2, <1>3, <1>4

\* The expectancy of the decisive trades is their P&L, shared among them; and with winners and
\* losers it is positive exactly when the winners pay for the losers.
LEMMA ExpectancyIs ==
    ASSUME NEW j, IsJournal(j), Cardinality(Wins(j)) + Cardinality(Losses(j)) # 0
    PROVE  LET e == computeExpectancy(j)
               w == Cardinality(Wins(j))
               l == Cardinality(Losses(j))
               total == TotalPnl(j, closedTradesOf(j))
           IN  /\ e \in [num : Int, den : Int] /\ total \in Int
               /\ e.num * (w + l) = total * e.den
               /\ w # 0 /\ l # 0 =>
                    /\ e.num > 0 <=> total > 0
                    /\ (TotalPnl(j, Wins(j)) * l) * w > l * (w * (-TotalPnl(j, Losses(j)))) <=> total > 0
<1> DEFINE e == computeExpectancy(j)
           W == Wins(j)
           L == Losses(j)
           w == Cardinality(W)
           l == Cardinality(L)
           p == TotalPnl(j, W)
           q == TotalPnl(j, L)
           total == TotalPnl(j, closedTradesOf(j))
           d == w + l
           avgW == IF W = {} THEN Zero ELSE Fraction(p, w)
           avgL == IF L = {} THEN Zero ELSE Fraction(-q, l)
<1>1. /\ w \in Nat /\ l \in Nat /\ p \in Int /\ q \in Int /\ total = p + q
      /\ IF W = {} THEN p = 0 ELSE p > 0
      /\ IF L = {} THEN q = 0 ELSE q < 0
      /\ IsFiniteSet(W) /\ IsFiniteSet(L)
  BY TradesAddUp
<1>2. (w = 0 <=> W = {}) /\ (l = 0 <=> L = {})
  BY <1>1, FS_EmptySet
<1>3. e = Minus(Product(Fraction(w, d), avgW), Product(Fraction(l, d), avgL))
  BY DEF computeExpectancy
<1>5. d > 0
  BY <1>1
<1> HIDE DEF e, W, L, w, l, p, q, total
<1>4. /\ e.num = (w * avgW.num) * (d * avgL.den) - (l * avgL.num) * (d * avgW.den)
      /\ e.den = (d * avgW.den) * (d * avgL.den)
      /\ e = [num |-> e.num, den |-> e.den]
  <2> HIDE DEF avgW, avgL, d
  <2> QED BY <1>3 DEF Minus, Product, Fraction
<1>6. CASE w > 0 /\ l > 0
  <2>1. avgW.num = p /\ avgW.den = w /\ avgL.num = -q /\ avgL.den = l
    BY <1>2, <1>6 DEF Fraction
  <2>2. /\ e.num = (w * p) * (d * l) - (l * (-q)) * (d * w)
        /\ e.den = (d * w) * (d * l)
    BY <1>4, <2>1
  <2>3. LET num == (w * p) * (d * l) - (l * (-q)) * (d * w)
                        den == (d * w) * (d * l)
                    IN  /\ num \in Int /\ den \in Int /\ num * d = (p + q) * den
                        /\ num > 0 <=> p + q > 0
                        /\ (p * l) * w > l * (w * (-q)) <=> p + q > 0
    BY <1>1, <1>5, <1>6, Rearranged
  <2>4. /\ e.num \in Int /\ e.den \in Int /\ e.num * d = total * e.den
        /\ e.num > 0 <=> total > 0
        /\ (p * l) * w > l * (w * (-q)) <=> total > 0
    BY <1>1, <2>2, <2>3
  <2>5. e \in [num : Int, den : Int] /\ total \in Int
    <3>1. [num |-> e.num, den |-> e.den] \in [num : Int, den : Int]
      BY <2>4
    <3>2. total \in Int
      BY <1>1
    <3> QED BY <1>4, <3>1, <3>2
  <2> QED BY <2>4, <2>5 DEF e, W, L, w, l, p, q, total
<1>7. CASE w = 0 /\ l > 0
  <2>1. avgW.num = 0 /\ avgW.den = 1 /\ avgL.num = -q /\ avgL.den = l
    BY <1>2, <1>7 DEF Fraction, Zero
  <2>2. /\ e.num = (w * 0) * (d * l) - (l * (-q)) * (d * 1)
        /\ e.den = (d * 1) * (d * l)
    BY <1>4, <2>1
  <2>3. LET num == (w * 0) * (d * l) - (l * (-q)) * (d * 1)
            den == (d * 1) * (d * l)
        IN  num \in Int /\ den \in Int /\ num * d = q * den
    BY <1>1, <1>5, <1>7, Rearranged
  <2>4. e.num \in Int /\ e.den \in Int /\ e.num * d = total * e.den
    BY <1>1, <1>2, <1>7, <2>2, <2>3
  <2>5. e \in [num : Int, den : Int] /\ total \in Int
    <3>1. [num |-> e.num, den |-> e.den] \in [num : Int, den : Int]
      BY <2>4
    <3>2. total \in Int
      BY <1>1
    <3> QED BY <1>4, <3>1, <3>2
  <2> QED BY <1>7, <2>4, <2>5 DEF e, W, L, w, l, total
<1>8. CASE w > 0 /\ l = 0
  <2>1. avgW.num = p /\ avgW.den = w /\ avgL.num = 0 /\ avgL.den = 1
    BY <1>2, <1>8 DEF Fraction, Zero
  <2>2. /\ e.num = (w * p) * (d * 1) - (l * 0) * (d * w)
        /\ e.den = (d * w) * (d * 1)
    BY <1>4, <2>1
  <2>3. LET num == (w * p) * (d * 1) - (l * 0) * (d * w)
            den == (d * w) * (d * 1)
        IN  num \in Int /\ den \in Int /\ num * d = p * den
    BY <1>1, <1>5, <1>8, Rearranged
  <2>4. e.num \in Int /\ e.den \in Int /\ e.num * d = total * e.den
    BY <1>1, <1>2, <1>8, <2>2, <2>3
  <2>5. e \in [num : Int, den : Int] /\ total \in Int
    <3>1. [num |-> e.num, den |-> e.den] \in [num : Int, den : Int]
      BY <2>4
    <3>2. total \in Int
      BY <1>1
    <3> QED BY <1>4, <3>1, <3>2
  <2> QED BY <1>8, <2>4, <2>5 DEF e, W, L, w, l, total
<1> QED BY <1>1, <1>5, <1>6, <1>7, <1>8

\* The figures of the trades in a performance reply agree.
AgreeOnTrades(s) ==
    LET decisive == s.winningTrades + s.losingTrades
        closed   == decisive + s.breakevenTrades
    IN  /\ s.totalTrades = closed + s.openTrades
        /\ s.winRate = null <=> decisive = 0
        /\ s.expectancy = null <=> decisive = 0
        /\ s.averageReturn = null <=> closed = 0
        /\ s.expectancy # null => Is(Scaled(s.expectancy, decisive), s.totalRealizedPnl)
        /\ s.averageReturn # null => Is(Scaled(s.averageReturn, closed), s.totalRealizedPnl)
        /\ s.realizedRiskRewardRatio = null <=> s.winningTrades = 0 \/ s.losingTrades = 0
        /\ s.realizedRiskRewardRatio # null =>
              (Exceeds(s.expectancy, Zero) <=>
                  Exceeds(Scaled(s.realizedRiskRewardRatio, s.winningTrades),
                          Fraction(s.losingTrades, 1)))

\* The figures that come from the trades of a journal never contradict each other.
LEMMA TradesAgree ==
    ASSUME NEW j, IsJournal(j), NEW curve
    PROVE  AgreeOnTrades(computeFullStatSet(j, curve))
<1> DEFINE s == computeFullStatSet(j, curve)
           C == closedTradesOf(j)
           W == Wins(j)
           L == Losses(j)
           w == Cardinality(W)
           l == Cardinality(L)
           b == Cardinality(C \ (W \cup L))
           c == Cardinality(C)
           open == Cardinality(DOMAIN j \ C)
           p == TotalPnl(j, W)
           q == TotalPnl(j, L)
           total == TotalPnl(j, C)
           e == computeExpectancy(j)
           a == computeAverageReturn(j)
           x == computeRealizedRiskRewardRatio(j)
<1>1. /\ w \in Nat /\ l \in Nat /\ b \in Nat /\ open \in Nat /\ p \in Int /\ q \in Int
      /\ c = w + l + b /\ Cardinality(DOMAIN j) = c + open /\ total = p + q
      /\ IsFiniteSet(C) /\ IsFiniteSet(W) /\ IsFiniteSet(L)
  BY TradesAddUp
<1>2. (w = 0 <=> W = {}) /\ (l = 0 <=> L = {}) /\ (c = 0 <=> C = {})
  BY <1>1, FS_EmptySet
<1>3. /\ s.totalTrades = c + open /\ s.winningTrades = w /\ s.losingTrades = l
      /\ s.breakevenTrades = b /\ s.openTrades = open /\ s.totalRealizedPnl = total
      /\ s.winRate = computeWinRate(j) /\ s.averageReturn = a /\ s.expectancy = e
      /\ s.realizedRiskRewardRatio = x
  BY <1>1, FullStatFields
<1>4. \A n, m \in Int : Fraction(n, m) # null
  BY NullAssumption DEF Fraction
<1>5. computeWinRate(j) = null <=> w + l = 0
  <2>1. computeWinRate(j) = IF w + l = 0 THEN null ELSE Fraction(w, w + l)
    BY DEF computeWinRate, computeTradeCounts
  <2> HIDE DEF w, l
  <2> QED BY <1>1, <1>4, <2>1
<1>6. e = null <=> w + l = 0
  <2>1. CASE w + l = 0
    <3>1. e = null
      BY <2>1 DEF computeExpectancy
    <3> QED BY <2>1, <3>1
  <2>2. CASE w + l # 0
    <3>1. e \in [num : Int, den : Int]
      BY <2>2, ExpectancyIs
    <3> HIDE DEF e
    <3> QED BY <2>2, <3>1, NullAssumption
  <2> QED BY <2>1, <2>2
<1>7. e # null => Is(Scaled(e, w + l), total)
  <2> SUFFICES ASSUME e # null PROVE Is(Scaled(e, w + l), total)
    OBVIOUS
  <2>1. e \in [num : Int, den : Int] /\ e.num * (w + l) = total * e.den
    BY <1>6, ExpectancyIs
  <2> HIDE DEF e, w, l, total
  <2>2. Scaled(e, w + l) = [num |-> e.num * (w + l), den |-> e.den * 1]
    BY DEF Scaled, Product, Fraction
  <2>3. e.num * (w + l) \in Int /\ e.den * 1 = e.den
    BY <1>1, <2>1
  <2> QED BY <2>1, <2>2, <2>3 DEF Is, SameNumber, Fraction
<1>8. (a = null <=> c = 0) /\ (a # null => Is(Scaled(a, c), total))
  <2>1. CASE C = {}
    <3>1. a = null
      BY <2>1 DEF computeAverageReturn
    <3> HIDE DEF a
    <3> QED BY <1>2, <2>1, <3>1
  <2>2. CASE C # {}
    <3>1. a = Fraction(total, c)
      BY <2>2 DEF computeAverageReturn
    <3>2. total \in Int /\ c \in Int
      BY <1>1
    <3> HIDE DEF a, c, total
    <3>3. a # null /\ c # 0
      BY <1>2, <1>4, <2>2, <3>1, <3>2
    <3>4. Scaled(a, c) = [num |-> total * c, den |-> c * 1]
      BY <3>1 DEF Scaled, Product, Fraction
    <3>5. total * c \in Int /\ c * 1 = c
      BY <3>2
    <3> QED BY <3>3, <3>4, <3>5 DEF Is, SameNumber, Fraction
  <2> QED BY <2>1, <2>2
<1>9. x = null <=> w = 0 \/ l = 0
  <2>1. CASE w = 0 \/ l = 0
    <3>1. x = null
      BY <1>2, <2>1 DEF computeRealizedRiskRewardRatio
    <3> QED BY <2>1, <3>1
  <2>2. CASE ~ (w = 0 \/ l = 0)
    <3>1. x = Fraction(p * l, w * (-q))
      BY <1>2, <2>2 DEF computeRealizedRiskRewardRatio
    <3>2. p * l \in Int /\ w * (-q) \in Int
      BY <1>1
    <3> HIDE DEF x, w, l, p, q
    <3>3. x # null
      BY <1>4, <3>1, <3>2
    <3> QED BY <2>2, <3>3
  <2> QED BY <2>1, <2>2
<1>10. x # null => (Exceeds(e, Zero) <=> Exceeds(Scaled(x, w), Fraction(l, 1)))
  <2> SUFFICES ASSUME w # 0, l # 0
               PROVE  Exceeds(e, Zero) <=> Exceeds(Scaled(x, w), Fraction(l, 1))
    BY <1>9
  <2>1. x = Fraction(p * l, w * (-q))
    BY <1>2 DEF computeRealizedRiskRewardRatio
  <2>2. /\ e \in [num : Int, den : Int]
        /\ e.num > 0 <=> total > 0
        /\ (p * l) * w > l * (w * (-q)) <=> total > 0
    <3>1. w + l # 0
      BY <1>1
    <3> QED BY <3>1, ExpectancyIs
  <2> HIDE DEF x, e, w, l, p, q, total
  <2>3. Scaled(x, w) = [num |-> (p * l) * w, den |-> (w * (-q)) * 1]
    BY <2>1 DEF Scaled, Product, Fraction
  <2>4. (p * l) * w \in Int /\ w * (-q) \in Int /\ (w * (-q)) * 1 = w * (-q)
    BY <1>1
  <2>5. Exceeds(Scaled(x, w), Fraction(l, 1)) <=> (p * l) * w > l * (w * (-q))
    <3> DEFINE u == (p * l) * w
               v == w * (-q)
    <3>1. u \in Int /\ Scaled(x, w) = [num |-> u, den |-> v]
      BY <2>3, <2>4
    <3> HIDE DEF u, v
    <3>2. Exceeds(Scaled(x, w), Fraction(l, 1)) <=> u > l * v
      BY <3>1 DEF Exceeds, Fraction
    <3> QED BY <3>2 DEF u, v
  <2>6. Exceeds(e, Zero) <=> e.num > 0
    <3>1. e.num * 1 = e.num /\ 0 * e.den = 0
      BY <2>2
    <3> QED BY <3>1 DEF Exceeds, Zero, Fraction
  <2> QED BY <2>2, <2>5, <2>6
<1> HIDE DEF s, w, l, b, c, open, e, a, x, total
<1>11. s.winningTrades + s.losingTrades = w + l /\ s.winningTrades + s.losingTrades + s.breakevenTrades = c
  BY <1>1, <1>3
<1> QED BY <1>3, <1>5, <1>6, <1>7, <1>8, <1>9, <1>10, <1>11 DEF AgreeOnTrades, s

\* A Sortino ratio comes with a drawdown, and with a Sharpe ratio of its sign.
LEMMA RiskAgrees ==
    ASSUME NEW curve, IsCurve(curve), computeRiskAdjustedReturns(curve).sortinoRatio # null
    PROVE  LET risk == computeRiskAdjustedReturns(curve)
           IN  risk.sharpeRatio = risk.sortinoRatio /\ Exceeds(computeMaxDrawdownPct(curve), Zero)
<1> DEFINE m == Len(curve)
           risk == computeRiskAdjustedReturns(curve)
           returns == periodReturns(curve)
           falls == {i \in DOMAIN returns : returns[i].num < 0}
           downside == Restrict(returns, falls)
           ratio(values) == IF Deviates(values) THEN Sign(Mean(returns)) ELSE null
           shown == computeMaxDrawdownPct(curve)
<1>1. m \in Nat /\ DOMAIN curve = 1..m /\ (\A n \in 1..m : curve[n] \in Int)
  BY DEF IsCurve
<1>2. risk = IF Cardinality(DOMAIN returns) < 2
             THEN [sharpeRatio |-> null, sortinoRatio |-> null, insufficientData |-> TRUE]
             ELSE [sharpeRatio |-> ratio(returns), sortinoRatio |-> ratio(downside),
                   insufficientData |-> FALSE]
  BY DEF computeRiskAdjustedReturns
<1>3. /\ DOMAIN returns = {k \in 1..(m - 1) : curve[k] > 0}
      /\ \A i \in DOMAIN returns : returns[i] = Fraction(curve[i + 1] - curve[i], curve[i])
  BY DEF periodReturns
<1>4. DOMAIN downside = falls /\ \A i \in falls : downside[i] = returns[i]
  BY DEF Restrict
<1> HIDE DEF returns, downside, risk
<1>5. ratio(downside) # null /\ risk.sortinoRatio = ratio(downside) /\ risk.sharpeRatio = ratio(returns)
  <2> HIDE DEF ratio
  <2>1. ~ (Cardinality(DOMAIN returns) < 2)
    BY <1>2 DEF risk
  <2> QED BY <1>2, <2>1 DEF risk
<1>6. Deviates(downside) /\ risk.sortinoRatio = Sign(Mean(returns))
  BY <1>5
<1>7. PICK a, b \in falls : ~ SameNumber(downside[a], downside[b])
  BY <1>4, <1>6 DEF Deviates
<1>8. Deviates(returns)
  BY <1>4, <1>7 DEF Deviates
<1>9. risk.sharpeRatio = risk.sortinoRatio
  BY <1>5, <1>6, <1>8
<1>10. /\ a \in 1..m /\ a + 1 \in 1..m /\ a < a + 1 /\ m >= 2
       /\ curve[a] > 0 /\ curve[a + 1] < curve[a]
  <2>1. a \in 1..(m - 1) /\ curve[a] > 0 /\ returns[a].num < 0
    BY <1>3, <1>7
  <2>2. a \in 1..m /\ a + 1 \in 1..m /\ a < a + 1 /\ m >= 2
    BY <1>1, <2>1
  <2>3. returns[a].num = curve[a + 1] - curve[a]
    <3>1. returns[a] = Fraction(curve[a + 1] - curve[a], curve[a])
      BY <1>3, <1>7
    <3> DEFINE n == curve[a + 1] - curve[a]
    <3>2. returns[a] = [num |-> n, den |-> curve[a]]
      BY <3>1 DEF Fraction
    <3> HIDE DEF n
    <3>3. returns[a].num = n
      BY <3>2
    <3> QED BY <3>3 DEF n
  <2>4. curve[a] \in Int /\ curve[a + 1] \in Int
    BY <1>1, <2>2
  <2> QED BY <2>1, <2>2, <2>3, <2>4
<1>11. /\ IsDrawdown(shown) /\ shown.num >= 0
       /\ \A q \in DOMAIN curve : \A p \in DOMAIN curve : p < q /\ curve[p] > 0 =>
             \E peak \in Int : /\ peak >= curve[p] /\ ~ Exceeds(Decline(peak, curve[q]), shown)
  BY <1>10, WalkFinds
<1> HIDE DEF shown, m
<1>12. PICK peak \in Int : peak >= curve[a] /\ ~ Exceeds(Decline(peak, curve[a + 1]), shown)
  BY <1>1, <1>10, <1>11
<1>13. shown.num > 0
  <2>1. shown.num \in Int /\ shown.den \in Nat \ {0} /\ shown.num >= 0
    BY <1>11 DEF IsDrawdown
  <2>2. curve[a] \in Int /\ curve[a + 1] \in Int
    BY <1>1, <1>10
  <2> DEFINE fall == peak - curve[a + 1]
  <2>3. fall \in Int /\ fall > 0 /\ peak > 0
    BY <1>10, <1>12, <2>2
  <2>4. ~ (fall * shown.den > shown.num * peak)
    BY <1>12 DEF Exceeds, Decline, Fraction
  <2> HIDE DEF fall
  <2>5. \A x, y, z, n \in Int : x > 0 /\ y > 0 /\ z >= 0 /\ ~ (x * y > z * n) => z > 0
    <3> SUFFICES ASSUME NEW x \in Int, NEW y \in Int, NEW n \in Int, x > 0, y > 0
                 PROVE  x * y > 0 * n
      BY Z3
    <3> QED BY Z3
  <2> QED BY <2>1, <2>3, <2>4, <2>5
<1>14. Exceeds(shown, Zero)
  <2>1. shown.num * 1 > 0 * shown.den
    BY <1>11, <1>13 DEF IsDrawdown
  <2> QED BY <2>1 DEF Exceeds, Zero, Fraction
<1> QED BY <1>9, <1>14 DEF risk, shown

\* No reply to a request that has loaded a journal and a curve contradicts itself.
LEMMA FiguresAgree ==
    ASSUME NEW j, IsJournal(j), NEW curve, IsCurve(curve)
    PROVE  Agree(computeFullStatSet(j, curve))
<1> DEFINE s == computeFullStatSet(j, curve)
           risk == computeRiskAdjustedReturns(curve)
<1>1. AgreeOnTrades(s)
  BY TradesAgree
<1>2. s.maxDrawdownPct = computeMaxDrawdownPct(curve)
      /\ s.sharpeRatio = risk.sharpeRatio /\ s.sortinoRatio = risk.sortinoRatio
  BY FullStatFields
<1> HIDE DEF s
<1>3. s.sortinoRatio # null => s.sharpeRatio = s.sortinoRatio /\ Exceeds(s.maxDrawdownPct, Zero)
  BY <1>2, RiskAgrees
<1>4. Agree(s)
  BY <1>1, <1>3 DEF Agree, AgreeOnTrades
<1> QED BY <1>4 DEF s

\* A drawdown is a fraction.
LEMMA DrawdownIsFraction ==
    ASSUME NEW curve, IsCurve(curve), Len(curve) >= 2
    PROVE  computeMaxDrawdownPct(curve) \in [num : Int, den : Int] /\ computeMaxDrawdownPct(curve) # null
<1>1. PICK peak, worst : IsWalk(peak, worst, curve)
  BY PartialWalks
<1>2. Len(curve) \in 0..Len(curve)
  BY DEF IsCurve
<1>3. computeMaxDrawdownPct(curve) \in [num : Int, den : Int]
  BY <1>1, <1>2 DEF IsWalk
<1> QED BY <1>3, NullAssumption

\* Two equities of which the second is the same: no decline.
LEMMA NoDecline ==
    ASSUME NEW a, NEW shown, IsDrawdown(shown), SameNumber(Decline(a, a), shown), a \in Int, a > 0
    PROVE  SameNumber(shown, Zero)
<1>1. (a - a) * shown.den = shown.num * a
  BY DEF SameNumber, Decline, Fraction
<1>2. shown.num \in Int /\ shown.den \in Nat
  BY DEF IsDrawdown
<1>3. \A x, y, n \in Int : y > 0 /\ (y - y) * x = n * y => n = 0
  BY Z3
<1>4. shown.num = 0
  BY <1>1, <1>2, <1>3
<1> QED BY <1>2, <1>4 DEF SameNumber, Zero, Fraction

-------------------------------------------------------------------------------
(* Analytics: what later journals and snapshots keep of earlier ones.          *)

\* What a request has read of the snapshots remembers the drawdowns of the reports before it.
LEMMA CurveRemembers ==
    ASSUME NEW old, old.maxDrawdownPct # null, NEW curve, IsCurve(curve), DrawdownOf(old, curve),
           \A i \in DOMAIN curve : curve[i] >= 0
    PROVE  /\ computeMaxDrawdownPct(curve) # null
           /\ ~ Exceeds(old.maxDrawdownPct, computeMaxDrawdownPct(curve))
<1> DEFINE d == old.maxDrawdownPct
           shown == computeMaxDrawdownPct(curve)
<1>1. /\ IsDrawdown(d) /\ Len(curve) >= 2
      /\ \/ SameNumber(d, Zero)
         \/ \E p, q \in DOMAIN curve : /\ p < q /\ curve[p] > 0
               /\ SameNumber(Decline(curve[p], curve[q]), d)
  BY DEF DrawdownOf
<1>2. IsWorst(shown, curve) /\ shown # null /\ IsDrawdown(shown) /\ shown.num >= 0
  BY <1>1, WalkIsWorst, WalkFinds, DrawdownIsFraction
<1> HIDE DEF d, shown
<1>3. d.num \in Int /\ d.den \in Nat \ {0} /\ shown.num \in Int /\ shown.den \in Nat \ {0}
  BY <1>1, <1>2 DEF IsDrawdown
<1>4. CASE SameNumber(d, Zero)
  <2>1. d.num * 1 = 0 * d.den
    BY <1>4 DEF SameNumber, Zero, Fraction
  <2>2. d.num = 0
    BY <1>3, <2>1
  <2>3. \A n \in Int, x, y \in Nat : n >= 0 => ~ (0 * x > n * y)
    BY Z3
  <2>4. ~ (d.num * shown.den > shown.num * d.den)
    BY <1>2, <1>3, <2>2, <2>3
  <2> QED BY <1>2, <2>4 DEF Exceeds, d, shown
<1>5. CASE ~ SameNumber(d, Zero)
  <2>1. PICK p, q \in DOMAIN curve : p < q /\ curve[p] > 0 /\ SameNumber(Decline(curve[p], curve[q]), d)
    BY <1>1, <1>5
  <2> DEFINE e == Decline(curve[p], curve[q])
  <2>2. curve[p] \in Int /\ curve[q] \in Int
    BY DEF IsCurve
  <2>3. IsDrawdown(e)
    BY <2>1, <2>2 DEF IsDrawdown, Decline, Fraction
  <2>4. ~ Exceeds(e, shown)
    <3>1. <<p, q>> \in {x \in (DOMAIN curve) \X (DOMAIN curve) : x[1] < x[2] /\ curve[x[1]] > 0}
      BY <2>1
    <3>2. e \in Declines(curve)
      BY <3>1 DEF Declines
    <3> QED BY <1>2, <3>2 DEF IsWorst
  <2> HIDE DEF e
  <2>5. ~ Exceeds(d, e)
    <3>1. e.num * d.den = d.num * e.den
      BY <2>1 DEF SameNumber, e
    <3>2. e.num * d.den \in Int
      BY <1>3, <2>3 DEF IsDrawdown
    <3> QED BY <3>1, <3>2 DEF Exceeds
  <2>6. ~ Exceeds(d, shown)
    BY <1>2, <1>3, <2>3, <2>4, <2>5, Transitive
  <2> QED BY <1>2, <2>6 DEF d, shown
<1> QED BY <1>4, <1>5

\* The full history has the decline that a report has shown, as long as the order is certain.
LEMMA HistoryKeeps ==
    ASSUME TablesOK, CertainOrder, NEW stats, DrawdownKept(stats),
           NEW rows \in Listings(InRange(Everything, equitySnapshots)), InOrderOfAsOf(rows)
    PROVE  DrawdownOf(stats, Equity(rows))
<1> DEFINE d == stats.maxDrawdownPct
           curve == Equity(rows)
<1> SUFFICES ASSUME d # null PROVE DrawdownOf(stats, curve)
  BY DEF DrawdownOf
<1>1. /\ IsDrawdown(d) /\ SumFunction(equitySnapshots) >= 2
      /\ \/ SameNumber(d, Zero)
         \/ \E a, b \in DOMAIN equitySnapshots : /\ a.asOf < b.asOf /\ a.equity > 0
               /\ SameNumber(Decline(a.equity, b.equity), d)
  BY DEF DrawdownKept
<1>2. /\ IsRead(curve) /\ Len(curve) = SumFunction(equitySnapshots) /\ DOMAIN curve = DOMAIN rows
      /\ \A s \in DOMAIN equitySnapshots : \E i \in DOMAIN rows : rows[i] = s
  BY ReadCurves
<1>3. \A i \in DOMAIN rows : curve[i] = rows[i].equity
  BY DEF Equity
<1> HIDE DEF d, curve
<1>4. DOMAIN curve \subseteq Nat
  BY <1>2 DEF IsRead, IsCurve
<1>5. ASSUME NEW a \in DOMAIN equitySnapshots, NEW b \in DOMAIN equitySnapshots,
             a.asOf < b.asOf, a.equity > 0, SameNumber(Decline(a.equity, b.equity), d)
      PROVE  \E p, q \in DOMAIN curve : /\ p < q /\ curve[p] > 0
                /\ SameNumber(Decline(curve[p], curve[q]), d)
  <2>1. PICK p \in DOMAIN rows : rows[p] = a
    BY <1>2
  <2>2. PICK q \in DOMAIN rows : rows[q] = b
    BY <1>2
  <2>3. a.asOf \in Int /\ b.asOf \in Int
    BY CurveAssumption DEF TablesOK, Snapshots
  <2>4. p < q
    <3>1. p \in Nat /\ q \in Nat
      BY <1>2, <1>4
    <3>2. ASSUME q <= p PROVE FALSE
      <4>1. CASE q = p
        BY <1>5, <2>1, <2>2, <2>3, <4>1
      <4>2. CASE q < p
        <5>1. rows[q].asOf <= rows[p].asOf
          BY <4>2 DEF InOrderOfAsOf
        <5> QED BY <1>5, <2>1, <2>2, <2>3, <5>1
      <4> QED BY <3>1, <3>2, <4>1, <4>2
    <3> QED BY <3>1, <3>2
  <2>5. curve[p] = a.equity /\ curve[q] = b.equity
    BY <1>3, <2>1, <2>2
  <2> QED BY <1>2, <1>5, <2>4, <2>5
<1>6. \/ SameNumber(d, Zero)
      \/ \E p, q \in DOMAIN curve : /\ p < q /\ curve[p] > 0
            /\ SameNumber(Decline(curve[p], curve[q]), d)
  BY <1>1, <1>5
<1> QED BY <1>1, <1>2, <1>6 DEF DrawdownOf, d

\* The drawdown of what a request has read is one the snapshots have.
LEMMA ReadIsKept ==
    ASSUME TablesOK, NEW j, NEW curve, IsRead(curve)
    PROVE  DrawdownKept(computeFullStatSet(j, curve))
<1> DEFINE s == computeFullStatSet(j, curve)
           shown == computeMaxDrawdownPct(curve)
<1>1. s.maxDrawdownPct = shown
  BY FullStatFields
<1>2. IsCurve(curve) /\ Len(curve) <= SumFunction(equitySnapshots) /\ Len(curve) \in Nat
  BY DEF IsRead, IsCurve
<1>3. PICK rows \in [DOMAIN curve -> DOMAIN equitySnapshots] :
         InOrderOfAsOf(rows) /\ curve = Equity(rows)
  BY DEF IsRead
<1> HIDE DEF s
<1> SUFFICES ASSUME shown # null PROVE DrawdownKept(s)
  BY <1>1 DEF DrawdownKept, s
<1>4. Len(curve) >= 2
  BY <1>2 DEF computeMaxDrawdownPct
<1>5. /\ IsDrawdown(shown)
      /\ \/ SameNumber(shown, Zero)
         \/ \E p, q \in DOMAIN curve : /\ p < q /\ curve[p] > 0
               /\ SameNumber(Decline(curve[p], curve[q]), shown)
  BY <1>2, <1>4, WalkFinds
<1> HIDE DEF shown
<1>6. SumFunction(equitySnapshots) >= 2
  <2>1. SumFunction(equitySnapshots) \in Int
    <3> DEFINE t == equitySnapshots
    <3>1. IsFiniteSet(DOMAIN t) /\ \A x \in DOMAIN t : t[x] \in Int
      BY DEF TablesOK
    <3> HIDE DEF t
    <3>2. SumFunctionOnSet(t, DOMAIN t) \in Int
      BY <3>1, SumType
    <3> QED BY <3>2, SumOfFunction DEF t
  <2> QED BY <1>2, <1>4, <2>1
<1>7. ASSUME CertainOrder, ~ SameNumber(shown, Zero)
      PROVE  \E a, b \in DOMAIN equitySnapshots : /\ a.asOf < b.asOf /\ a.equity > 0
                /\ SameNumber(Decline(a.equity, b.equity), shown)
  <2>1. PICK p, q \in DOMAIN curve : p < q /\ curve[p] > 0 /\ SameNumber(Decline(curve[p], curve[q]), shown)
    BY <1>5, <1>7
  <2> DEFINE a == rows[p]
             b == rows[q]
  <2>2. a \in DOMAIN equitySnapshots /\ b \in DOMAIN equitySnapshots /\ DOMAIN rows = DOMAIN curve
    BY <1>3
  <2>3. a.equity = curve[p] /\ b.equity = curve[q]
    BY <1>3, <2>2 DEF Equity
  <2>4. a.asOf <= b.asOf
    BY <1>3, <2>1, <2>2 DEF InOrderOfAsOf
  <2> HIDE DEF a, b
  <2>5. a.asOf \in Int /\ b.asOf \in Int
    BY <2>2, CurveAssumption DEF TablesOK, Snapshots
  <2>6. a.asOf # b.asOf
    <3> SUFFICES ASSUME a.asOf = b.asOf PROVE FALSE
      OBVIOUS
    <3>1. a = b
      BY <1>7, <2>2 DEF CertainOrder
    <3>2. curve[p] = curve[q] /\ curve[p] \in Int
      <4>1. curve[p] \in Int
        BY <1>2, <2>1 DEF IsCurve
      <4> QED BY <2>3, <3>1, <4>1
    <3>3. SameNumber(Decline(curve[p], curve[p]), shown)
      BY <2>1, <3>2
    <3> QED BY <1>5, <1>7, <2>1, <3>2, <3>3, NoDecline
  <2>7. a.asOf < b.asOf
    BY <2>4, <2>5, <2>6
  <2> QED BY <2>1, <2>2, <2>3, <2>7
<1> QED BY <1>1, <1>5, <1>6, <1>7 DEF DrawdownKept

\* The counts of a report hold of every journal that has what the first one had.
LEMMA CountsGrow ==
    ASSUME NEW stats, AreCounts(stats), NEW j, NEW k, Counts(stats, j), IsJournal(k), IsJournal(j),
           IsPart(j, k)
    PROVE  Counts(stats, k)
<1>0. closedTradesOf(j) \subseteq closedTradesOf(k) /\ Wins(j) \subseteq Wins(k) /\ DOMAIN j \subseteq DOMAIN k
  <2>1. \A i \in closedTradesOf(j) : i \in DOMAIN j /\ j[i].status = "closed" /\ j[i].pnl # null
    BY DEF closedTradesOf
  <2>2. \A i \in closedTradesOf(j) : i \in closedTradesOf(k) /\ k[i] = j[i]
    BY <2>1 DEF IsPart, closedTradesOf
  <2> QED BY <2>2 DEF Wins, IsPart
<1>1. IsFiniteSet(DOMAIN k) /\ IsFiniteSet(closedTradesOf(k)) /\ IsFiniteSet(Wins(k))
  BY TradesAddUp
<1>2. /\ Cardinality(DOMAIN j) \in Nat /\ Cardinality(DOMAIN k) \in Nat
      /\ Cardinality(DOMAIN j) <= Cardinality(DOMAIN k)
  BY <1>0, <1>1, Fewer
<1>3. /\ Cardinality(closedTradesOf(j)) \in Nat /\ Cardinality(closedTradesOf(k)) \in Nat
      /\ Cardinality(closedTradesOf(j)) <= Cardinality(closedTradesOf(k))
  BY <1>0, <1>1, Fewer
<1>4. /\ Cardinality(Wins(j)) \in Nat /\ Cardinality(Wins(k)) \in Nat
      /\ Cardinality(Wins(j)) <= Cardinality(Wins(k))
  BY <1>0, <1>1, Fewer
<1> QED BY <1>2, <1>3, <1>4 DEF Counts, AreCounts

\* A reply counts the trades it was computed from.
LEMMA ReplyCounts ==
    ASSUME NEW j, IsJournal(j), NEW curve
    PROVE  LET s == computeFullStatSet(j, curve)
           IN  /\ AreCounts(s) /\ Counts(s, j)
               /\ s.totalTrades = Cardinality(DOMAIN j)
               /\ s.totalTrades - s.openTrades = Cardinality(closedTradesOf(j))
               /\ s.winningTrades = Cardinality(Wins(j))
<1> DEFINE s == computeFullStatSet(j, curve)
           all == Cardinality(DOMAIN j)
           open == Cardinality(DOMAIN j \ closedTradesOf(j))
           closed == Cardinality(closedTradesOf(j))
           wins == Cardinality(Wins(j))
<1>1. /\ all = closed + open /\ open \in Nat /\ wins \in Nat /\ IsFiniteSet(closedTradesOf(j))
  BY TradesAddUp
<1>2. closed \in Nat
  BY <1>1, FS_CardinalityType
<1>3. s.totalTrades = all /\ s.openTrades = open /\ s.winningTrades = wins
  BY FullStatFields
<1> HIDE DEF s, all, open, closed, wins
<1>4. s.totalTrades - s.openTrades = closed
  BY <1>1, <1>2, <1>3
<1>5. AreCounts(s)
  BY <1>1, <1>2, <1>3 DEF AreCounts
<1>6. Counts(s, j)
  BY <1>1, <1>2, <1>3, <1>4 DEF Counts, all, closed, wins
<1> QED BY <1>3, <1>4, <1>5, <1>6 DEF s, all, closed, wins

\* The statistics read the fields of an entry that the journal has.
LEMMA EntryFields ==
    ASSUME NEW row \in Entries
    PROVE  LET e == Entry(row)
           IN  /\ e.status = row.status /\ e.pnl = row.pnl
               /\ e.status \in {"open", "closed"} /\ e.pnl \in Int \cup {null} /\ e.filled \in Int
<1>1. row.trade \in Trades /\ row.status \in {"open", "closed"} /\ row.pnl \in Pnls \cup {null}
  BY DEF Entries
<1>2. row.trade.filled \in Int /\ row.pnl \in Int \cup {null}
  BY <1>1, TradesAssumption
<1>3. Entry(row).status = row.status /\ Entry(row).pnl = row.pnl /\ Entry(row).filled = row.trade.filled
  BY DEF Entry
<1> QED BY <1>1, <1>2, <1>3

\* Any part of a journal is one for the statistics.
LEMMA PartsAreJournals ==
    ASSUME NEW rows \in Seq(Entries), NEW ids, ids \subseteq DOMAIN rows
    PROVE  IsJournal([i \in ids |-> Entry(rows[i])])
<1> DEFINE j == [i \in ids |-> Entry(rows[i])]
<1>1. DOMAIN rows = 1..Len(rows) /\ Len(rows) \in Nat /\ \A i \in DOMAIN rows : rows[i] \in Entries
  <2>1. rows \in [1..Len(rows) -> Entries] /\ Len(rows) \in Nat
    OBVIOUS
  <2> QED BY <2>1
<1>2. DOMAIN j = ids /\ IsFiniteSet(ids)
  <2>1. IsFiniteSet(1..Len(rows))
    BY <1>1, FS_Interval
  <2>2. IsFiniteSet(ids)
    BY <1>1, <2>1, FS_Subset
  <2> QED BY <2>2
<1>3. ASSUME NEW i \in ids
      PROVE  j[i].status \in {"open", "closed"} /\ j[i].pnl \in Int \cup {null} /\ j[i].filled \in Int
  <2>1. rows[i] \in Entries /\ j[i] = Entry(rows[i])
    BY <1>1
  <2> HIDE DEF j
  <2> QED BY <2>1, EntryFields
<1> HIDE DEF j
<1>4. IsJournal(j)
  BY <1>2, <1>3 DEF IsJournal
<1> QED BY <1>4 DEF j

\* What a request reads of the journal is one, and for the full history it is the whole.
LEMMA ReadJournals ==
    ASSUME NEW rows \in Seq(Entries), NEW range
    PROVE  LET kept == {i \in DOMAIN rows : Within(range, rows[i].trade.filled)}
               read == [i \in kept |-> Entry(rows[i])]
           IN  IsJournal(read) /\ IsJournal(WholeOf(rows)) /\ (range = Everything => read = WholeOf(rows))
<1> DEFINE kept == {i \in DOMAIN rows : Within(range, rows[i].trade.filled)}
           read == [i \in kept |-> Entry(rows[i])]
<1>1. IsJournal(read) /\ IsJournal(WholeOf(rows))
  <2>1. kept \subseteq DOMAIN rows
    OBVIOUS
  <2> HIDE DEF kept
  <2> QED BY <2>1, PartsAreJournals DEF WholeOf
<1>2. range = Everything => read = WholeOf(rows)
  <2> SUFFICES ASSUME range = Everything PROVE read = WholeOf(rows)
    OBVIOUS
  <2>1. range.from = null /\ range.to = null
    BY DEF Everything
  <2>2. kept = DOMAIN rows
    BY <2>1 DEF Within
  <2> QED BY <2>2 DEF WholeOf
<1> QED BY <1>1, <1>2

\* A trade recorded or closed takes nothing from the journal as a whole.
LEMMA WholeGrows ==
    ASSUME NEW rows \in Seq(Entries), NEW more \in Seq(Entries), DOMAIN rows \subseteq DOMAIN more,
           \A i \in DOMAIN rows : rows[i].status = "closed" => more[i] = rows[i]
    PROVE  /\ IsJournal(WholeOf(rows)) /\ IsJournal(WholeOf(more))
           /\ IsPart(WholeOf(rows), WholeOf(more))
<1> DEFINE j == WholeOf(rows)
           k == WholeOf(more)
<1>1. IsJournal(j) /\ IsJournal(k)
  BY ReadJournals
<1>2. /\ DOMAIN j = DOMAIN rows /\ DOMAIN k = DOMAIN more
      /\ \A i \in DOMAIN rows : j[i] = Entry(rows[i]) /\ rows[i] \in Entries
      /\ \A i \in DOMAIN more : k[i] = Entry(more[i])
  BY DEF WholeOf
<1> HIDE DEF j, k
<1>3. \A i \in DOMAIN j : j[i].status = "closed" => i \in DOMAIN k /\ k[i] = j[i]
  <2> SUFFICES ASSUME NEW i \in DOMAIN j, j[i].status = "closed"
               PROVE  i \in DOMAIN k /\ k[i] = j[i]
    OBVIOUS
  <2>1. rows[i] \in Entries /\ j[i] = Entry(rows[i]) /\ i \in DOMAIN rows
    BY <1>2
  <2>2. rows[i].status = "closed"
    BY <2>1, EntryFields
  <2> QED BY <1>2, <2>1, <2>2
<1>4. IsPart(j, k)
  BY <1>2, <1>3 DEF IsPart
<1> QED BY <1>1, <1>4 DEF j, k

\* A part of a part is one, and a journal is a part of itself.
LEMMA Parts ==
    ASSUME NEW j, NEW k, NEW l
    PROVE  IsPart(j, j) /\ (IsPart(j, k) /\ IsPart(k, l) => IsPart(j, l))
  BY DEF IsPart

-------------------------------------------------------------------------------
(* Analytics: every step preserves the invariant.                              *)

\* The first state has no report and no request under way.
LEMMA AnalyticsInitial ==
    ASSUME AnalyticsInit
    PROVE  AnalyticsInv
<1> USE DEF AnalyticsInit
<1>1. TablesOK
  <2>1. journal \in Seq(Entries)
    OBVIOUS
  <2>2. IsSequence(reports)
    BY DEF IsSequence, Range
  <2>3. /\ DOMAIN equitySnapshots = {} /\ equitySnapshots = [x \in {} |-> x]
    BY DEF EmptyTable
  <2>4. IsFiniteSet(DOMAIN equitySnapshots)
    BY <2>3, FS_EmptySet
  <2>5. equitySnapshots \in [DOMAIN equitySnapshots -> Nat \ {0}]
    BY <2>3
  <2> QED BY <2>1, <2>2, <2>3, <2>4, <2>5 DEF TablesOK
<1>2. LoadsOK
  BY DEF LoadsOK, Loading
<1>3. ReportsOK /\ ReportsNeverForget
  BY DEF ReportsOK, ReportsNeverForget
<1>4. LoadsRemember
  BY DEF LoadsRemember, Loading
<1> QED BY <1>1, <1>2, <1>3, <1>4 DEF AnalyticsInv

\* What the reports say stays true while the journal and the snapshots only grow.
LEMMA ReportsStand ==
    ASSUME ReportsNeverForget, reports' = reports,
           DOMAIN equitySnapshots \subseteq DOMAIN equitySnapshots'
    PROVE  ReportsNeverForget'
<1>1. (CertainOrder' => CertainOrder) /\ (AlwaysFunded' => AlwaysFunded)
  BY DEF CertainOrder, AlwaysFunded
<1>2. \A k : FullHistory(k)' <=> FullHistory(k)
  BY DEF FullHistory
<1> QED BY <1>1, <1>2 DEF ReportsNeverForget

\* The same of what the requests under way have read.
LEMMA LoadsStand ==
    ASSUME LoadsRemember, reports' = reports, request' = request,
           DOMAIN equitySnapshots \subseteq DOMAIN equitySnapshots'
    PROVE  LoadsRemember'
<1>1. CertainOrder' => CertainOrder
  BY DEF CertainOrder
<1>2. \A k : FullHistory(k)' <=> FullHistory(k)
  BY DEF FullHistory
<1>3. \A q : Remembers(q) => Remembers(q)'
  BY <1>1, <1>2 DEF Remembers
<1>4. \A r : Loading(r)' <=> Loading(r)
  BY DEF Loading
<1> QED BY <1>3, <1>4 DEF LoadsRemember

\* A step of the journal: the entries there are stay, and a closed one stays as it is.
LEMMA JournalSteps ==
    ASSUME AnalyticsInv, journal' \in Seq(Entries), UNCHANGED <<equitySnapshots, request, reports>>,
           DOMAIN journal \subseteq DOMAIN journal',
           \A i \in DOMAIN journal : journal[i].status = "closed" => journal'[i] = journal[i]
    PROVE  AnalyticsInv'
<1> USE DEF AnalyticsInv
<1>1. TablesOK'
  BY DEF TablesOK
<1>0. IsJournal(Whole) /\ IsJournal(Whole') /\ IsPart(Whole, Whole')
  <2>1. journal \in Seq(Entries)
    BY DEF TablesOK
  <2>2. /\ IsJournal(WholeOf(journal)) /\ IsJournal(WholeOf(journal'))
        /\ IsPart(WholeOf(journal), WholeOf(journal'))
    BY <2>1, WholeGrows
  <2>3. Whole = WholeOf(journal) /\ Whole' = WholeOf(journal')
    BY DEF Whole, WholeOf
  <2> QED BY <2>2, <2>3
<1>2. LoadsOK'
  <2>1. \A r : Loading(r)' <=> Loading(r)
    BY DEF Loading
  <2>2. \A curve : IsRead(curve)' <=> IsRead(curve)
    BY DEF IsRead
  <2>3. \A j : IsPart(j, Whole) => IsPart(j, Whole')
    BY <1>0, Parts
  <2>4. \A q : IsLoad(q) => IsLoad(q)'
    BY <2>2, <2>3 DEF IsLoad
  <2> QED BY <2>1, <2>4 DEF LoadsOK
<1>3. ReportsOK'
  <2> SUFFICES ASSUME NEW k \in DOMAIN reports
               PROVE  /\ reports[k].after \in 0..(k - 1)
                      /\ Agree(reports[k].stats) /\ AreCounts(reports[k].stats)
                      /\ FullHistory(k)' => Counts(reports[k].stats, Whole') /\ DrawdownKept(reports[k].stats)'
    BY DEF ReportsOK
  <2>1. /\ reports[k].after \in 0..(k - 1)
        /\ Agree(reports[k].stats) /\ AreCounts(reports[k].stats)
        /\ FullHistory(k) => Counts(reports[k].stats, Whole) /\ DrawdownKept(reports[k].stats)
    BY DEF ReportsOK
  <2>2. FullHistory(k)' <=> FullHistory(k)
    BY DEF FullHistory
  <2>3. DrawdownKept(reports[k].stats) => DrawdownKept(reports[k].stats)'
    BY DEF DrawdownKept, CertainOrder
  <2>4. Counts(reports[k].stats, Whole) => Counts(reports[k].stats, Whole')
    <3> DEFINE stats == reports[k].stats
    <3>1. AreCounts(stats)
      BY <2>1
    <3> HIDE DEF stats
    <3>2. Counts(stats, Whole) => Counts(stats, Whole')
      <4> DEFINE j == Whole
                 w == Whole'
      <4>1. IsJournal(j) /\ IsJournal(w) /\ IsPart(j, w)
        BY <1>0
      <4> HIDE DEF j, w
      <4>2. Counts(stats, j) => Counts(stats, w)
        BY <3>1, <4>1, CountsGrow
      <4> QED BY <4>2 DEF j, w
    <3> QED BY <3>2 DEF stats
  <2> QED BY <2>1, <2>2, <2>3, <2>4
<1>4. LoadsRemember' /\ ReportsNeverForget'
  BY LoadsStand, ReportsStand
<1> QED BY <1>1, <1>2, <1>3, <1>4

\* A trade recorded keeps the invariant: it is open, so no report has counted it as closed.
LEMMA TradeRecordedKeeps ==
    ASSUME AnalyticsInv, NEW trade \in Trades, TradeRecorded(trade)
    PROVE  AnalyticsInv'
<1> DEFINE row == [trade |-> trade, status |-> "open", pnl |-> null]
<1>1. journal' = Append(journal, row) /\ UNCHANGED <<equitySnapshots, request, reports>>
  BY DEF TradeRecorded
<1>2. journal \in Seq(Entries) /\ row \in Entries
  BY DEF AnalyticsInv, TablesOK, Entries
<1> HIDE DEF row
<1>3. /\ journal' \in Seq(Entries) /\ DOMAIN journal \subseteq DOMAIN journal'
      /\ \A i \in DOMAIN journal : journal'[i] = journal[i]
  BY <1>1, <1>2
<1> QED BY <1>1, <1>3, JournalSteps

\* A trade closed keeps the invariant: no trade that was closed changes.
LEMMA TradeClosedKeeps ==
    ASSUME AnalyticsInv, NEW i \in DOMAIN journal, NEW pnl \in Pnls, TradeClosed(i, pnl)
    PROVE  AnalyticsInv'
<1>1. /\ journal' = [journal EXCEPT ![i].status = "closed", ![i].pnl = pnl]
      /\ journal[i].status = "open" /\ UNCHANGED <<equitySnapshots, request, reports>>
  BY DEF TradeClosed
<1>2. /\ journal \in Seq(Entries) /\ journal \in [1..Len(journal) -> Entries] /\ Len(journal) \in Nat
      /\ DOMAIN journal = 1..Len(journal)
  BY DEF AnalyticsInv, TablesOK
<1> DEFINE row == [[journal[i] EXCEPT !.status = "closed"] EXCEPT !.pnl = pnl]
<1>3. row \in Entries
  <2>1. journal[i] \in [trade : Trades, status : {"open", "closed"}, pnl : Pnls \cup {null}]
    BY <1>2 DEF Entries
  <2> QED BY <2>1 DEF Entries
<1>4. /\ DOMAIN journal' = DOMAIN journal /\ journal' = [k \in DOMAIN journal |-> journal'[k]]
      /\ journal'[i] = row
      /\ \A k \in DOMAIN journal : k # i => journal'[k] = journal[k]
  BY <1>1
<1> HIDE DEF row
<1>5. journal' \in [1..Len(journal) -> Entries]
  BY <1>2, <1>3, <1>4
<1>6. journal' \in Seq(Entries)
  BY <1>2, <1>5
<1>7. \A k \in DOMAIN journal : journal[k].status = "closed" => journal'[k] = journal[k]
  BY <1>1, <1>4
<1> QED BY <1>1, <1>4, <1>6, <1>7, JournalSteps

\* A snapshot taken keeps the invariant: no snapshot that was read is gone.
LEMMA SnapshotTakenKeeps ==
    ASSUME AnalyticsInv, NEW asOf \in Moments, NEW equity \in Equities, SnapshotTaken(asOf, equity)
    PROVE  AnalyticsInv'
<1> USE DEF AnalyticsInv
<1> DEFINE s == [asOf |-> asOf, equity |-> equity]
           t == equitySnapshots
           copies == IF s \in DOMAIN t THEN t[s] ELSE 0
           u == Put(t, s, copies + 1)
<1>1. equitySnapshots' = u /\ UNCHANGED <<journal, request, reports>>
  BY DEF SnapshotTaken
<1>2. /\ IsFiniteSet(DOMAIN t) /\ t \in [DOMAIN t -> Nat \ {0}] /\ DOMAIN t \subseteq Snapshots
      /\ s \in Snapshots
  BY DEF TablesOK, Snapshots
<1>3. /\ IsFiniteSet(DOMAIN u) /\ DOMAIN u = DOMAIN t \cup {s}
      /\ u \in [DOMAIN u -> Nat \ {0}] /\ SumFunction(u) = SumFunction(t) + 1
  <2> HIDE DEF t, s
  <2> QED BY <1>2, OneMoreCopy
<1>4. SumFunction(t) \in Int
  <2>1. \A x \in DOMAIN t : t[x] \in Int
    BY <1>2
  <2> HIDE DEF t
  <2>2. SumFunctionOnSet(t, DOMAIN t) \in Int
    BY <1>2, <2>1, SumType
  <2> QED BY <2>2, SumOfFunction
<1> HIDE DEF u, s, copies
<1>5. DOMAIN t \subseteq DOMAIN equitySnapshots' /\ SumFunction(equitySnapshots') = SumFunction(t) + 1
  BY <1>1, <1>3
<1>6. TablesOK'
  BY <1>1, <1>2, <1>3 DEF TablesOK
<1>7. LoadsOK'
  <2>1. \A r : Loading(r)' <=> Loading(r)
    BY <1>1 DEF Loading
  <2>2. ASSUME NEW curve, IsRead(curve)
        PROVE  IsRead(curve)'
    <3>1. IsCurve(curve) /\ Len(curve) \in Nat /\ Len(curve) <= SumFunction(t)
      BY <2>2 DEF IsRead, IsCurve
    <3>2. Len(curve) <= SumFunction(equitySnapshots')
      BY <1>4, <1>5, <3>1
    <3>3. PICK rows \in [DOMAIN curve -> DOMAIN t] : InOrderOfAsOf(rows) /\ curve = Equity(rows)
      BY <2>2 DEF IsRead
    <3>4. rows \in [DOMAIN curve -> DOMAIN equitySnapshots']
      BY <1>5
    <3> QED BY <3>1, <3>2, <3>3, <3>4 DEF IsRead
  <2>3. Whole' = Whole
    BY <1>1 DEF Whole, WholeOf
  <2>4. \A q : IsLoad(q) => IsLoad(q)'
    BY <1>1, <2>2, <2>3 DEF IsLoad
  <2> QED BY <1>1, <2>1, <2>4 DEF LoadsOK
<1>8. ReportsOK'
  <2> SUFFICES ASSUME NEW k \in DOMAIN reports
               PROVE  /\ reports[k].after \in 0..(k - 1)
                      /\ Agree(reports[k].stats) /\ AreCounts(reports[k].stats)
                      /\ FullHistory(k)' => Counts(reports[k].stats, Whole') /\ DrawdownKept(reports[k].stats)'
    BY <1>1 DEF ReportsOK
  <2>1. /\ reports[k].after \in 0..(k - 1)
        /\ Agree(reports[k].stats) /\ AreCounts(reports[k].stats)
        /\ FullHistory(k) => Counts(reports[k].stats, Whole) /\ DrawdownKept(reports[k].stats)
    BY DEF ReportsOK
  <2>2. (FullHistory(k)' <=> FullHistory(k)) /\ Whole' = Whole
    BY <1>1 DEF FullHistory, Whole, WholeOf
  <2>3. ASSUME NEW stats, DrawdownKept(stats)
        PROVE  DrawdownKept(stats)'
    <3>1. CertainOrder' => CertainOrder
      BY <1>5 DEF CertainOrder
    <3>2. SumFunction(t) >= 2 => SumFunction(equitySnapshots') >= 2
      BY <1>4, <1>5
    <3> QED BY <1>5, <2>3, <3>1, <3>2 DEF DrawdownKept
  <2>4. DrawdownKept(reports[k].stats) => DrawdownKept(reports[k].stats)'
    <3> DEFINE stats == reports[k].stats
    <3>1. stats' = stats
      BY <1>1
    <3> HIDE DEF stats
    <3>2. DrawdownKept(stats) => DrawdownKept(stats)'
      <4>1. \A x : DrawdownKept(x) => DrawdownKept(x)'
        BY <2>3
      <4> QED BY <3>1, <4>1 DEF DrawdownKept
    <3> QED BY <3>2 DEF stats
  <2> QED BY <2>1, <2>2, <2>4
<1>9. LoadsRemember' /\ ReportsNeverForget'
  BY <1>1, <1>5, LoadsStand, ReportsStand
<1> QED BY <1>6, <1>7, <1>8, <1>9

\* A step of one request: what it then is, it may be.
LEMMA RequestSteps ==
    ASSUME AnalyticsInv, UNCHANGED <<journal, equitySnapshots, reports>>,
           NEW r \in Queries, NEW q, request' = [request EXCEPT ![r] = q],
           q.at = "loading" => IsLoad(q) /\ Remembers(q)
    PROVE  AnalyticsInv'
<1> USE DEF AnalyticsInv
<1>1. TablesOK'
  BY DEF TablesOK
<1>2. /\ request' = [p \in Queries |-> IF p = r THEN q ELSE request[p]]
      /\ request' = [p \in Queries |-> request'[p]]
      /\ \A p \in Queries : Loading(p)' <=> request'[p].at = "loading"
  BY DEF LoadsOK, Loading
<1>3. \A x : (IsLoad(x)' <=> IsLoad(x)) /\ (Remembers(x)' <=> Remembers(x))
  BY DEF IsLoad, IsRead, Remembers, FullHistory, CertainOrder, Whole, WholeOf
<1>4. LoadsOK'
  <2>1. ASSUME NEW p \in Queries, request'[p].at = "loading"
        PROVE  IsLoad(request'[p])
    <3>1. CASE p = r
      BY <1>2, <2>1, <3>1
    <3>2. CASE p # r
      BY <1>2, <2>1, <3>2 DEF LoadsOK, Loading
    <3> QED BY <3>1, <3>2
  <2> QED BY <1>2, <1>3, <2>1 DEF LoadsOK
<1>5. LoadsRemember'
  <2>1. ASSUME NEW p \in Queries, request'[p].at = "loading"
        PROVE  Remembers(request'[p])
    <3>1. CASE p = r
      BY <1>2, <2>1, <3>1
    <3>2. CASE p # r
      BY <1>2, <2>1, <3>2 DEF LoadsRemember, Loading
    <3> QED BY <3>1, <3>2
  <2> QED BY <1>2, <1>3, <2>1 DEF LoadsRemember
<1>6. ReportsOK'
  BY DEF ReportsOK, FullHistory, DrawdownKept, CertainOrder, Whole, WholeOf
<1>7. ReportsNeverForget'
  BY ReportsStand
<1> QED BY <1>1, <1>4, <1>5, <1>6, <1>7

\* A request that begins has read nothing yet, and remembers the reports there are.
LEMMA BeginKeeps ==
    ASSUME AnalyticsInv, NEW r \in Queries, NEW range, Begin(r, range)
    PROVE  AnalyticsInv'
<1> DEFINE q == [at |-> "loading", range |-> range, entries |-> null, curve |-> null,
                 stored |-> Len(reports)]
<1>1. /\ request' = [request EXCEPT ![r] = q]
      /\ UNCHANGED <<journal, equitySnapshots, reports>>
  BY DEF Begin
<1>2. Len(reports) \in Nat
  BY DEF AnalyticsInv, TablesOK, IsSequence
<1>3. /\ q = [at |-> "loading", range |-> q.range, entries |-> q.entries, curve |-> q.curve,
              stored |-> q.stored]
      /\ q.stored = Len(reports) /\ q.entries = null /\ q.curve = null
  OBVIOUS
<1> HIDE DEF q
<1>4. IsLoad(q)
  BY <1>2, <1>3 DEF IsLoad
<1>5. Remembers(q)
  BY <1>3 DEF Remembers
<1> QED BY <1>1, <1>4, <1>5, RequestSteps

\* A request that is over has nothing to keep.
LEMMA OverKeeps ==
    ASSUME AnalyticsInv, NEW r \in Queries, request' = [request EXCEPT ![r] = [at |-> "over"]],
           UNCHANGED <<journal, equitySnapshots, reports>>
    PROVE  AnalyticsInv'
<1> DEFINE q == [at |-> "over"]
<1>1. q.at # "loading" /\ request' = [request EXCEPT ![r] = q]
  OBVIOUS
<1> HIDE DEF q
<1> QED BY <1>1, RequestSteps

\* What a request reads of the journal is the journal of that moment.
LEMMA ReadEntriesKeeps ==
    ASSUME AnalyticsInv, NEW r \in Queries, ReadEntries(r)
    PROVE  AnalyticsInv'
<1> DEFINE kept == {i \in DOMAIN journal : Within(request[r].range, journal[i].trade.filled)}
           read == [i \in kept |-> Entry(journal[i])]
           p == request[r]
           q == [p EXCEPT !.entries = read]
<1>1. /\ request' = [request EXCEPT ![r].entries = read]
      /\ UNCHANGED <<journal, equitySnapshots, reports>> /\ Loading(r)
  BY DEF ReadEntries
<1>2. IsLoad(p) /\ Remembers(p)
  BY <1>1 DEF AnalyticsInv, LoadsOK, LoadsRemember
<1>3. IsJournal(read) /\ IsJournal(Whole) /\ (p.range = Everything => read = Whole)
  <2>1. journal \in Seq(Entries)
    BY DEF AnalyticsInv, TablesOK
  <2> QED BY <2>1, ReadJournals DEF Whole
<1>4. request' = [request EXCEPT ![r] = q]
  BY <1>1 DEF AnalyticsInv, LoadsOK
<1> HIDE DEF read, p
<1>5. /\ q = [at |-> "loading", range |-> q.range, entries |-> q.entries, curve |-> q.curve,
              stored |-> q.stored]
      /\ q.entries = read /\ q.range = p.range /\ q.curve = p.curve /\ q.stored = p.stored
  <2>1. p = [at |-> "loading", range |-> p.range, entries |-> p.entries, curve |-> p.curve,
            stored |-> p.stored]
    BY <1>2 DEF IsLoad
  <2>2. q = [at |-> "loading", range |-> p.range, entries |-> read, curve |-> p.curve,
            stored |-> p.stored]
    BY <2>1
  <2> HIDE DEF q
  <2> QED BY <2>2
<1> HIDE DEF q
<1>6. IsLoad(q)
  <2>1. q.range = Everything => IsPart(q.entries, Whole)
    BY <1>3, <1>5, Parts
  <2> QED BY <1>2, <1>3, <1>5, <2>1 DEF IsLoad
<1>7. Remembers(q)
  <2> SUFFICES ASSUME q.range = Everything, NEW i \in 1..q.stored, FullHistory(i)
               PROVE  /\ Counts(reports[i].stats, q.entries)
                      /\ q.curve # null /\ CertainOrder => DrawdownOf(reports[i].stats, q.curve)
    BY DEF Remembers
  <2>1. q.curve # null /\ CertainOrder => DrawdownOf(reports[i].stats, q.curve)
    BY <1>2, <1>5 DEF Remembers
  <2>2. i \in DOMAIN reports
    <3>1. p.stored \in 0..Len(reports) /\ Len(reports) \in Nat /\ DOMAIN reports = 1..Len(reports)
      BY <1>2 DEF IsLoad, AnalyticsInv, TablesOK, IsSequence
    <3> QED BY <1>5, <3>1
  <2>3. Counts(reports[i].stats, Whole)
    BY <2>2 DEF AnalyticsInv, ReportsOK
  <2> QED BY <1>3, <1>5, <2>1, <2>3
<1> QED BY <1>1, <1>4, <1>6, <1>7, RequestSteps

\* What a request reads of the snapshots is a curve of them, in the order of asOf.
LEMMA ReadSnapshotsKeeps ==
    ASSUME AnalyticsInv, NEW r \in Queries, ReadSnapshots(r)
    PROVE  AnalyticsInv'
<1> DEFINE p == request[r]
<1>1. PICK rows \in Listings(InRange(p.range, equitySnapshots)) :
         /\ InOrderOfAsOf(rows)
         /\ request' = [request EXCEPT ![r].curve = Equity(rows)]
  BY DEF ReadSnapshots
<1>2. UNCHANGED <<journal, equitySnapshots, reports>> /\ Loading(r)
  BY DEF ReadSnapshots
<1>3. IsLoad(p) /\ Remembers(p)
  BY <1>2 DEF AnalyticsInv, LoadsOK, LoadsRemember
<1> DEFINE read == Equity(rows)
           q == [p EXCEPT !.curve = read]
<1>4. IsRead(read) /\ TablesOK
  BY <1>1, ReadCurves DEF AnalyticsInv
<1>5. request' = [request EXCEPT ![r] = q]
  BY <1>1 DEF AnalyticsInv, LoadsOK
<1> HIDE DEF read, p
<1>6. /\ q = [at |-> "loading", range |-> q.range, entries |-> q.entries, curve |-> q.curve,
              stored |-> q.stored]
      /\ q.curve = read /\ q.range = p.range /\ q.entries = p.entries /\ q.stored = p.stored
  <2>1. p = [at |-> "loading", range |-> p.range, entries |-> p.entries, curve |-> p.curve,
            stored |-> p.stored]
    BY <1>3 DEF IsLoad
  <2>2. q = [at |-> "loading", range |-> p.range, entries |-> p.entries, curve |-> read,
            stored |-> p.stored]
    BY <2>1
  <2> HIDE DEF q
  <2> QED BY <2>2
<1> HIDE DEF q
<1>7. IsLoad(q)
  BY <1>3, <1>4, <1>6 DEF IsLoad
<1>8. Remembers(q)
  <2> SUFFICES ASSUME q.range = Everything, NEW i \in 1..q.stored, FullHistory(i)
               PROVE  /\ q.entries # null => Counts(reports[i].stats, q.entries)
                      /\ CertainOrder => DrawdownOf(reports[i].stats, q.curve)
    BY DEF Remembers
  <2>1. q.entries # null => Counts(reports[i].stats, q.entries)
    BY <1>3, <1>6 DEF Remembers
  <2>2. i \in DOMAIN reports
    <3>1. p.stored \in 0..Len(reports) /\ Len(reports) \in Nat /\ DOMAIN reports = 1..Len(reports)
      BY <1>3 DEF IsLoad, AnalyticsInv, TablesOK, IsSequence
    <3> QED BY <1>6, <3>1
  <2>3. DrawdownKept(reports[i].stats)
    BY <2>2 DEF AnalyticsInv, ReportsOK
  <2> DEFINE stats == reports[i].stats
  <2>4. rows \in Listings(InRange(Everything, equitySnapshots)) /\ InOrderOfAsOf(rows)
    BY <1>1, <1>6 DEF p
  <2>5. CertainOrder => DrawdownOf(stats, read)
    <3>1. DrawdownKept(stats)
      BY <2>3
    <3> HIDE DEF stats
    <3> QED BY <1>4, <2>4, <3>1, HistoryKeeps DEF read
  <2> QED BY <1>6, <2>1, <2>5
<1> QED BY <1>2, <1>5, <1>7, <1>8, RequestSteps

\* A report stored becomes the last of a sequence.
LEMMA Appended ==
    ASSUME NEW s, IsSequence(s), NEW row
    PROVE  LET t == Append(s, row)
           IN  /\ IsSequence(t) /\ Len(s) \in Nat /\ Len(t) = Len(s) + 1
               /\ DOMAIN s = 1..Len(s) /\ DOMAIN t = 1..(Len(s) + 1)
               /\ t[Len(s) + 1] = row /\ \A i \in 1..Len(s) : t[i] = s[i]
<1> DEFINE t == Append(s, row)
           R == Range(s) \cup {row}
<1>1. s \in Seq(R) /\ row \in R
  <2>1. s \in [1..Len(s) -> Range(s)] /\ Len(s) \in Nat
    BY DEF IsSequence
  <2>2. Range(s) \subseteq R /\ row \in R
    OBVIOUS
  <2> HIDE DEF R
  <2>3. s \in [1..Len(s) -> R]
    BY <2>1, <2>2
  <2> QED BY <2>1, <2>2, <2>3
<1> HIDE DEF R
<1>2. /\ t \in Seq(R) /\ Len(s) \in Nat /\ Len(t) = Len(s) + 1
      /\ DOMAIN s = 1..Len(s) /\ DOMAIN t = 1..(Len(s) + 1)
      /\ t[Len(s) + 1] = row /\ \A i \in 1..Len(s) : t[i] = s[i]
  BY <1>1
<1>3. IsSequence(t)
  <2>1. t \in [1..Len(t) -> Range(t)]
    <3> HIDE DEF t
    <3>1. DOMAIN t = 1..Len(t) /\ t = [i \in DOMAIN t |-> t[i]]
      BY <1>2
    <3>2. \A i \in DOMAIN t : t[i] \in Range(t)
      BY DEF Range
    <3> QED BY <3>1, <3>2
  <2> HIDE DEF t
  <2> QED BY <1>2, <2>1 DEF IsSequence
<1> QED BY <1>2, <1>3

\* A report stored forgets nothing of those that were stored when its request began.
LEMMA StoreKeeps ==
    ASSUME AnalyticsInv, NEW r \in Queries, Store(r)
    PROVE  AnalyticsInv'
<1>0. PICK n, q, j, curve, s :
         /\ n = Len(reports) /\ q = request[r] /\ j = q.entries /\ curve = q.curve
         /\ s = computeFullStatSet(j, curve)
  OBVIOUS
<1> DEFINE row == [range |-> q.range, stats |-> s, after |-> q.stored]
<1>1. /\ reports' = Append(reports, row) /\ Loading(r)
      /\ request' = [request EXCEPT ![r] = [at |-> "over"]]
      /\ j # null /\ curve # null
      /\ UNCHANGED <<journal, equitySnapshots>>
  BY <1>0 DEF Store, Loaded, ReportRow, EntriesOf, CurveOf
<1>2. IsLoad(q) /\ Remembers(q) /\ TablesOK
  BY <1>0, <1>1 DEF AnalyticsInv, LoadsOK, LoadsRemember
<1>3. /\ IsJournal(j) /\ (q.range = Everything => IsPart(j, Whole)) /\ IsRead(curve) /\ IsCurve(curve)
      /\ q.stored \in 0..n
  BY <1>0, <1>1, <1>2 DEF IsLoad, IsRead
<1>4. row.range = q.range /\ row.stats = s /\ row.after = q.stored
  OBVIOUS
<1> HIDE DEF row
<1>5. /\ IsSequence(reports') /\ n \in Nat /\ DOMAIN reports = 1..n /\ DOMAIN reports' = 1..(n + 1)
      /\ Len(reports') = n + 1
      /\ reports'[n + 1] = row /\ \A i \in 1..n : reports'[i] = reports[i]
  BY <1>0, <1>1, <1>2, Appended DEF TablesOK
<1>6. TablesOK'
  BY <1>1, <1>2, <1>5 DEF TablesOK
<1>7. /\ \A i \in 1..n : FullHistory(i)' <=> FullHistory(i)
      /\ FullHistory(n + 1)' <=> q.range = Everything
  BY <1>4, <1>5 DEF FullHistory, Everything
<1>8. ASSUME NEW x, IsLoad(x)
      PROVE  IsLoad(x)' /\ (Remembers(x) => Remembers(x)')
  <2>1. x.stored \in 0..n
    BY <1>0, <1>8 DEF IsLoad
  <2>2. x.stored \in 0..Len(reports') /\ \A i \in 1..x.stored : i \in 1..n
    BY <1>5, <2>1
  <2>3. IsLoad(x)'
    BY <1>1, <1>8, <2>2 DEF IsLoad, IsRead, Whole, WholeOf
  <2>4. Remembers(x) => Remembers(x)'
    BY <1>1, <1>5, <1>7, <2>2 DEF Remembers, CertainOrder
  <2> QED BY <2>3, <2>4
<1>9. LoadsOK' /\ LoadsRemember'
  <2>1. /\ request' = [p \in Queries |-> IF p = r THEN [at |-> "over"] ELSE request[p]]
        /\ request' = [p \in Queries |-> request'[p]]
        /\ \A p \in Queries : Loading(p)' <=> request'[p].at = "loading"
    BY <1>1 DEF AnalyticsInv, LoadsOK, Loading
  <2>2. ASSUME NEW p \in Queries, request'[p].at = "loading"
        PROVE  request'[p] = request[p] /\ IsLoad(request[p]) /\ Remembers(request[p])
    <3>1. p # r
      BY <2>1, <2>2
    <3>2. request'[p] = request[p]
      BY <2>1, <3>1
    <3> QED BY <2>2, <3>2 DEF AnalyticsInv, LoadsOK, LoadsRemember, Loading
  <2>3. \A x : IsLoad(x) => IsLoad(x)' /\ (Remembers(x) => Remembers(x)')
    BY <1>8
  <2>4. LoadsOK'
    BY <2>1, <2>2, <2>3 DEF LoadsOK
  <2>5. LoadsRemember'
    BY <2>1, <2>2, <2>3 DEF LoadsRemember
  <2> QED BY <2>4, <2>5
<1>10. Agree(s) /\ AreCounts(s) /\ Counts(s, j) /\ DrawdownKept(s)
  BY <1>0, <1>2, <1>3, FiguresAgree, ReplyCounts, ReadIsKept
<1>11. q.range = Everything => Counts(s, Whole)
  <2> SUFFICES ASSUME q.range = Everything PROVE Counts(s, Whole)
    OBVIOUS
  <2>1. IsJournal(Whole)
    BY <1>2, ReadJournals DEF TablesOK, Whole
  <2> QED BY <1>3, <1>10, <2>1, CountsGrow
<1>12. ReportsOK'
  <2> SUFFICES ASSUME NEW k \in 1..(n + 1)
               PROVE  /\ reports'[k].after \in 0..(k - 1)
                      /\ Agree(reports'[k].stats) /\ AreCounts(reports'[k].stats)
                      /\ FullHistory(k)' => Counts(reports'[k].stats, Whole') /\ DrawdownKept(reports[k].stats)'
    BY <1>5 DEF ReportsOK
  <2>1. Whole' = Whole
    BY <1>1 DEF Whole, WholeOf
  <2>2. CASE k = n + 1
    <3>1. reports'[k].stats = s /\ reports'[k].after = q.stored
      BY <1>4, <1>5, <2>2
    <3>2. DrawdownKept(reports[k].stats)'
      BY <1>1, <1>10, <3>1 DEF DrawdownKept, CertainOrder
    <3>3. q.stored \in 0..(k - 1)
      BY <1>3, <1>5, <2>2
    <3> QED BY <1>7, <1>10, <1>11, <2>1, <2>2, <3>1, <3>2, <3>3
  <2>3. CASE k # n + 1
    <3>1. k \in 1..n /\ k \in DOMAIN reports
      BY <1>5, <2>3
    <3>2. /\ reports[k].after \in 0..(k - 1)
          /\ Agree(reports[k].stats) /\ AreCounts(reports[k].stats)
          /\ FullHistory(k) => Counts(reports[k].stats, Whole) /\ DrawdownKept(reports[k].stats)
      BY <3>1 DEF AnalyticsInv, ReportsOK
    <3>3. reports'[k] = reports[k] /\ (FullHistory(k)' <=> FullHistory(k))
      BY <1>5, <1>7, <3>1
    <3>4. DrawdownKept(reports[k].stats) => DrawdownKept(reports[k].stats)'
      BY <1>1, <3>3 DEF DrawdownKept, CertainOrder
    <3> QED BY <2>1, <3>2, <3>3, <3>4
  <2> QED BY <2>2, <2>3
<1>13. ReportsNeverForget'
  <2>0. (CertainOrder' <=> CertainOrder) /\ (AlwaysFunded' <=> AlwaysFunded)
    BY <1>1 DEF CertainOrder, AlwaysFunded
  <2> SUFFICES ASSUME NEW k \in 1..(n + 1), NEW i \in 1..reports'[k].after,
                      FullHistory(i)', FullHistory(k)'
               PROVE  LET old == reports'[i].stats
                          new == reports'[k].stats
                      IN  /\ new.totalTrades >= old.totalTrades
                          /\ new.totalTrades - new.openTrades >= old.totalTrades - old.openTrades
                          /\ new.winningTrades >= old.winningTrades
                          /\ CertainOrder /\ AlwaysFunded /\ old.maxDrawdownPct # null =>
                                /\ new.maxDrawdownPct # null
                                /\ ~ Exceeds(old.maxDrawdownPct, new.maxDrawdownPct)
    BY <1>5, <2>0 DEF ReportsNeverForget
  <2>1. CASE k = n + 1
    <3> DEFINE old == reports[i].stats
    <3>1. i \in 1..q.stored /\ i \in 1..n /\ q.range = Everything
      <4>1. reports'[k].after = q.stored
        BY <1>4, <1>5, <2>1
      <4>2. i \in 1..n
        BY <1>3, <1>5, <4>1
      <4> QED BY <1>7, <2>1, <4>1, <4>2
    <3>2. reports'[i].stats = old /\ reports'[k].stats = s /\ FullHistory(i)
      BY <1>4, <1>5, <1>7, <2>1, <3>1
    <3>3. AreCounts(old)
      BY <1>5, <3>1 DEF AnalyticsInv, ReportsOK
    <3>4. /\ Counts(old, j)
          /\ CertainOrder => DrawdownOf(old, curve)
      BY <1>0, <1>1, <1>2, <3>1, <3>2 DEF Remembers
    <3> HIDE DEF old
    <3>5. /\ s.totalTrades = Cardinality(DOMAIN j)
          /\ s.totalTrades - s.openTrades = Cardinality(closedTradesOf(j))
          /\ s.winningTrades = Cardinality(Wins(j))
      BY <1>0, <1>3, ReplyCounts
    <3>6. /\ s.totalTrades >= old.totalTrades
          /\ s.totalTrades - s.openTrades >= old.totalTrades - old.openTrades
          /\ s.winningTrades >= old.winningTrades
      BY <1>10, <3>3, <3>4, <3>5 DEF Counts, AreCounts
    <3>7. ASSUME CertainOrder, AlwaysFunded, old.maxDrawdownPct # null
          PROVE  /\ s.maxDrawdownPct # null
                 /\ ~ Exceeds(old.maxDrawdownPct, s.maxDrawdownPct)
      <4>1. s.maxDrawdownPct = computeMaxDrawdownPct(curve)
        <5>1. computeFullStatSet(j, curve).maxDrawdownPct = computeMaxDrawdownPct(curve)
          BY FullStatFields
        <5> QED BY <1>0, <5>1
      <4>2. \A m \in DOMAIN curve : curve[m] >= 0
        <5>1. PICK rows \in [DOMAIN curve -> DOMAIN equitySnapshots] : curve = Equity(rows)
          BY <1>3 DEF IsRead
        <5>2. ASSUME NEW m \in DOMAIN curve PROVE curve[m] >= 0
          <6>1. rows[m] \in DOMAIN equitySnapshots /\ curve[m] = rows[m].equity
            BY <5>1 DEF Equity
          <6> QED BY <3>7, <6>1 DEF AlwaysFunded
        <5> QED BY <5>2
      <4>3. DrawdownOf(old, curve)
        BY <3>4, <3>7
      <4> QED BY <1>3, <3>7, <4>1, <4>2, <4>3, CurveRemembers
    <3> QED BY <3>2, <3>6, <3>7
  <2>2. CASE k # n + 1
    <3>1. k \in 1..n /\ k \in DOMAIN reports
      BY <1>5, <2>2
    <3>2. reports'[k] = reports[k]
      BY <1>5, <3>1
    <3>3. reports[k].after \in 0..(k - 1)
      BY <3>1 DEF AnalyticsInv, ReportsOK
    <3>4. i \in 1..n /\ i \in 1..reports[k].after
      BY <1>5, <3>1, <3>2, <3>3
    <3>5. reports'[i] = reports[i] /\ FullHistory(i) /\ FullHistory(k)
      BY <1>5, <1>7, <3>1, <3>4
    <3>6. ReportsNeverForget
      BY DEF AnalyticsInv
    <3> QED BY <3>1, <3>2, <3>4, <3>5, <3>6 DEF ReportsNeverForget
  <2> QED BY <2>1, <2>2
<1> QED BY <1>6, <1>9, <1>12, <1>13 DEF AnalyticsInv

\* Every step of the system keeps the invariant.
LEMMA AnalyticsSteps ==
    ASSUME AnalyticsInv, AnalyticsNext
    PROVE  AnalyticsInv'
<1>1. ASSUME NEW trade \in Trades, TradeRecorded(trade) PROVE AnalyticsInv'
  BY <1>1, TradeRecordedKeeps
<1>2. ASSUME NEW i \in DOMAIN journal, NEW pnl \in Pnls, TradeClosed(i, pnl) PROVE AnalyticsInv'
  BY <1>2, TradeClosedKeeps
<1>3. ASSUME NEW asOf \in Moments, NEW equity \in Equities, SnapshotTaken(asOf, equity)
      PROVE  AnalyticsInv'
  BY <1>3, SnapshotTakenKeeps
<1>4. ASSUME NEW r \in Queries, NEW range \in Ranges, Begin(r, range) PROVE AnalyticsInv'
  BY <1>4, BeginKeeps
<1>5. ASSUME NEW r \in Queries, ReadEntries(r) PROVE AnalyticsInv'
  BY <1>5, ReadEntriesKeeps
<1>6. ASSUME NEW r \in Queries, ReadSnapshots(r) PROVE AnalyticsInv'
  BY <1>6, ReadSnapshotsKeeps
<1>7. ASSUME NEW r \in Queries, Respond(r) \/ FailQuery(r) PROVE AnalyticsInv'
  BY <1>7, OverKeeps DEF Respond, FailQuery
<1>8. ASSUME NEW r \in Queries, Store(r) PROVE AnalyticsInv'
  BY <1>8, StoreKeeps
<1> QED BY <1>1, <1>2, <1>3, <1>4, <1>5, <1>6, <1>7, <1>8 DEF AnalyticsNext

-------------------------------------------------------------------------------
(* Analytics: the invariant, and the properties.                               *)

\* The inductive invariant of services/analytics.
THEOREM AnalyticsInvariant == AnalyticsSpec => []AnalyticsInv
<1>1. AnalyticsInit => AnalyticsInv
  BY AnalyticsInitial
<1>2. AnalyticsInv /\ [AnalyticsNext]_analyticsVars => AnalyticsInv'
  <2> SUFFICES ASSUME AnalyticsInv, [AnalyticsNext]_analyticsVars PROVE AnalyticsInv'
    OBVIOUS
  <2>1. CASE AnalyticsNext
    BY <2>1, AnalyticsSteps
  <2>2. CASE UNCHANGED analyticsVars
    <3>1. UNCHANGED <<journal, equitySnapshots, request, reports>>
      BY <2>2 DEF analyticsVars
    <3>2. journal \in Seq(Entries)
      BY DEF AnalyticsInv, TablesOK
    <3> QED BY <3>1, <3>2, JournalSteps
  <2> QED BY <2>1, <2>2
<1> QED BY <1>1, <1>2, PTL DEF AnalyticsSpec

\* What a request that has loaded has to work with.
LEMMA LoadedRequest ==
    ASSUME AnalyticsInv, NEW r \in Queries, Loaded(r)
    PROVE  IsJournal(EntriesOf(r)) /\ IsCurve(CurveOf(r))
<1>1. Loading(r) /\ EntriesOf(r) # null /\ CurveOf(r) # null
  BY DEF Loaded
<1>2. IsLoad(request[r])
  BY <1>1 DEF AnalyticsInv, LoadsOK
<1> QED BY <1>1, <1>2 DEF IsLoad, IsRead, EntriesOf, CurveOf

\* The drawdown shown is the worst decline from any snapshot to any later one.
THEOREM DrawdownsAreWorst == AnalyticsSpec => []DrawdownIsWorst
<1>1. AnalyticsInv => DrawdownIsWorst
  <2> SUFFICES ASSUME AnalyticsInv, NEW r \in Replying,
                      \A i \in DOMAIN CurveOf(r) : CurveOf(r)[i] >= 0
               PROVE  IF Len(CurveOf(r)) < 2 THEN computeMaxDrawdownPct(CurveOf(r)) = null
                      ELSE IsWorst(computeMaxDrawdownPct(CurveOf(r)), CurveOf(r))
    BY DEF DrawdownIsWorst
  <2> DEFINE curve == CurveOf(r)
  <2>1. IsCurve(curve)
    BY LoadedRequest DEF Replying
  <2> HIDE DEF curve
  <2>2. CASE Len(curve) < 2
    BY <2>2 DEF computeMaxDrawdownPct, curve
  <2>3. CASE ~ (Len(curve) < 2)
    <3>1. Len(curve) >= 2
      BY <2>1, <2>3 DEF IsCurve
    <3>2. \A i \in DOMAIN curve : curve[i] >= 0
      BY DEF curve
    <3> QED BY <2>1, <2>3, <3>1, <3>2, WalkIsWorst DEF curve
  <2> QED BY <2>2, <2>3 DEF curve
<1>2. AnalyticsSpec => []AnalyticsInv
  BY AnalyticsInvariant
<1> QED BY <1>1, <1>2, PTL

\* A report on the full history takes nothing back that an earlier one said.
THEOREM ReportsRemember == AnalyticsSpec => []ReportsNeverForget
<1>1. AnalyticsInv => ReportsNeverForget
  BY DEF AnalyticsInv
<1>2. AnalyticsSpec => []AnalyticsInv
  BY AnalyticsInvariant
<1> QED BY <1>1, <1>2, PTL

\* The figures of a report or of a performance reply never contradict each other.
THEOREM StatsDoAgree == AnalyticsSpec => []StatsAgree
<1>1. AnalyticsInv => StatsAgree
  <2> SUFFICES ASSUME AnalyticsInv, NEW s \in StatsShown
               PROVE  Agree(s)
    BY DEF StatsAgree
  <2>1. ASSUME NEW k \in DOMAIN reports, s = reports[k].stats PROVE Agree(s)
    BY <2>1 DEF AnalyticsInv, ReportsOK
  <2>2. ASSUME NEW r \in Replying, s = Reply("performance", EntriesOf(r), CurveOf(r)) PROVE Agree(s)
    <3>1. s = computeFullStatSet(EntriesOf(r), CurveOf(r))
      BY <2>2 DEF Reply
    <3>2. IsJournal(EntriesOf(r)) /\ IsCurve(CurveOf(r))
      BY LoadedRequest DEF Replying
    <3> QED BY <3>1, <3>2, FiguresAgree
  <2> QED BY <2>1, <2>2 DEF StatsShown
<1>2. AnalyticsSpec => []AnalyticsInv
  BY AnalyticsInvariant
<1> QED BY <1>1, <1>2, PTL

-------------------------------------------------------------------------------
(* Analytics: the breakdowns add up.                                           *)

\* The values of a function of finitely many arguments.
LEMMA FiniteRange ==
    ASSUME NEW f, f = [x \in DOMAIN f |-> f[x]], IsFiniteSet(DOMAIN f)
    PROVE  IsFiniteSet(Range(f)) /\ \A x \in DOMAIN f : f[x] \in Range(f)
<1>1. f \in Surjection(DOMAIN f, Range(f))
  BY DEF Surjection, Range
<1>2. IsFiniteSet(Range(f))
  BY <1>1, FS_Surjection
<1> QED BY <1>2 DEF Range

\* The number of members of a set is a sum of ones.
LEMMA CountIsSum ==
    ASSUME NEW S, IsFiniteSet(S), NEW f, \A x \in S : f[x] = 1
    PROVE  SumFunctionOnSet(f, S) = Cardinality(S)
<1> SUFFICES ASSUME SumFunctionOnSet(f, S) # Cardinality(S) PROVE FALSE
  OBVIOUS
<1> DEFINE F == {t \in SUBSET S : SumFunctionOnSet(f, t) # Cardinality(t)}
<1>1. PICK t \in F : \A u \in F : u \subseteq t => u = t
  <2> HIDE DEF F
  <2>1. F \subseteq SUBSET S /\ F # {}
    BY DEF F
  <2> QED BY <2>1, LeastSet
<1>2. t # {}
  BY <1>1, SumEmpty, FS_EmptySet
<1>3. PICK x : x \in t
  BY <1>2
<1>4. IsFiniteSet(t) /\ t \ {x} \in SUBSET S /\ \A y \in t : f[y] = 1
  BY <1>1, FS_Subset
<1>5. SumFunctionOnSet(f, t) = 1 + SumFunctionOnSet(f, t \ {x})
  <2>1. \A y \in t : f[y] \in Int
    BY <1>4
  <2>2. SumFunctionOnSet(f, t) = f[x] + SumFunctionOnSet(f, t \ {x})
    BY <1>3, <1>4, <2>1, SumRemove
  <2> QED BY <1>3, <1>4, <2>2
<1>6. SumFunctionOnSet(f, t \ {x}) = Cardinality(t \ {x})
  BY <1>1, <1>3, <1>4
<1>7. Cardinality(t \ {x}) = Cardinality(t) - 1 /\ Cardinality(t) \in Nat
  BY <1>3, <1>4, FS_RemoveElement, FS_CardinalityType
<1> QED BY <1>1, <1>5, <1>6, <1>7

\* The entries that a figure counts, and what each of them counts for.
Counted(j, field) ==
    CASE field = "totalTrades"      -> DOMAIN j
      [] field = "winningTrades"    -> Wins(j)
      [] field = "losingTrades"     -> Losses(j)
      [] field = "breakevenTrades"  -> closedTradesOf(j) \ (Wins(j) \cup Losses(j))
      [] field = "openTrades"       -> DOMAIN j \ closedTradesOf(j)
      [] field = "totalRealizedPnl" -> closedTradesOf(j)
Weight(j, field) == [i \in DOMAIN j |-> IF field = "totalRealizedPnl" THEN j[i].pnl ELSE 1]

\* Each figure that adds up is such a sum.
LEMMA FiguresAreSums ==
    ASSUME NEW j, IsJournal(j), NEW field \in Added
    PROVE  /\ IsFiniteSet(Counted(j, field)) /\ Counted(j, field) \subseteq DOMAIN j
           /\ \A i \in Counted(j, field) : Weight(j, field)[i] \in Int
           /\ FiguresOf(j)[field] = SumFunctionOnSet(Weight(j, field), Counted(j, field))
           /\ field \in DOMAIN FiguresOf(j)
<1> DEFINE C == closedTradesOf(j)
           S == Counted(j, field)
           f == Weight(j, field)
           s == FiguresOf(j)
<1>1. /\ C \subseteq DOMAIN j /\ Wins(j) \subseteq C /\ Losses(j) \subseteq C
      /\ IsFiniteSet(DOMAIN j) /\ IsFiniteSet(C) /\ \A i \in C : j[i].pnl \in Int
  BY TradesAddUp
<1>2. /\ DOMAIN s = {"totalTrades", "winningTrades", "losingTrades", "breakevenTrades",
                              "openTrades", "totalRealizedPnl", "winRate"}
               /\ s.totalTrades = Cardinality(DOMAIN j)
               /\ s.winningTrades = Cardinality(Wins(j))
               /\ s.losingTrades = Cardinality(Losses(j))
               /\ s.breakevenTrades = Cardinality(C \ (Wins(j) \cup Losses(j)))
               /\ s.openTrades = Cardinality(DOMAIN j \ C)
               /\ s.totalRealizedPnl = TotalPnl(j, C)
  BY FiguresFields
<1>3. field \in {"totalTrades", "winningTrades", "losingTrades", "breakevenTrades", "openTrades",
                 "totalRealizedPnl"}
  BY DEF Added
<1>4. S \subseteq DOMAIN j
  BY <1>1, <1>3 DEF Counted
<1>5. IsFiniteSet(S)
  BY <1>1, <1>4, FS_Subset
<1> HIDE DEF s, C
<1>6. CASE field = "totalRealizedPnl"
  <2>1. S = C /\ \A i \in C : f[i] = j[i].pnl
    BY <1>1, <1>6 DEF Counted, Weight, C
  <2> HIDE DEF S, f
  <2>2. TotalPnl(j, C) = SumFunctionOnSet(f, C)
    BY <1>1, <2>1, TotalOf
  <2>3. s[field] = TotalPnl(j, C)
    BY <1>2, <1>6
  <2> QED BY <1>1, <1>2, <1>3, <1>4, <1>5, <2>1, <2>2, <2>3 DEF S, f, s
<1>7. CASE field # "totalRealizedPnl"
  <2>1. s[field] = Cardinality(S)
    BY <1>2, <1>3, <1>7 DEF Counted, C
  <2>2. \A i \in S : f[i] = 1
    BY <1>4, <1>7 DEF Weight
  <2> HIDE DEF S, f
  <2>3. SumFunctionOnSet(f, S) = Cardinality(S)
    BY <1>5, <2>2, CountIsSum
  <2> QED BY <1>2, <1>3, <1>4, <1>5, <2>1, <2>2, <2>3 DEF S, f, s
<1> QED BY <1>6, <1>7

\* A group of the entries counts those that the whole counts.
LEMMA GroupsCount ==
    ASSUME NEW j, IsJournal(j), NEW keyed, DOMAIN keyed = DOMAIN j, NEW key, NEW field \in Added
    PROVE  LET g == Group(j, keyed, key)
           IN  /\ IsJournal(g) /\ DOMAIN g \subseteq DOMAIN j
               /\ \A i : i \in Counted(g, field) <=> i \in Counted(j, field) /\ keyed[i] = key
               /\ \A i \in DOMAIN g : Weight(g, field)[i] = Weight(j, field)[i]
<1> DEFINE g == Group(j, keyed, key)
<1>1. /\ DOMAIN g = {i \in DOMAIN j : keyed[i] = key}
      /\ \A i \in DOMAIN g : g[i] = j[i]
  BY DEF Group, Restrict
<1> HIDE DEF g
<1>2. IsJournal(g) /\ DOMAIN g \subseteq DOMAIN j
  <2>1. IsFiniteSet(DOMAIN g) /\ DOMAIN g \subseteq DOMAIN j
    BY <1>1, FS_Subset DEF IsJournal
  <2> QED BY <1>1, <2>1 DEF IsJournal
<1>3. /\ closedTradesOf(g) = {i \in closedTradesOf(j) : keyed[i] = key}
      /\ Wins(g) = {i \in Wins(j) : keyed[i] = key}
      /\ Losses(g) = {i \in Losses(j) : keyed[i] = key}
  <2>1. closedTradesOf(g) = {i \in closedTradesOf(j) : keyed[i] = key}
    BY <1>1 DEF closedTradesOf
  <2>2. \A i \in closedTradesOf(g) : g[i] = j[i]
    BY <1>1 DEF closedTradesOf
  <2>3. Wins(g) = {i \in Wins(j) : keyed[i] = key}
    BY <2>1, <2>2 DEF Wins
  <2>4. Losses(g) = {i \in Losses(j) : keyed[i] = key}
    BY <2>1, <2>2 DEF Losses
  <2> QED BY <2>1, <2>3, <2>4
<1>4. Counted(g, field) = {i \in Counted(j, field) : keyed[i] = key}
  <2>1. field \in {"totalTrades", "winningTrades", "losingTrades", "breakevenTrades", "openTrades",
                   "totalRealizedPnl"}
    BY DEF Added
  <2>2. CASE field = "totalTrades"
    BY <1>1, <2>2 DEF Counted
  <2>3. CASE field = "winningTrades"
    BY <1>3, <2>3 DEF Counted
  <2>4. CASE field = "losingTrades"
    BY <1>3, <2>4 DEF Counted
  <2>5. CASE field = "breakevenTrades"
    <3>1. /\ Counted(g, field) = closedTradesOf(g) \ (Wins(g) \cup Losses(g))
          /\ Counted(j, field) = closedTradesOf(j) \ (Wins(j) \cup Losses(j))
      BY <2>5 DEF Counted
    <3> QED BY <1>3, <3>1
  <2>6. CASE field = "openTrades"
    <3>1. /\ Counted(g, field) = DOMAIN g \ closedTradesOf(g)
          /\ Counted(j, field) = DOMAIN j \ closedTradesOf(j)
      BY <2>6 DEF Counted
    <3> QED BY <1>1, <1>3, <3>1
  <2>7. CASE field = "totalRealizedPnl"
    BY <1>3, <2>7 DEF Counted
  <2> QED BY <2>1, <2>2, <2>3, <2>4, <2>5, <2>6, <2>7
<1>5. \A i \in DOMAIN g : Weight(g, field)[i] = Weight(j, field)[i]
  BY <1>1, <1>2 DEF Weight
<1> QED BY <1>2, <1>4, <1>5 DEF g

\* The rows of a breakdown that has a group for every key there is make up the whole.
LEMMA GroupsAddUp ==
    ASSUME NEW j, IsJournal(j), NEW keyed, DOMAIN keyed = DOMAIN j, NEW D, IsFiniteSet(D),
           \A i \in DOMAIN j : keyed[i] \in D,
           NEW field \in Added, NEW total, DOMAIN total = D,
           \A key \in D : total[key] = FiguresOf(Group(j, keyed, key))[field]
    PROVE  SumFunction(total) = FiguresOf(j)[field]
<1> DEFINE f == Weight(j, field)
           all == Counted(j, field)
           G == [key \in D |-> {i \in all : keyed[i] = key}]
<1>1. /\ IsFiniteSet(all) /\ all \subseteq DOMAIN j /\ \A i \in all : f[i] \in Int
      /\ FiguresOf(j)[field] = SumFunctionOnSet(f, all)
  BY FiguresAreSums
<1>2. ASSUME NEW key \in D
      PROVE  total[key] = SumFunctionOnSet(f, {i \in all : keyed[i] = key})
  <2> DEFINE g == Group(j, keyed, key)
             part == {i \in all : keyed[i] = key}
             h == Weight(g, field)
  <2>1. /\ IsJournal(g) /\ DOMAIN g \subseteq DOMAIN j
        /\ Counted(g, field) = part
        /\ \A i \in DOMAIN g : h[i] = f[i]
    <3> HIDE DEF f, all, G, g, part, h
    <3>1. IsJournal(g)
      BY GroupsCount DEF g
    <3>2. DOMAIN g \subseteq DOMAIN j
      BY GroupsCount DEF g
    <3>3. \A i : i \in Counted(g, field) <=> i \in Counted(j, field) /\ keyed[i] = key
      BY GroupsCount DEF g
    <3>4. \A i \in DOMAIN g : Weight(g, field)[i] = Weight(j, field)[i]
      BY GroupsCount DEF g
    <3> QED BY <3>1, <3>2, <3>3, <3>4 DEF all, part, f, h
  <2>2. /\ Counted(g, field) \subseteq DOMAIN g /\ IsFiniteSet(Counted(g, field))
        /\ \A i \in Counted(g, field) : h[i] \in Int
        /\ FiguresOf(g)[field] = SumFunctionOnSet(h, Counted(g, field))
    <3> HIDE DEF g
    <3> QED BY <2>1, FiguresAreSums
  <2>3. total[key] = FiguresOf(g)[field]
    OBVIOUS
  <2> HIDE DEF g, h, f, part
  <2>4. \A i \in part : f[i] \in Int /\ h[i] = f[i]
    BY <2>1, <2>2
  <2>5. SumFunctionOnSet(h, part) = SumFunctionOnSet(f, part)
    BY <2>1, <2>2, <2>4, SumOfEquals
  <2> QED BY <2>1, <2>2, <2>3, <2>5 DEF part
<1> HIDE DEF f, all
<1>3. /\ \A key \in D : G[key] = {i \in all : keyed[i] = key}
      /\ \A key \in D : G[key] \subseteq all
  OBVIOUS
<1>4. \A key \in D : total[key] = SumFunctionOnSet(f, G[key])
  BY <1>2, <1>3
<1>5. \A d, e \in D : d # e => G[d] \cap G[e] = {}
  BY <1>3
<1>6. \A x : x \in all <=> \E d \in D : x \in G[d]
  BY <1>1, <1>3
<1> HIDE DEF G
<1>7. (\A key \in D : IsFiniteSet(G[key])) /\ (\A key \in D : \A i \in G[key] : f[i] \in Int)
  BY <1>1, <1>3, FS_Subset
<1>8. SumFunctionOnSet(total, D) = SumFunctionOnSet(f, all)
  BY ONLY IsFiniteSet(D), <1>4, <1>5, <1>6, <1>7, SumByGroups
<1> QED BY <1>1, <1>8, SumOfFunction

\* The window and the day of a fill time.
LEMMA Windows ==
    ASSUME NEW entry, entry.filled \in Int
    PROVE  sessionWindowOf(entry) \in SESSION_WINDOWS /\ dayOf(entry) \in 0..6
<1> DEFINE hour == entry.filled % 24
<1>1. hour \in 0..23
  OBVIOUS
<1> HIDE DEF hour
<1>2. \E w \in SESSION_WINDOWS : hour >= w.startHour /\ hour < w.endHour
  <2> DEFINE a == [startHour |-> 0,  endHour |-> 6]
             b == [startHour |-> 6,  endHour |-> 12]
             c == [startHour |-> 12, endHour |-> 18]
             d == [startHour |-> 18, endHour |-> 24]
  <2>1. /\ a.startHour = 0 /\ a.endHour = 6 /\ b.startHour = 6 /\ b.endHour = 12
        /\ c.startHour = 12 /\ c.endHour = 18 /\ d.startHour = 18 /\ d.endHour = 24
        /\ a \in SESSION_WINDOWS /\ b \in SESSION_WINDOWS /\ c \in SESSION_WINDOWS /\ d \in SESSION_WINDOWS
    BY DEF SESSION_WINDOWS
  <2> HIDE DEF a, b, c, d
  <2>2. hour < 6 \/ (hour >= 6 /\ hour < 12) \/ (hour >= 12 /\ hour < 18) \/ (hour >= 18 /\ hour < 24)
    BY <1>1
  <2>3. hour >= 0
    BY <1>1
  <2> QED BY <2>1, <2>2, <2>3
<1>3. sessionWindowOf(entry) \in SESSION_WINDOWS
  BY <1>2 DEF sessionWindowOf, hour
<1>4. dayOf(entry) \in 0..6
  <2> DEFINE q == entry.filled \div 24
  <2>1. q \in Int
    OBVIOUS
  <2> HIDE DEF q
  <2>2. q % 7 \in 0..6
    BY <2>1
  <2> QED BY <2>2 DEF dayOf, q
<1> QED BY <1>3, <1>4

\* A breakdown is a row for every key in D, which shows the figures of its group.
IsBreakdown(rows, j, keyed, D) ==
    /\ DOMAIN keyed = DOMAIN j /\ IsFiniteSet(D) /\ DOMAIN rows = D
    /\ \A i \in DOMAIN j : keyed[i] \in D
    /\ \A key \in D : \A field \in Added :
          field \in DOMAIN rows[key] => rows[key][field] = FiguresOf(Group(j, keyed, key))[field]

\* Rows that are the figures of groups by key add up to the journal.
LEMMA BreakdownAddsUp ==
    ASSUME NEW j, IsJournal(j), NEW rows, NEW keyed, NEW D, IsBreakdown(rows, j, keyed, D),
           NEW field \in Added, \A key \in DOMAIN rows : field \in DOMAIN rows[key]
    PROVE  SumFunction([key \in DOMAIN rows |-> rows[key][field]]) = FiguresOf(j)[field]
<1> DEFINE total == [key \in D |-> rows[key][field]]
<1>1. /\ DOMAIN keyed = DOMAIN j /\ IsFiniteSet(D) /\ DOMAIN rows = D
      /\ \A i \in DOMAIN j : keyed[i] \in D
  BY DEF IsBreakdown
<1>2. \A key \in D : total[key] = FiguresOf(Group(j, keyed, key))[field]
  BY DEF IsBreakdown
<1>3. DOMAIN total = D
  OBVIOUS
<1> HIDE DEF total
<1>4. SumFunction(total) = FiguresOf(j)[field]
  BY <1>1, <1>2, <1>3, GroupsAddUp
<1> QED BY <1>1, <1>4 DEF total

\* The rows of every breakdown say what the figures of their group are.
LEMMA RowsSay ==
    ASSUME NEW g, NEW field \in Added
    PROVE  /\ SessionRow(g)[field] = FiguresOf(g)[field]
           /\ StrategyRow(g)[field] = FiguresOf(g)[field]
           /\ MonthRow(g)[field] = FiguresOf(g)[field]
           /\ field \in DOMAIN HeatmapCell(g) => HeatmapCell(g)[field] = FiguresOf(g)[field]
<1>1. field \in DOMAIN FiguresOf(g)
  <2>1. DOMAIN FiguresOf(g) = {"totalTrades", "winningTrades", "losingTrades", "breakevenTrades",
                               "openTrades", "totalRealizedPnl", "winRate"}
    BY FiguresFields
  <2> QED BY <2>1 DEF Added
<1>2. \A f \in DOMAIN FiguresOf(g) :
         /\ MonthRow(g)[f] = FiguresOf(g)[f] /\ StrategyRow(g)[f] = FiguresOf(g)[f]
         /\ SessionRow(g)[f] = FiguresOf(g)[f]
  BY RowFields
<1>3. field \in DOMAIN HeatmapCell(g) => HeatmapCell(g)[field] = FiguresOf(g)[field]
  BY DEF HeatmapCell, Restrict
<1> QED BY <1>1, <1>2, <1>3

\* The keys that a journal has.
LEMMA KeysOf ==
    ASSUME NEW j, IsJournal(j), NEW keyed, keyed = [i \in DOMAIN j |-> keyed[i]]
    PROVE  /\ DOMAIN keyed = DOMAIN j /\ IsFiniteSet(Range(keyed))
           /\ \A i \in DOMAIN j : keyed[i] \in Range(keyed)
<1>1. DOMAIN keyed = DOMAIN j /\ IsFiniteSet(DOMAIN keyed) /\ keyed = [i \in DOMAIN keyed |-> keyed[i]]
  BY DEF IsJournal
<1> QED BY <1>1, FiniteRange

\* Every section but the performance and the distribution is a breakdown.
LEMMA RowsBreakDown ==
    ASSUME NEW j, IsJournal(j), NEW section \in Sections \ {"performance", "distribution"}
    PROVE  \E keyed, D : IsBreakdown(Rows(section, j), j, keyed, D)
<1>1. section \in {"strategies", "heatmap", "sessions", "instruments", "monthly"}
  BY DEF Sections
<1>2. \A i \in DOMAIN j : sessionWindowOf(j[i]) \in SESSION_WINDOWS /\ dayOf(j[i]) \in 0..6
  <2> SUFFICES ASSUME NEW i \in DOMAIN j
               PROVE  sessionWindowOf(j[i]) \in SESSION_WINDOWS /\ dayOf(j[i]) \in 0..6
    OBVIOUS
  <2>1. j[i].filled \in Int
    BY DEF IsJournal
  <2> QED BY <2>1, Windows
<1>3. IsFiniteSet(SESSION_WINDOWS) /\ IsFiniteSet((0..6) \X SESSION_WINDOWS)
  <2> DEFINE a == [startHour |-> 0,  endHour |-> 6]
             b == [startHour |-> 6,  endHour |-> 12]
             c == [startHour |-> 12, endHour |-> 18]
             d == [startHour |-> 18, endHour |-> 24]
  <2>1. SESSION_WINDOWS = {a, b, c, d}
    BY DEF SESSION_WINDOWS
  <2> HIDE DEF a, b, c, d
  <2>2. {a, b, c, d} = (({a} \cup {b}) \cup {c}) \cup {d}
    OBVIOUS
  <2>3. IsFiniteSet({a})
    BY FS_Singleton
  <2>4. IsFiniteSet({a} \cup {b})
    BY <2>3, FS_AddElement
  <2>5. IsFiniteSet(({a} \cup {b}) \cup {c})
    BY <2>4, FS_AddElement
  <2>6. IsFiniteSet((({a} \cup {b}) \cup {c}) \cup {d})
    BY <2>5, FS_AddElement
  <2>7. IsFiniteSet(SESSION_WINDOWS)
    BY <2>1, <2>2, <2>6
  <2>8. IsFiniteSet(0..6)
    <3> DEFINE first == 0
               last == 6
    <3>1. first \in Int /\ last \in Int
      OBVIOUS
    <3> HIDE DEF first, last
    <3>2. IsFiniteSet(first..last)
      BY <3>1, FS_Interval
    <3> QED BY <3>2 DEF first, last
  <2> QED BY <2>7, <2>8, FS_Product
<1>4. CASE section = "strategies"
  <2> DEFINE keyed == Keyed(j, strategyKeyOf)
             D == Range(keyed)
             rows == [key \in D |-> StrategyRow(Group(j, keyed, key))]
  <2>1. keyed = [i \in DOMAIN j |-> keyed[i]]
    BY DEF Keyed
  <2>2. Rows(section, j) = rows
    BY <1>4 DEF Rows, computeStrategyStats
  <2> HIDE DEF keyed
  <2>3. DOMAIN keyed = DOMAIN j /\ IsFiniteSet(D) /\ \A i \in DOMAIN j : keyed[i] \in D
    BY <2>1, KeysOf
  <2> HIDE DEF D
  <2>4. \A key \in D : \A field \in Added : rows[key][field] = FiguresOf(Group(j, keyed, key))[field]
    BY RowsSay
  <2>5. IsBreakdown(rows, j, keyed, D)
    BY <2>3, <2>4 DEF IsBreakdown
  <2> HIDE DEF rows
  <2> QED BY <2>2, <2>5
<1>5. CASE section = "instruments"
  <2> DEFINE keyed == Keyed(j, symbolOf)
             D == Range(keyed)
             rows == [key \in D |-> SessionRow(Group(j, keyed, key))]
  <2>1. keyed = [i \in DOMAIN j |-> keyed[i]]
    BY DEF Keyed
  <2>2. Rows(section, j) = rows
    BY <1>5 DEF Rows, computeInstrumentAnalysis
  <2> HIDE DEF keyed
  <2>3. DOMAIN keyed = DOMAIN j /\ IsFiniteSet(D) /\ \A i \in DOMAIN j : keyed[i] \in D
    BY <2>1, KeysOf
  <2> HIDE DEF D
  <2>4. \A key \in D : \A field \in Added : rows[key][field] = FiguresOf(Group(j, keyed, key))[field]
    BY RowsSay
  <2>5. IsBreakdown(rows, j, keyed, D)
    BY <2>3, <2>4 DEF IsBreakdown
  <2> HIDE DEF rows
  <2> QED BY <2>2, <2>5
<1>6. CASE section = "monthly"
  <2> DEFINE keyed == Keyed(j, monthBucketOf)
             D == Range(keyed)
             rows == [key \in D |-> MonthRow(Group(j, keyed, key))]
  <2>1. keyed = [i \in DOMAIN j |-> keyed[i]]
    BY DEF Keyed
  <2>2. Rows(section, j) = rows
    BY <1>6 DEF Rows, computeMonthlyReports
  <2> HIDE DEF keyed
  <2>3. DOMAIN keyed = DOMAIN j /\ IsFiniteSet(D) /\ \A i \in DOMAIN j : keyed[i] \in D
    BY <2>1, KeysOf
  <2> HIDE DEF D
  <2>4. \A key \in D : \A field \in Added : rows[key][field] = FiguresOf(Group(j, keyed, key))[field]
    BY RowsSay
  <2>5. IsBreakdown(rows, j, keyed, D)
    BY <2>3, <2>4 DEF IsBreakdown
  <2> HIDE DEF rows
  <2> QED BY <2>2, <2>5
<1>7. CASE section = "sessions"
  <2> DEFINE keyed == Keyed(j, sessionWindowOf)
             D == SESSION_WINDOWS
             rows == [key \in D |-> SessionRow(Group(j, keyed, key))]
  <2>1. DOMAIN keyed = DOMAIN j /\ \A i \in DOMAIN j : keyed[i] \in D
    BY <1>2 DEF Keyed
  <2>2. Rows(section, j) = rows
    BY <1>7 DEF Rows, computeSessionAnalysis
  <2> HIDE DEF keyed
  <2>3. IsFiniteSet(D)
    BY <1>3
  <2> HIDE DEF D
  <2>4. \A key \in D : \A field \in Added : rows[key][field] = FiguresOf(Group(j, keyed, key))[field]
    BY RowsSay
  <2>5. IsBreakdown(rows, j, keyed, D)
    BY <2>1, <2>3, <2>4 DEF IsBreakdown
  <2> HIDE DEF rows
  <2> QED BY <2>2, <2>5
<1>8. CASE section = "heatmap"
  <2> DEFINE keyed == [i \in DOMAIN j |-> <<dayOf(j[i]), sessionWindowOf(j[i])>>]
             D == (0..6) \X SESSION_WINDOWS
             rows == [cell \in D |-> HeatmapCell(Group(j, keyed, cell))]
  <2>1. DOMAIN keyed = DOMAIN j /\ \A i \in DOMAIN j : keyed[i] \in D
    BY <1>2
  <2>2. Rows(section, j) = rows
    BY <1>8 DEF Rows, computeHeatmap, Keyed
  <2> HIDE DEF keyed
  <2>3. IsFiniteSet(D)
    BY <1>3
  <2> HIDE DEF D
  <2>4. \A key \in D : \A field \in Added : field \in DOMAIN rows[key] =>
           rows[key][field] = FiguresOf(Group(j, keyed, key))[field]
    BY RowsSay
  <2>5. IsBreakdown(rows, j, keyed, D)
    BY <2>1, <2>3, <2>4 DEF IsBreakdown
  <2> HIDE DEF rows
  <2> QED BY <2>2, <2>5
<1> QED BY <1>1, <1>4, <1>5, <1>6, <1>7, <1>8

\* The smaller of two integers.
LEMMA MinOfTwo ==
    ASSUME NEW a \in Int, NEW b \in Int
    PROVE  Min({a, b}) \in {a, b} /\ Min({a, b}) <= a /\ Min({a, b}) <= b
<1>1. \E x \in {a, b} : \A y \in {a, b} : x <= y
  OBVIOUS
<1>2. Min({a, b}) \in {a, b} /\ \A y \in {a, b} : Min({a, b}) <= y
  BY <1>1 DEF Min
<1> QED BY <1>2

\* The buckets of the distribution hold every closed trade.
LEMMA BucketsAddUp ==
    ASSUME NEW j, IsJournal(j), NEW n \in Nat \ {0}
    PROVE  SumFunction(computeTradeDistribution(j, n)) = Cardinality(closedTradesOf(j))
<1> DEFINE C == closedTradesOf(j)
           low == Min({j[i].pnl : i \in C})
           high == Max({j[i].pnl : i \in C})
           index(i) == Min({((j[i].pnl - low) * n) \div (high - low), n - 1})
           buckets == computeTradeDistribution(j, n)
<1>1. IsFiniteSet(C) /\ \A i \in C : j[i].pnl \in Int
  BY TradesAddUp
<1>2. buckets = IF C = {} THEN << >>
                ELSE IF low = high THEN <<Cardinality(C)>>
                ELSE [b \in 1..n |-> Cardinality({i \in C : index(i) = b - 1})]
  BY DEF computeTradeDistribution
<1>3. CASE C = {}
  <2>1. DOMAIN buckets = {}
    BY <1>2, <1>3
  <2> HIDE DEF buckets
  <2>2. SumFunction(buckets) = 0
    BY <2>1, SumOfFunction, SumEmpty
  <2>3. Cardinality(C) = 0
    BY <1>3, FS_EmptySet
  <2> QED BY <2>2, <2>3 DEF buckets
<1>4. CASE C # {} /\ low = high
  <2> DEFINE count == Cardinality(C)
             one == 1
  <2>1. count \in Int
    BY <1>1, FS_CardinalityType
  <2>2. buckets = <<count>>
    BY <1>2, <1>4
  <2>3. DOMAIN buckets = {one} /\ buckets[one] = count /\ one \in {one} /\ {one} \ {one} = {}
    BY <2>2
  <2>4. IsFiniteSet({one})
    BY FS_Singleton
  <2> HIDE DEF buckets, one, count
  <2>5. SumFunctionOnSet(buckets, {one}) = buckets[one] + SumFunctionOnSet(buckets, {one} \ {one})
    <3>1. \A y \in {one} : buckets[y] \in Int
      BY <2>1, <2>3
    <3> QED BY <2>3, <2>4, <3>1, SumRemove
  <2>6. SumFunctionOnSet(buckets, {one} \ {one}) = 0
    BY <2>3, SumEmpty
  <2> QED BY <2>1, <2>3, <2>5, <2>6, SumOfFunction DEF buckets, count
<1>5. CASE C # {} /\ low # high
  <2> DEFINE pnls == {j[i].pnl : i \in C}
  <2>1. IsFiniteSet(pnls) /\ pnls # {} /\ pnls \subseteq Int /\ \A i \in C : j[i].pnl \in pnls
    <3>1. [i \in C |-> j[i].pnl] \in Surjection(C, pnls)
      BY DEF Surjection
    <3>2. IsFiniteSet(pnls)
      BY <1>1, <3>1, FS_Surjection
    <3> QED BY <1>1, <1>5, <3>2
  <2>2. /\ low \in pnls /\ \A x \in pnls : low <= x
        /\ high \in pnls /\ \A x \in pnls : x <= high
    <3> HIDE DEF pnls
    <3>1. \E x \in pnls : \A y \in pnls : x <= y
      BY <2>1, LeastMember
    <3>2. Min(pnls) \in pnls /\ \A y \in pnls : Min(pnls) <= y
      BY <3>1 DEF Min
    <3>3. Max(pnls) \in pnls /\ \A x \in pnls : Max(pnls) >= x
      BY <2>1, MaxIsGreatest
    <3>4. \A x \in pnls : x <= Max(pnls)
      BY <2>1, <3>3
    <3> QED BY <3>2, <3>3, <3>4 DEF pnls
  <2> HIDE DEF low, high, pnls
  <2>3. low \in Int /\ high \in Int /\ high - low > 0 /\ high - low \in Int
    BY <1>5, <2>1, <2>2
  <2> DEFINE place == [i \in C |-> index(i) + 1]
  <2>4. \A i \in C : index(i) \in 0..(n - 1)
    <3> SUFFICES ASSUME NEW i \in C PROVE index(i) \in 0..(n - 1)
      OBVIOUS
    <3> DEFINE width == high - low
               above == (j[i].pnl - low) * n
               q == above \div width
               last == n - 1
    <3>1. width \in Int /\ width > 0
      BY <2>3
    <3>2. above \in Int /\ above >= 0
      <4>1. j[i].pnl \in Int /\ j[i].pnl >= low
        BY <1>1, <2>1, <2>2
      <4> DEFINE x == j[i].pnl - low
      <4>2. x \in Nat
        BY <2>3, <4>1
      <4> HIDE DEF x
      <4>3. x * n \in Nat
        BY <4>2
      <4> QED BY <4>3 DEF x
    <3> HIDE DEF width, above
    <3>3. q \in Int /\ above < width * q + width
      BY <3>1, <3>2, Quotient
    <3> HIDE DEF q
    <3>4. q >= 0
      <4>1. \A w, y \in Int : w > 0 /\ y <= -1 => w * y + w <= 0
        BY Z3
      <4> QED BY <3>1, <3>2, <3>3, <4>1
    <3>5. last \in Int /\ last >= 0
      OBVIOUS
    <3> HIDE DEF last
    <3>6. Min({q, last}) \in {q, last} /\ Min({q, last}) <= last
      BY <3>3, <3>5, MinOfTwo
    <3>7. Min({q, last}) \in 0..last
      BY <3>3, <3>4, <3>5, <3>6
    <3> QED BY <3>7 DEF q, last, above, width
  <2>5. \A i \in C : place[i] \in 1..n
    <3> SUFFICES ASSUME NEW i \in C PROVE place[i] \in 1..n
      OBVIOUS
    <3> DEFINE x == index(i)
    <3>1. x \in 0..(n - 1) /\ place[i] = x + 1
      BY <2>4
    <3> HIDE DEF x, place
    <3> QED BY <3>1
  <2>6. buckets = [b \in 1..n |-> Cardinality({i \in C : place[i] = b})]
    <3>1. \A b \in 1..n : {i \in C : index(i) = b - 1} = {i \in C : place[i] = b}
      <4> SUFFICES ASSUME NEW b \in 1..n, NEW i \in C
                   PROVE  index(i) = b - 1 <=> place[i] = b
        OBVIOUS
      <4> DEFINE x == index(i)
      <4>1. x \in Int /\ place[i] = x + 1
        BY <2>4
      <4> HIDE DEF x, place
      <4>2. x = b - 1 <=> place[i] = b
        BY <4>1
      <4> QED BY <4>2 DEF x
    <3>2. buckets = [b \in 1..n |-> Cardinality({i \in C : index(i) = b - 1})]
      BY <1>2, <1>5
    <3> HIDE DEF place, index, buckets
    <3> QED BY <3>1, <3>2
  <2> HIDE DEF place, index
  <2> DEFINE D == 1..n
             G == [b \in D |-> {i \in C : place[i] = b}]
             f == [i \in C |-> 1]
  <2>7. IsFiniteSet(D) /\ DOMAIN buckets = D
    <3>1. IsFiniteSet(D)
      <4> DEFINE one == 1
      <4>1. one \in Int /\ n \in Int
        OBVIOUS
      <4> HIDE DEF one
      <4>2. IsFiniteSet(one..n)
        BY <4>1, FS_Interval
      <4> QED BY <4>2 DEF one
    <3>2. DOMAIN buckets = D
      BY <2>6
    <3> QED BY <3>1, <3>2
  <2>8. \A b \in D : G[b] = {i \in C : place[i] = b} /\ G[b] \subseteq C /\ buckets[b] = Cardinality(G[b])
    BY <2>6
  <2>9. \A i \in C : f[i] = 1
    OBVIOUS
  <2>10. \A d, e \in D : d # e => G[d] \cap G[e] = {}
    BY <2>8
  <2>11. \A x : x \in C <=> \E d \in D : x \in G[d]
    BY <2>5, <2>8
  <2> HIDE DEF G, f, buckets, D, C
  <2>12. (\A b \in D : IsFiniteSet(G[b])) /\ (\A b \in D : \A i \in G[b] : f[i] \in Int)
    <3>1. \A b \in D : IsFiniteSet(G[b])
      BY <1>1, <2>8, FS_Subset
    <3>2. \A b \in D : \A i \in G[b] : f[i] \in Int
      BY <2>8, <2>9
    <3> QED BY <3>1, <3>2
  <2>13. \A b \in D : buckets[b] = SumFunctionOnSet(f, G[b])
    <3> SUFFICES ASSUME NEW b \in D PROVE buckets[b] = SumFunctionOnSet(f, G[b])
      OBVIOUS
    <3>1. IsFiniteSet(G[b]) /\ \A i \in G[b] : f[i] = 1
      BY <2>8, <2>9, <2>12
    <3>2. SumFunctionOnSet(f, G[b]) = Cardinality(G[b])
      BY <3>1, CountIsSum
    <3> QED BY <2>8, <3>2
  <2>14. SumFunctionOnSet(buckets, D) = SumFunctionOnSet(f, C)
    BY ONLY <2>7, <2>10, <2>11, <2>12, <2>13, SumByGroups
  <2>15. SumFunctionOnSet(f, C) = Cardinality(C)
    BY <1>1, <2>9, CountIsSum
  <2> QED BY <2>7, <2>14, <2>15, SumOfFunction DEF buckets, C
<1> QED BY <1>3, <1>4, <1>5

\* Every entry is in one row of every breakdown, and every closed trade in one bucket.
THEOREM BreakdownsDoAddUp == AnalyticsSpec => []BreakdownsAddUp
<1>1. AnalyticsInv => BreakdownsAddUp
  <2> SUFFICES ASSUME AnalyticsInv, NEW r \in Replying
               PROVE  LET whole   == FiguresOf(EntriesOf(r))
                          buckets == Reply("distribution", EntriesOf(r), CurveOf(r))
                      IN  /\ \A section \in Sections \ {"performance", "distribution"} :
                                LET rows == Rows(section, EntriesOf(r))
                                IN  \A field \in {f \in Added : \A key \in DOMAIN rows : f \in DOMAIN rows[key]} :
                                       SumFunction([key \in DOMAIN rows |-> rows[key][field]]) = whole[field]
                          /\ SumFunction(buckets) = whole.totalTrades - whole.openTrades
    BY DEF BreakdownsAddUp
  <2> DEFINE j == EntriesOf(r)
  <2>1. IsJournal(j)
    BY LoadedRequest DEF Replying
  <2> HIDE DEF j
  <2>2. ASSUME NEW section \in Sections \ {"performance", "distribution"}, NEW field \in Added,
               \A key \in DOMAIN Rows(section, j) : field \in DOMAIN Rows(section, j)[key]
        PROVE  SumFunction([key \in DOMAIN Rows(section, j) |-> Rows(section, j)[key][field]])
                  = FiguresOf(j)[field]
    <3> DEFINE rows == Rows(section, j)
    <3>1. PICK keyed, D : IsBreakdown(rows, j, keyed, D)
      BY <2>1, RowsBreakDown
    <3>2. \A key \in DOMAIN rows : field \in DOMAIN rows[key]
      BY <2>2
    <3> HIDE DEF rows
    <3>3. SumFunction([key \in DOMAIN rows |-> rows[key][field]]) = FiguresOf(j)[field]
      BY <2>1, <3>1, <3>2, BreakdownAddsUp
    <3> QED BY <3>3 DEF rows
  <2>3. SumFunction(Reply("distribution", j, CurveOf(r)))
           = FiguresOf(j).totalTrades - FiguresOf(j).openTrades
    <3>1. Reply("distribution", j, CurveOf(r)) = computeTradeDistribution(j, Buckets)
      BY DEF Reply
    <3>2. SumFunction(computeTradeDistribution(j, Buckets)) = Cardinality(closedTradesOf(j))
      BY <2>1, BucketsAssumption, BucketsAddUp
    <3>3. /\ FiguresOf(j).totalTrades = Cardinality(DOMAIN j)
          /\ FiguresOf(j).openTrades = Cardinality(DOMAIN j \ closedTradesOf(j))
      BY FiguresFields
    <3> DEFINE all == Cardinality(DOMAIN j)
               closed == Cardinality(closedTradesOf(j))
               open == Cardinality(DOMAIN j \ closedTradesOf(j))
    <3>4. all = closed + open /\ open \in Nat /\ IsFiniteSet(closedTradesOf(j))
      BY <2>1, TradesAddUp
    <3>5. closed \in Nat
      BY <3>4, FS_CardinalityType
    <3> HIDE DEF all, closed, open
    <3>6. closed = all - open
      BY <3>4, <3>5
    <3> QED BY <3>1, <3>2, <3>3, <3>6 DEF all, closed, open
  <2> QED BY <2>2, <2>3 DEF j
<1>2. AnalyticsSpec => []AnalyticsInv
  BY AnalyticsInvariant
<1> QED BY <1>1, <1>2, PTL

-------------------------------------------------------------------------------
(* Analytics: types.                                                           *)

\* A request that is loading asks for one of the periods.
RangesOK == \A r \in Queries : Loading(r) => request[r].range \in Ranges

\* A step of one request leaves the others where they are.
LEMMA OneRequest ==
    ASSUME AnalyticsInv, AnalyticsTypeOK, RangesOK, NEW r \in Queries, NEW q,
           request' = [request EXCEPT ![r] = q], q.at \in {"loading", "over"},
           q.at = "loading" => q.range \in Ranges
    PROVE  (\A p \in Queries : request'[p].at \in {"idle", "loading", "over"}) /\ RangesOK'
<1>1. \A p \in Queries : request'[p] = IF p = r THEN q ELSE request[p]
  BY DEF AnalyticsInv, LoadsOK
<1>2. \A p \in Queries : request'[p].at \in {"idle", "loading", "over"}
  BY <1>1 DEF AnalyticsTypeOK
<1>3. \A p \in Queries : request'[p].at = "loading" => request'[p].range \in Ranges
  BY <1>1 DEF RangesOK, Loading
<1> QED BY <1>2, <1>3 DEF RangesOK, Loading

\* Every variable keeps its type.
LEMMA TypesKept ==
    ASSUME AnalyticsInv, AnalyticsInv', AnalyticsTypeOK, RangesOK, AnalyticsNext
    PROVE  AnalyticsTypeOK' /\ RangesOK'
<1>1. /\ journal' \in Seq(Entries) /\ DOMAIN equitySnapshots' \subseteq Snapshots
      /\ DOMAIN reports' = 1..Len(reports') /\ Len(reports') \in Nat
  BY DEF AnalyticsInv, TablesOK, IsSequence
<1>2. \A k \in DOMAIN reports' : reports'[k].after < k
  <2> SUFFICES ASSUME NEW k \in DOMAIN reports' PROVE reports'[k].after < k
    OBVIOUS
  <2>1. reports'[k].after \in 0..(k - 1)
    BY DEF AnalyticsInv, ReportsOK
  <2>2. k \in Int
    BY <1>1
  <2> QED BY <2>1, <2>2
<1> DEFINE Goal == /\ Len(journal') <= MaxTrades
                   /\ \A r \in Queries : request'[r].at \in {"idle", "loading", "over"}
                   /\ \A k \in DOMAIN reports' : reports'[k].range \in Ranges
                   /\ RangesOK'
<1>3. SUFFICES Goal
  BY <1>1, <1>2 DEF AnalyticsTypeOK
<1>4. Len(journal) <= MaxTrades /\ Len(journal) \in Nat /\ MaxTrades \in Nat
  BY BoundsAssumption DEF AnalyticsTypeOK
<1>5. \A r \in Queries : request[r].at \in {"idle", "loading", "over"}
  BY DEF AnalyticsTypeOK
<1>6. \A k \in DOMAIN reports : reports[k].range \in Ranges
  BY DEF AnalyticsTypeOK
<1>7. request' = request => /\ \A r \in Queries : request'[r].at \in {"idle", "loading", "over"}
                            /\ RangesOK'
  BY <1>5 DEF RangesOK, Loading
<1>8. ASSUME NEW trade \in Trades, TradeRecorded(trade) PROVE Goal
  <2>1. /\ journal' = Append(journal, [trade |-> trade, status |-> "open", pnl |-> null])
        /\ Len(journal) < MaxTrades /\ request' = request /\ reports' = reports
    BY <1>8 DEF TradeRecorded
  <2>2. Len(journal') = Len(journal) + 1
    BY <2>1 DEF AnalyticsTypeOK
  <2> QED BY <1>4, <1>6, <1>7, <2>1, <2>2
<1>9. ASSUME NEW i \in DOMAIN journal, NEW pnl \in Pnls, TradeClosed(i, pnl) PROVE Goal
  <2>1. /\ journal' = [journal EXCEPT ![i].status = "closed", ![i].pnl = pnl]
        /\ request' = request /\ reports' = reports
    BY <1>9 DEF TradeClosed
  <2>2. Len(journal') = Len(journal)
    <3>1. DOMAIN journal' = DOMAIN journal
      BY <2>1
    <3>2. DOMAIN journal = 1..Len(journal) /\ DOMAIN journal' = 1..Len(journal') /\ Len(journal') \in Nat
      BY <1>1 DEF AnalyticsTypeOK
    <3>3. \A a, b \in Nat : 1..a = 1..b => a = b
      <4> SUFFICES ASSUME NEW a \in Nat, NEW b \in Nat, 1..a = 1..b, a # b PROVE FALSE
        OBVIOUS
      <4>1. CASE a < b
        <5>1. b \in 1..b /\ b \notin 1..a
          BY <4>1
        <5> QED BY <5>1
      <4>2. CASE b < a
        <5>1. a \in 1..a /\ a \notin 1..b
          BY <4>2
        <5> QED BY <5>1
      <4> QED BY <4>1, <4>2
    <3> QED BY <1>4, <3>1, <3>2, <3>3
  <2> QED BY <1>4, <1>6, <1>7, <2>1, <2>2
<1>10. ASSUME NEW asOf \in Moments, NEW equity \in Equities, SnapshotTaken(asOf, equity) PROVE Goal
  BY <1>4, <1>6, <1>7, <1>10 DEF SnapshotTaken
<1>11. ASSUME NEW r \in Queries, NEW range \in Ranges, Begin(r, range) PROVE Goal
  <2> DEFINE q == [at |-> "loading", range |-> range, entries |-> null, curve |-> null,
                   stored |-> Len(reports)]
  <2>1. request' = [request EXCEPT ![r] = q] /\ UNCHANGED <<journal, reports>>
    BY <1>11 DEF Begin
  <2>2. q.at = "loading" /\ q.range \in Ranges
    OBVIOUS
  <2> HIDE DEF q
  <2>3. (\A p \in Queries : request'[p].at \in {"idle", "loading", "over"}) /\ RangesOK'
    BY <2>1, <2>2, OneRequest
  <2> QED BY <1>4, <1>6, <2>1, <2>3
<1>12. ASSUME NEW r \in Queries, UNCHANGED <<journal, reports>>, NEW q, q.at = "loading",
              q.range \in Ranges, request' = [request EXCEPT ![r] = q]
       PROVE  Goal
  <2>1. (\A x \in Queries : request'[x].at \in {"idle", "loading", "over"}) /\ RangesOK'
    BY <1>12, OneRequest
  <2> QED BY <1>4, <1>6, <1>12, <2>1
<1>13. ASSUME NEW r \in Queries, ReadEntries(r) PROVE Goal
  <2> DEFINE p == request[r]
  <2>1. PICK value : request' = [request EXCEPT ![r].entries = value]
    BY <1>13 DEF ReadEntries
  <2> DEFINE q == [at |-> "loading", range |-> p.range, entries |-> value, curve |-> p.curve,
                   stored |-> p.stored]
  <2>2. Loading(r) /\ UNCHANGED <<journal, reports>>
    BY <1>13 DEF ReadEntries
  <2>3. IsLoad(p) /\ p.range \in Ranges
    BY <2>2 DEF AnalyticsInv, LoadsOK, RangesOK
  <2>4. request' = [request EXCEPT ![r] = q]
    <3>1. p = [at |-> "loading", range |-> p.range, entries |-> p.entries, curve |-> p.curve,
              stored |-> p.stored]
      BY <2>3 DEF IsLoad
    <3>2. [p EXCEPT !.entries = value] = q
      BY <3>1
    <3>3. request' = [request EXCEPT ![r] = [p EXCEPT !.entries = value]]
      BY <2>1
    <3> QED BY <3>2, <3>3
  <2>5. q.at = "loading" /\ q.range = p.range
    OBVIOUS
  <2> HIDE DEF p, q
  <2> QED BY <1>12, <2>2, <2>3, <2>4, <2>5
<1>14. ASSUME NEW r \in Queries, ReadSnapshots(r) PROVE Goal
  <2> DEFINE p == request[r]
  <2>1. PICK value : request' = [request EXCEPT ![r].curve = value]
    BY <1>14 DEF ReadSnapshots
  <2> DEFINE q == [at |-> "loading", range |-> p.range, entries |-> p.entries, curve |-> value,
                   stored |-> p.stored]
  <2>2. Loading(r) /\ UNCHANGED <<journal, reports>>
    BY <1>14 DEF ReadSnapshots
  <2>3. IsLoad(p) /\ p.range \in Ranges
    BY <2>2 DEF AnalyticsInv, LoadsOK, RangesOK
  <2>4. request' = [request EXCEPT ![r] = q]
    <3>1. p = [at |-> "loading", range |-> p.range, entries |-> p.entries, curve |-> p.curve,
              stored |-> p.stored]
      BY <2>3 DEF IsLoad
    <3>2. [p EXCEPT !.curve = value] = q
      BY <3>1
    <3>3. request' = [request EXCEPT ![r] = [p EXCEPT !.curve = value]]
      BY <2>1
    <3> QED BY <3>2, <3>3
  <2>5. q.at = "loading" /\ q.range = p.range
    OBVIOUS
  <2> HIDE DEF p, q
  <2> QED BY <1>12, <2>2, <2>3, <2>4, <2>5
<1>15. ASSUME NEW r \in Queries, request' = [request EXCEPT ![r] = [at |-> "over"]]
       PROVE  (\A x \in Queries : request'[x].at \in {"idle", "loading", "over"}) /\ RangesOK'
  <2> DEFINE q == [at |-> "over"]
  <2>1. q.at = "over" /\ request' = [request EXCEPT ![r] = q]
    BY <1>15
  <2> HIDE DEF q
  <2> QED BY <2>1, OneRequest
<1>16. ASSUME NEW r \in Queries, Respond(r) \/ FailQuery(r) PROVE Goal
  BY <1>4, <1>6, <1>15, <1>16 DEF Respond, FailQuery
<1>17. ASSUME NEW r \in Queries, Store(r) PROVE Goal
  <2> DEFINE row == ReportRow(r)
  <2>1. /\ reports' = Append(reports, row) /\ Loading(r) /\ journal' = journal
        /\ request' = [request EXCEPT ![r] = [at |-> "over"]]
    BY <1>17 DEF Store, Loaded
  <2>2. row.range \in Ranges
    BY <2>1 DEF ReportRow, RangesOK
  <2> HIDE DEF row
  <2>3. IsSequence(reports)
    BY DEF AnalyticsInv, TablesOK
  <2>4. /\ DOMAIN reports = 1..Len(reports) /\ DOMAIN reports' = 1..(Len(reports) + 1)
        /\ Len(reports) \in Nat /\ reports'[Len(reports) + 1] = row
        /\ \A i \in 1..Len(reports) : reports'[i] = reports[i]
    BY <2>1, <2>3, Appended
  <2>5. \A k \in DOMAIN reports' : reports'[k].range \in Ranges
    <3> SUFFICES ASSUME NEW k \in DOMAIN reports' PROVE reports'[k].range \in Ranges
      OBVIOUS
    <3>1. CASE k = Len(reports) + 1
      BY <2>2, <2>4, <3>1
    <3>2. CASE k # Len(reports) + 1
      <4>1. k \in DOMAIN reports /\ reports'[k] = reports[k]
        BY <2>4, <3>2
      <4> QED BY <1>6, <4>1
    <3> QED BY <3>1, <3>2
  <2> QED BY <1>4, <1>15, <2>1, <2>5
<1> HIDE DEF Goal
<1> QED BY <1>8, <1>9, <1>10, <1>11, <1>13, <1>14, <1>16, <1>17 DEF AnalyticsNext

\* Every variable of services/analytics has its type.
THEOREM AnalyticsTypes == AnalyticsSpec => []AnalyticsTypeOK
<1> DEFINE Types == AnalyticsTypeOK /\ RangesOK
<1>1. AnalyticsInit => Types
  <2> SUFFICES ASSUME AnalyticsInit PROVE Types
    OBVIOUS
  <2>1. DOMAIN equitySnapshots = {}
    BY DEF AnalyticsInit, EmptyTable
  <2>2. journal \in Seq(Entries) /\ Len(journal) <= MaxTrades
    BY BoundsAssumption DEF AnalyticsInit
  <2> QED BY <2>1, <2>2 DEF AnalyticsInit, AnalyticsTypeOK, RangesOK, Loading
<1>2. AnalyticsInv /\ AnalyticsInv' /\ Types /\ [AnalyticsNext]_analyticsVars => Types'
  <2> SUFFICES ASSUME AnalyticsInv, AnalyticsInv', Types, [AnalyticsNext]_analyticsVars PROVE Types'
    OBVIOUS
  <2>1. CASE AnalyticsNext
    BY <2>1, TypesKept
  <2>2. CASE UNCHANGED analyticsVars
    BY <2>2 DEF analyticsVars, AnalyticsTypeOK, RangesOK, Loading
  <2> QED BY <2>1, <2>2
<1>3. Types => AnalyticsTypeOK
  OBVIOUS
<1>4. AnalyticsSpec => []AnalyticsInv
  BY AnalyticsInvariant
<1> HIDE DEF Types
<1> QED BY <1>1, <1>2, <1>3, <1>4, PTL DEF AnalyticsSpec

===============================================================================
