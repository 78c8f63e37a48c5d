----------------------------- MODULE MarketTicks ------------------------------
(***************************************************************************)
(* The market_ticks table and the two statements the services run on it:   *)
(* the insert of services/market-data and the "latest price" query that    *)
(* services/paper-trading and services/portfolio both hold a copy of.      *)
(* ticks[s] is the table of one symbol: exchange timestamp -> price.       *)
(***************************************************************************)
EXTENDS Naturals, Tables

\* Nothing has been ingested.
NoTicks(Symbols) == [s \in Symbols |-> EmptyTable]

IsTicks(ticks, Symbols, Times, Prices) ==
    /\ ticks = [s \in Symbols |-> ticks[s]]
    /\ \A s \in Symbols : IsTable(ticks[s], Times, Prices)

\* INSERT ... ON CONFLICT (symbol, tick_timestamp) DO NOTHING: a tick the table has
\* is skipped, whatever its price.
WithTick(ticks, s, t, p) ==
    IF t \in DOMAIN ticks[s] THEN ticks ELSE [ticks EXCEPT ![s] = Put(@, t, p)]

\* ORDER BY tick_timestamp DESC LIMIT 1: by when the market printed the tick, not by
\* when it was ingested.  Empty when the symbol has no tick.
LatestTimes_Unordered(ticks, s) == DOMAIN ticks[s]
LatestTimes(ticks, s) ==
    {t \in DOMAIN ticks[s] : \A u \in DOMAIN ticks[s] : u <= t}

===============================================================================
