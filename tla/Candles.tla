------------------------------ MODULE Candles ------------------------------
(***************************************************************************)
(* The market data workers: they read the trades of a market behind the    *)
(* stored position of the projection, and in one transaction add them to   *)
(* the candles, refresh the statistics of the market and advance the       *)
(* position.  The position is read before that transaction and without a   *)
(* lock.                                                                   *)
(*                                                                         *)
(* Trades are numbered in the order of (created_at, id), which is fixed    *)
(* before their transactions commit.  One interval stands for the six of   *)
(* trade.SupportedIntervals, and the number of trades for the volumes,     *)
(* which add up alike.                                                     *)
(***************************************************************************)
EXTENDS Naturals, Sequences, SequencesExt, FiniteSetsExt

CONSTANTS
    TradePrices,   \* the price of each trade: a sequence
    TradeMinutes,  \* the open_time of its candle: a sequence
    Projectors,    \* market data workers
    CandleBatch,   \* MARKETDATA_BATCH_SIZE
    StatsWindow,   \* 1440 candles of a minute
    ListMax,       \* the largest limit ListCandles accepts: 1000
    ListDefault,   \* what it takes instead of a larger one: 500
    CandleFaults   \* failures of the workers and resets by the operator (bound)

\* A batch size of zero or less is replaced by a default of the repository.
ASSUME CandlesAssumption ==
    /\ TradePrices \in Seq(Nat)
    /\ DOMAIN TradeMinutes = DOMAIN TradePrices
    /\ CandleBatch \in Nat \ {0}
    /\ CandleFaults \in Nat

Trades == DOMAIN TradePrices
Minutes == Range(TradeMinutes)

VARIABLES
    committed, \* exchange_trades
    candle,    \* exchange_candles
    position,  \* the row of exchange_projection_offsets: sequence and last trade
    projector, \* what each worker has read
    stats,     \* the 24h columns of exchange_markets
    counted,   \* history: how often a trade was added to its candle: 0, 1 or 2 (often)
    late,      \* history: trades that committed behind what was already read
    raced,     \* history: a batch was added after the position had moved, or was reset
    mishaps    \* failures and resets so far

candleVars == <<committed, candle, position, projector, stats, counted, late, raced, mishaps>>

NoCandle == [open |-> 0, high |-> 0, low |-> 0, close |-> 0, last |-> 0, count |-> 0]
NoPosition == [sequence |-> 0, last |-> 0]
NoBatchRead == [step |-> "idle", from |-> NoPosition, trades |-> << >>]
NoStats == [lastPrice |-> 0, open |-> 0, high |-> 0, low |-> 0, volume |-> 0]

CandlesInit ==
    /\ committed = {}
    /\ candle = [m \in Minutes |-> NoCandle]
    /\ position = NoPosition
    /\ projector = [p \in Projectors |-> NoBatchRead]
    /\ stats = NoStats
    /\ counted = [t \in Trades |-> 0]
    /\ late = {}
    /\ raced = FALSE
    /\ mishaps = 0

-----------------------------------------------------------------------------
(* Candles and statistics.                                                 *)

larger(a, b) == IF a > b THEN a ELSE b
smaller(a, b) == IF a < b THEN a ELSE b

updateCandle(c, t) ==
    IF c.count = 0
    THEN [open |-> TradePrices[t], high |-> TradePrices[t], low |-> TradePrices[t],
          close |-> TradePrices[t], last |-> t, count |-> 1]
    ELSE [c EXCEPT !.high = larger(@, TradePrices[t]), !.low = smaller(@, TradePrices[t]),
                   !.close = IF t >= c.last THEN TradePrices[t] ELSE @,
                   !.last = larger(@, t), !.count = @ + 1]

UpdateCandles(trades, cs) ==
    FoldLeft(LAMBDA acc, t : [acc EXCEPT ![TradeMinutes[t]] = updateCandle(@, t)], cs, trades)

\* The latest candles, oldest first; a limit that is too large becomes the default.
listLimit(limit) == IF limit > ListMax THEN ListDefault ELSE limit

ListCandles(cs, limit) ==
    LET all == SetToSortSeq({m \in DOMAIN cs : cs[m].count > 0}, <)
    IN  [i \in 1..smaller(Len(all), listLimit(limit)) |->
            cs[all[Len(all) - smaller(Len(all), listLimit(limit)) + i]]]

exchangeMarketStats(listed) ==
    [lastPrice |-> listed[Len(listed)].close, open |-> listed[1].open,
     high |-> Max({listed[i].high : i \in DOMAIN listed}),
     low |-> Min({listed[i].low : i \in DOMAIN listed}),
     volume |-> FoldLeft(LAMBDA n, c : n + c.count, 0, listed)]

-----------------------------------------------------------------------------
(* The position.                                                           *)

\* A lower sequence is ignored, the same one is accepted for the same trade only.
advance(pos) ==
    IF pos.sequence > position.sequence THEN pos ELSE position

conflicts(pos) ==
    /\ pos.sequence = position.sequence
    /\ position.last # 0
    /\ pos.last # position.last

-----------------------------------------------------------------------------
(* Actions.                                                                *)

CommitTrade(t) ==
    /\ t \notin committed
    /\ committed' = committed \cup {t}
    /\ late' = IF \/ t < position.last
                  \/ \E p \in Projectors :
                        \E u \in {projector[p].from.last} \cup Range(projector[p].trades) : t < u
               THEN late \cup {t} ELSE late
    /\ UNCHANGED <<candle, position, projector, stats, counted, raced, mishaps>>

GetProjectionOffset(p) ==
    /\ projector[p].step = "idle"
    /\ projector' = [projector EXCEPT ![p] = [NoBatchRead EXCEPT !.step = "list",
                                                                 !.from = position]]
    /\ UNCHANGED <<committed, candle, position, stats, counted, late, raced, mishaps>>

\* Mutant: the trade at the position is read again.
tradesAfterInclusive(last) == {t \in committed : t >= last}

tradesAfter(last) == {t \in committed : t > last}

\* In the order of their numbers, up to n of them.
firstOf(S, n) ==
    CHOOSE q \in [1..smaller(n, Cardinality(S)) -> S] :
        /\ \A i, j \in DOMAIN q : i < j => q[i] < q[j]
        /\ \A t \in S \ Range(q) : \A i \in DOMAIN q : q[i] < t

ListTradesAfter(p) ==
    /\ projector[p].step = "list"
    /\ projector' = [projector EXCEPT ![p] =
          IF tradesAfter(projector[p].from.last) = {} THEN NoBatchRead
          ELSE [@ EXCEPT !.step = "project",
                         !.trades = firstOf(tradesAfter(projector[p].from.last), CandleBatch)]]
    /\ UNCHANGED <<committed, candle, position, stats, counted, late, raced, mishaps>>

addOnce(n) == IF n < 2 THEN n + 1 ELSE 2

\* The position the batch of a worker leads to.
reached(batch) ==
    [sequence |-> batch.from.sequence + Len(batch.trades),
     last |-> batch.trades[Len(batch.trades)]]

\* Mutant: the position is advanced whether or not the transaction goes through.
projectUnlessConflictLoosely(p) ==
    /\ \/ /\ candle' = UpdateCandles(projector[p].trades, candle)
          /\ counted' = [t \in Trades |-> IF t \in Range(projector[p].trades)
                                          THEN addOnce(counted[t]) ELSE counted[t]]
          /\ stats' = exchangeMarketStats(ListCandles(candle', StatsWindow))
       \/ UNCHANGED <<candle, counted, stats>>
    /\ position' = advance(reached(projector[p]))

\* The transaction of processMarketCandles.
projectUnlessConflict(p) ==
    IF conflicts(reached(projector[p]))
    THEN UNCHANGED <<candle, counted, stats, position>>
    ELSE /\ candle' = UpdateCandles(projector[p].trades, candle)
         /\ counted' = [t \in Trades |-> IF t \in Range(projector[p].trades)
                                         THEN addOnce(counted[t]) ELSE counted[t]]
         /\ stats' = exchangeMarketStats(ListCandles(candle', StatsWindow))
         /\ position' = advance(reached(projector[p]))

ProjectTrades(p) ==
    /\ projector[p].step = "project"
    /\ projectUnlessConflict(p)
    /\ raced' = (raced \/ projector[p].from # position)
    /\ projector' = [projector EXCEPT ![p] = NoBatchRead]
    /\ UNCHANGED <<committed, late, mishaps>>

\* An error or a crash: what was read is forgotten, the transaction rolled back.
ProjectorFails(p) ==
    /\ projector[p].step # "idle"
    /\ mishaps < CandleFaults
    /\ mishaps' = mishaps + 1
    /\ projector' = [projector EXCEPT ![p] = NoBatchRead]
    /\ UNCHANGED <<committed, candle, position, stats, counted, late, raced>>

\* The operator deletes the row of the projection to have the candles rebuilt.
ResetPosition ==
    /\ position # NoPosition
    /\ mishaps < CandleFaults
    /\ mishaps' = mishaps + 1
    /\ position' = NoPosition
    /\ raced' = TRUE
    /\ UNCHANGED <<committed, candle, projector, stats, counted, late>>

ProjectorStep(p) ==
    GetProjectionOffset(p) \/ ListTradesAfter(p) \/ ProjectTrades(p)

CandlesNext ==
    \/ \E t \in Trades : CommitTrade(t)
    \/ \E p \in Projectors : ProjectorStep(p) \/ ProjectorFails(p)
    \/ ResetPosition

\* The poll loop runs for ever, and each of its calls returns.
CandlesFairness == \A p \in Projectors : WF_candleVars(ProjectorStep(p))

-----------------------------------------------------------------------------
(* Properties.                                                             *)

\* The position and the candles move in one transaction: a trade the position has
\* passed is in its candle, and once only, unless it committed late or another worker
\* had moved the position since it was read.
CountedOnce ==
    \A t \in committed :
        /\ t \in late \/ t > position.last \/ counted[t] >= 1
        /\ raced \/ counted[t] <= 1

\* Whatever order the batches come in, a candle is what its trades say: its highest
\* and lowest price, and the price of the trade made last; it opens with the first one
\* and has the volume of all of them, unless a batch was added when the position had moved.
CandlesMatchTrades ==
    \A m \in Minutes :
        LET in == {t \in Trades : counted[t] > 0 /\ TradeMinutes[t] = m}
        IN  IF in = {} THEN candle[m] = NoCandle
            ELSE /\ candle[m].high = Max({TradePrices[t] : t \in in})
                 /\ candle[m].low = Min({TradePrices[t] : t \in in})
                 /\ candle[m].close = TradePrices[Max(in)]
                 /\ raced \/ /\ candle[m].open = TradePrices[Min(in)]
                             /\ candle[m].count = Cardinality(in)

\* No trade that commits in time is passed over for ever, whatever fails.
TradesGetCounted == <>[](\A t \in committed : counted[t] > 0 \/ t \in late)

\* However batches overlap, fail and commit late, the candles are what the trades
\* behind the position say.
CandlesAreRight == CountedOnce /\ CandlesMatchTrades
=============================================================================
