------------------------------- MODULE Orders -------------------------------
(***************************************************************************)
(* The order service of one market: placing, matching, canceling and       *)
(* triggering orders, each as the database transaction the service runs.   *)
(*                                                                         *)
(* A placement is three steps: BeginPlace looks the command and the client *)
(* order id up, LockPlace appends to the command log, which locks the      *)
(* market's command sequence row until the end of the transaction, and     *)
(* reads the last trade, CommitPlace does the rest.  The other operations  *)
(* do not take that lock and may commit in between.  A transaction that    *)
(* meets an error is rolled back: it is not a step.                        *)
(*                                                                         *)
(* Here the matching transactions run one after another: CommitPlace,      *)
(* MatchOrder and TriggerStops are one step each, from the query for       *)
(* candidates to the commit.  In the code they may overlap, and under READ *)
(* COMMITTED the query of one misses the order another has yet to commit.  *)
(* That is in MatchLocks, statement by statement; what is said here of     *)
(* crossing orders and of priority is said of transactions in series.      *)
(*                                                                         *)
(* The working copy of a transaction extends that of Ledger by             *)
(*    f.orders   exchange_orders; exchange_active_orders is written        *)
(*               together with it and is the part isBookableOrder selects; *)
(*    f.last     the price of the last trade, 0 if there is none;          *)
(*    f.levels   exchange_price_levels;                                    *)
(*    f.touched  the price levels to refresh (levelTracker).               *)
(***************************************************************************)
EXTENDS Matching

CONSTANTS
    Requests,       \* the placement requests clients may send, any number of
                    \* times each and concurrently
    TriggerPrices,  \* prices the stop trigger endpoint may be called with
    Mode,           \* MATCHING_MODE: "sync" or "async"
    BandBps,        \* EXCHANGE_PRICE_BAND_BPS, 0 for no price band
    MinActive,      \* minimumActiveOrderQuantity
    CandidateLimit, \* makers fetched in one round of matching (500)
    Opening         \* every user's available balance of both assets

Request == [no : Nat, command : Nat, client : Nat, user : Users, side : Sides,
            type : {"limit", "market", "stop_limit"}, tif : {"gtc", "ioc"},
            price : Nat \ {0}, stop : Nat, qty : Nat \ {0}]

\* What buildOrder accepts.
validRequest(r) ==
    /\ Mul(r.price, r.qty) > 0
    /\ r.type = "market" => r.tif = "ioc"
    /\ r.type = "stop_limit" => r.tif = "gtc" /\ r.stop > 0
    /\ r.type # "stop_limit" => r.stop = 0

ASSUME OrdersAssumption ==
    /\ Requests \subseteq Request
    /\ \A r \in Requests : validRequest(r)
    /\ TriggerPrices \subseteq Nat \ {0}
    /\ Mode \in {"sync", "async"}
    /\ BandBps \in Nat
    /\ MinActive \in Nat \ {0}
    /\ CandidateLimit \in Nat \ {0}
    /\ Opening \in Nat

VARIABLES
    bal, res, \* exchange_balances and exchange_reservations
    orders,   \* exchange_orders, by sequence id
    cmds,     \* exchange_order_commands: command id |-> request and order
    last,     \* price of the last trade, 0 if none
    levels,   \* exchange_price_levels
    pc        \* where each request's placement stands: idle, absent (looked up and
              \* not found) or locked (holds the command sequence row)

vars == <<bal, res, orders, cmds, last, levels, pc>>

-----------------------------------------------------------------------------
Prices == {r.price : r \in Requests}
LevelKeys == Sides \X Prices

Statuses == {"none", "pending_match", "pending_stop", "open",
             "partially_filled", "filled", "canceled", "expired"}
Live == {"pending_match", "pending_stop", "open", "partially_filled"}

Order == [id : OrderIds, client : Nat, user : Users, side : Sides,
          type : {"limit", "market", "stop_limit"}, tif : {"gtc", "ioc"},
          status : Statuses, price : Nat, stop : Nat, qty : Nat,
          filled : Nat, remaining : Nat]

NoOrder(o) == [id |-> o, client |-> 0, user |-> 1, side |-> "buy",
               type |-> "limit", tif |-> "gtc", status |-> "none",
               price |-> 0, stop |-> 0, qty |-> 0, filled |-> 0, remaining |-> 0]

EmptyLevel == [quantity |-> 0, count |-> 0, first |-> 0]

\* A client sends its own command id or, with command 0, none: then the client
\* order id is the command id.
orderCommandID(r) == IF r.command # 0 THEN r.command ELSE r.client

CommandIds == {orderCommandID(r) : r \in Requests}

\* What the payload hash covers: the order asked for, not the delivery.
orderCommandPayload(r) ==
    [client |-> r.client, user |-> r.user, side |-> r.side, type |-> r.type,
     tif |-> r.tif, price |-> r.price, stop |-> r.stop, qty |-> r.qty]

NoCommand == [order |-> 0]

Init ==
    /\ bal = [k \in AccountKeys |-> Row(Opening, 0, 0)]
    /\ res = [o \in OrderIds |-> NoReservation]
    /\ orders = [o \in OrderIds |-> NoOrder(o)]
    /\ cmds = [c \in CommandIds |-> NoCommand]
    /\ last = 0
    /\ levels = [k \in LevelKeys |-> EmptyLevel]
    /\ pc = [r \in Requests |-> "idle"]

Tables == [ok |-> TRUE, bal |-> bal, res |-> res, orders |-> orders,
           last |-> last, levels |-> levels, touched |-> {}]

-----------------------------------------------------------------------------
(* The active book.                                                        *)

isBookableOrder(o) ==
    o.type # "market" /\ o.status \in OpenStatuses /\ o.remaining >= MinActive

activeOrders(os) == {o \in OrderIds : isBookableOrder(os[o])}

SaveOrder(f, o) == [f EXCEPT !.orders[o.id] = o]

touch(f, o) == [f EXCEPT !.touched = @ \cup {<<o.side, o.price>>}]

\* Mutant: the oldest order comes first, whatever its price.
betterOldestFirst(a, b) == a.id < b.id

\* Price-time priority among orders of one side.
better(a, b) ==
    IF a.price = b.price THEN a.id < b.id
    ELSE IF a.side = "sell" THEN a.price < b.price ELSE a.price > b.price

\* The first CandidateLimit of these orders in priority order.
firstInLine(found) ==
    [i \in 1..Min({Cardinality(found), CandidateLimit}) |->
        CHOOSE c \in found : Cardinality({d \in found : better(d, c)}) = i - 1]

ListMatchCandidates(os, taker) ==
    firstInLine({os[o] : o \in {x \in activeOrders(os) :
        /\ x # taker.id
        /\ os[x].side = oppositeSide(taker.side)
        /\ IF taker.side = "buy" THEN os[x].price <= taker.price
                                 ELSE os[x].price >= taker.price}})

\* RefreshPriceLevels at the touched keys, then PruneStalePriceLevels.
levelSum(os, at) ==
    IF at = {} THEN EmptyLevel
    ELSE [quantity |-> SumFunction([o \in at |-> os[o].remaining]),
          count |-> Cardinality(at), first |-> Min(at)]

levelOf(os, k) ==
    levelSum(os, {o \in activeOrders(os) : os[o].side = k[1] /\ os[o].price = k[2]})

\* Mutant: empty levels are pruned, the others are not refreshed.
refreshByPruning(f) ==
    [f EXCEPT !.levels =
        [k \in LevelKeys |-> IF levelOf(f.orders, k).count = 0 THEN EmptyLevel ELSE @[k]]]

refreshBookProjection(f) ==
    [f EXCEPT !.levels =
        [k \in LevelKeys |-> IF k \in f.touched \/ levelOf(f.orders, k).count = 0
                             THEN levelOf(f.orders, k) ELSE @[k]]]

Commit(f) ==
    /\ f.ok
    /\ bal' = f.bal
    /\ res' = f.res
    /\ orders' = f.orders
    /\ last' = f.last
    /\ levels' = f.levels

-----------------------------------------------------------------------------
(* Matching one order inside a transaction.                                *)

\* A market sell crosses every bid: it is matched at the smallest price.
effectiveMatchTaker(o) ==
    IF o.type = "market" /\ o.side = "sell" THEN [o EXCEPT !.price = 1] ELSE o

isImmediateOnly(o) == o.type = "market" \/ o.tif = "ioc"

\* The makers are saved with what they have left; the taker keeps its own price
\* and, when nothing came of the round, its status.
applyRound(m, result) ==
    IF result.err THEN [m EXCEPT !.f = Fail(@)]
    ELSE [f |-> FoldLeft(LAMBDA f, o : SaveOrder(touch(f, o), o), m.f, result.makers),
          taker |-> IF result.trades # <<>> \/ result.taker.status = "expired"
                    THEN [result.taker EXCEPT !.price = m.taker.price] ELSE m.taker,
          trades |-> m.trades \o result.trades,
          done |-> result.trades = <<>>]

matchAgainst(m, taker, makers) ==
    IF makers = <<>> THEN [m EXCEPT !.done = TRUE]
    ELSE applyRound(m, MatchLimit(taker, makers))

\* One round of the match loop: fetch candidates, match, save the makers.
matchRound(m) ==
    IF m.done \/ ~m.f.ok \/ m.taker.remaining <= 0 THEN m
    ELSE matchAgainst(m, effectiveMatchTaker(m.taker),
                      ListMatchCandidates(m.f.orders, effectiveMatchTaker(m.taker)))

finishTaker(o) ==
    IF o.remaining > 0 /\ isImmediateOnly(o) THEN [o EXCEPT !.status = "expired"]
    ELSE restingTaker(o)

\* Every round but the last uses up an order, so the loop needs no more rounds
\* than there are orders.
match(f, taker) ==
    [FoldLeft(LAMBDA m, i : matchRound(m),
              [f |-> touch(f, taker), taker |-> taker, trades |-> <<>>, done |-> FALSE],
              [i \in 1..(MaxOrders + 1) |-> i])
        EXCEPT !.taker = finishTaker(@)]

tradeOrders(f, t, maker, taker) ==
    IF taker.side = "buy" THEN settleTrade(f, t, taker, maker)
                          ELSE settleTrade(f, t, maker, taker)

SettleTrades(f, trades) ==
    FoldLeft(LAMBDA x, t : tradeOrders(x, t, x.orders[t.maker], x.orders[t.taker]),
             f, trades)

\* A match is saved and its trades are settled.
settleMatch(m) == SettleTrades(SaveOrder(m.f, m.taker), m.trades)

\* CreateTrades, as far as LastTrade sees it.
CreateTrades(f, trades) ==
    IF trades = <<>> THEN f ELSE [f EXCEPT !.last = Last(trades).price]

lastTradePrice(trades) == IF trades = <<>> THEN 0 ELSE Last(trades).price

\* Mutant: only a market order's rest is released.
shouldReleaseMarketRest(o) == o.status = "expired" /\ o.remaining > 0 /\ o.type = "market"

shouldReleaseUnfilled(o) == o.status = "expired" /\ o.remaining > 0

releaseUnfilled(f, o) ==
    IF shouldReleaseUnfilled(o) THEN ReleaseOrderFunds(f, o) ELSE f

-----------------------------------------------------------------------------
(* Stop orders.                                                            *)

\* Both comparisons are exact: last * (1 -+ bps/10000).
withinPriceBand(o, reference) ==
    \/ BandBps = 0
    \/ reference = 0
    \/ /\ o.price * 10000 >= reference * (10000 - BandBps)
       /\ o.price * 10000 <= reference * (10000 + BandBps)

stopTriggered(o, price) ==
    IF o.side = "buy" THEN price >= o.stop ELSE price <= o.stop

stopPriceValid(o, price) ==
    \/ o.type # "stop_limit"
    \/ price = 0
    \/ IF o.side = "buy" THEN o.stop > price ELSE o.stop < price

inSequence(ids) ==
    [i \in 1..Cardinality(ids) |->
        CHOOSE o \in ids : Cardinality({x \in ids : x < o}) = i - 1]

ListPendingStops(os) == inSequence({o \in OrderIds : os[o].status = "pending_stop"})

\* A triggered stop is matched like a new order; what a self-trade leaves of it
\* is not released here.
recordStop(m) == CreateTrades(settleMatch(m), m.trades)

activateStop(f, o, price) ==
    IF ~f.ok \/ ~stopTriggered(f.orders[o], price) THEN f
    ELSE IF ~withinPriceBand(f.orders[o], f.last) THEN Fail(f)
    ELSE recordStop(match(f, [f.orders[o] EXCEPT !.status = "open"]))

activateTriggeredStops(f, price) ==
    IF price = 0 THEN f
    ELSE FoldLeft(LAMBDA x, o : activateStop(x, o, price), f,
                  ListPendingStops(f.orders))

\* What follows a match of a new order, up to the commit.
recordMatch(m) ==
    refreshBookProjection(activateTriggeredStops(
        CreateTrades(releaseUnfilled(settleMatch(m), m.taker), m.trades),
        lastTradePrice(m.trades)))

\* Match an order that is on its way into the book: the part Place and
\* MatchOrder have in common.
matchAndSettle(f, o) == recordMatch(match(f, o))

-----------------------------------------------------------------------------
(* Placement.                                                              *)

placed(os) == {o \in OrderIds : os[o].status # "none"}

FindOrderByClientID(os, r) ==
    {o \in placed(os) : os[o].user = r.user /\ os[o].client = r.client}

commandExists(r) == cmds[orderCommandID(r)] # NoCommand

\* The command exists, for another payload: the request is refused.
commandConflict(r) ==
    /\ commandExists(r)
    /\ cmds[orderCommandID(r)].payload # orderCommandPayload(r)

\* Mutant: the tables have no unique index.
noUniqueKeys(r) == TRUE

\* The inserts of the command and of the order under their unique indexes.
uniqueKeysFree(r) == ~commandExists(r) /\ FindOrderByClientID(orders, r) = {}

\* Every earlier order of the market has a smaller sequence id.
NextOrderSequence(os) == Cardinality(placed(os)) + 1

buildOrder(r, id) ==
    [id |-> id, client |-> r.client, user |-> r.user, side |-> r.side,
     type |-> r.type, tif |-> r.tif,
     status |-> IF r.type = "stop_limit" THEN "pending_stop" ELSE "open",
     price |-> r.price, stop |-> r.stop, qty |-> r.qty, filled |-> 0,
     remaining |-> r.qty]

\* Place after the reservation: a stop waits, in async mode a match job is left.
enterBook(f, new) ==
    IF ~f.ok \/ new.status = "pending_stop" THEN f
    ELSE IF Mode = "async" THEN SaveOrder(f, [new EXCEPT !.status = "pending_match"])
    ELSE matchAndSettle(f, new)

\* Place from NextOrderSequence to the commit.
placeOrder(new) == enterBook(ReserveOrderFunds(SaveOrder(Tables, new), new), new)

\* A request whose command or client order id exists is answered with the
\* existing order or refused: no step.
BeginPlace(r) ==
    /\ pc[r] = "idle"
    /\ ~commandExists(r)
    /\ FindOrderByClientID(orders, r) = {}
    /\ pc' = [pc EXCEPT ![r] = "absent"]
    /\ UNCHANGED <<bal, res, orders, cmds, last, levels>>

\* The market's command sequence row, held to the end of the transaction.
sequenceRowFree == \A q \in Requests : pc[q] # "locked"

\* CreateOrderCommand and AppendOrderCommandLog, then the checks against the
\* last trade.  The command row is written here and becomes visible with the
\* commit; the lock keeps every other placement out until then.
LockPlace(r) ==
    /\ pc[r] = "absent"
    /\ sequenceRowFree
    /\ uniqueKeysFree(r)
    /\ withinPriceBand(r, last)
    /\ stopPriceValid(r, last)
    /\ pc' = [pc EXCEPT ![r] = "locked"]
    /\ UNCHANGED <<bal, res, orders, cmds, last, levels>>

\* Inserts, matches and commits in one step: in series with the other matches.
CommitPlace(r) ==
    /\ pc[r] = "locked"
    /\ NextOrderSequence(orders) \in OrderIds
    /\ Commit(placeOrder(buildOrder(r, NextOrderSequence(orders))))
    /\ cmds' = [cmds EXCEPT ![orderCommandID(r)] =
                   [order |-> NextOrderSequence(orders),
                    payload |-> orderCommandPayload(r)]]
    /\ pc' = [pc EXCEPT ![r] = "idle"]

\* An error, a lost connection or a crash of the server rolls the placement
\* back; the client may send the request again.
AbortPlace(r) ==
    /\ pc[r] # "idle"
    /\ pc' = [pc EXCEPT ![r] = "idle"]
    /\ UNCHANGED <<bal, res, orders, cmds, last, levels>>

-----------------------------------------------------------------------------
(* The other operations.                                                   *)

cancelable(status) == status \in Live

Cancel(o) ==
    /\ cancelable(orders[o].status)
    /\ LET canceled == [orders[o] EXCEPT !.status = "canceled", !.remaining = 0]
           saved == SaveOrder(touch(Tables, canceled), canceled)
       IN  Commit(refreshBookProjection(ReleaseOrderFunds(saved, orders[o])))
    /\ UNCHANGED <<cmds, pc>>

\* In series with the other matches, too.
TriggerStops(price) ==
    /\ Commit(refreshBookProjection(activateTriggeredStops(Tables, price)))
    /\ UNCHANGED <<cmds, pc>>

\* The matcher runs an order's match job.  A job may run again after it has
\* been done: its worker may lose its lease or die before it is marked done.
\* In series with the other matches: no order is committed between its query
\* for candidates and its commit.
MatchOrder(o) ==
    /\ Mode = "async"
    /\ orders[o].type # "stop_limit"
    /\ orders[o].status \in {"pending_match", "open", "partially_filled"}
    /\ LET item == IF orders[o].status = "pending_match"
                   THEN [orders[o] EXCEPT !.status = "open"] ELSE orders[o]
       IN  Commit(matchAndSettle(Tables, item))
    /\ UNCHANGED <<cmds, pc>>

Next ==
    \/ \E r \in Requests : BeginPlace(r) \/ LockPlace(r) \/ CommitPlace(r) \/ AbortPlace(r)
    \/ \E o \in OrderIds : Cancel(o) \/ MatchOrder(o)
    \/ \E price \in TriggerPrices : TriggerStops(price)

Spec == Init /\ [][Next]_vars

-----------------------------------------------------------------------------
(* Properties.                                                             *)

\* Transactions that run one after another never leave the book crossed: whatever
\* could have traded has traded or has expired, for new orders, activated stops
\* and late match jobs, and although candidates are fetched CandidateLimit at a
\* time.  Overlapping ones can leave it crossed (BookStaysUncrossed of MatchLocks,
\* which the code breaks).
SerialBookUncrossed ==
    \A b, s \in activeOrders(orders) :
        orders[b].side = "buy" /\ orders[s].side = "sell" =>
            orders[b].price < orders[s].price

\* The price levels the clients see are the sums over the active orders,
\* although a transaction refreshes only the levels it noted down.
LevelsMatchActive == \A k \in LevelKeys : levels[k] = levelOf(orders, k)

\* A live order has reserved exactly what its unfilled part can cost, and an
\* order that is over has nothing reserved any more.  (A self-trade of a triggered
\* stop is the exception: ExpiredHoldsNothing.)
ReservedForOrders ==
    \A o \in placed(orders) :
        \/ orders[o].type = "stop_limit" /\ orders[o].status = "expired"
        \/ res[o].remaining = IF orders[o].status \in Live
                              THEN orderReserveAmount(orders[o]) ELSE 0

\* What is locked on an account is what the reservations on it hold.
LockedForReservations ==
    \A k \in AccountKeys :
        bal[k].locked = SumFunction(heldBy(res, k))

\* What the users have is what they had.
NothingLost ==
    \A a \in Assets : SumFunction(holding(bal, a)) = NumUsers * Opening

\* Whatever fills an order, improves its price, cancels it or lets it expire, in
\* transactions that settle many trades and activate stops: what is locked is
\* reserved, what is reserved is needed by a live order, and nothing is created or
\* destroyed.
FundsFollowOrders == ReservedForOrders /\ LockedForReservations /\ NothingLost

\* A client order id names one order of its user, and a command the order it
\* created, even when the same request is sent several times at once.
OneOrderPerClient ==
    /\ \A o, p \in placed(orders) :
          orders[o].user = orders[p].user /\ orders[o].client = orders[p].client => o = p
    /\ \A o \in placed(orders) : \E c \in CommandIds :
          cmds[c] # NoCommand /\ cmds[c].order = o /\ cmds[c].payload.client = orders[o].client

\* x comes before m in the queue of their side.
isBefore(x, m) ==
    /\ x.side = m.side
    /\ \/ x.price = m.price /\ x.id < m.id
       \/ x.side = "sell" /\ x.price < m.price
       \/ x.side = "buy" /\ x.price > m.price

\* Price-time priority of transactions that run one after another: an order in the
\* book is filled as a maker only when every order of its side with a better price,
\* or the same price and an earlier sequence id, has left the book.
PriceTimePriority ==
    [][\A m, x \in activeOrders(orders) :
          /\ isBefore(orders[x], orders[m])
          /\ orders'[m].filled > orders[m].filled
          => x \notin activeOrders(orders')]_vars

-----------------------------------------------------------------------------
(* What the documentation says and the code does not do.                   *)

\* "remaining locked funds are released" when an order expires.
ExpiredHoldsNothing ==
    \A o \in placed(orders) : orders[o].status = "expired" => res[o].remaining = 0

\* "Buy stop-limit triggers when `last_price >= stop_price`": no stop keeps
\* waiting that the last trade price triggers.
NoStopLeftBehind ==
    \A o \in placed(orders) :
        orders[o].status = "pending_stop" /\ last # 0 => ~stopTriggered(orders[o], last)
=============================================================================
