----------------------------- MODULE MatchLocks -----------------------------
(***************************************************************************)
(* Matching by several workers at once, and cancels beside them, down to   *)
(* the row locks: each transaction is a list of statements, and between    *)
(* any two of them the others go on.                                       *)
(*                                                                         *)
(* Orders are in two tables, exchange_orders and exchange_active_orders.   *)
(* A cancel locks the row of its order in the first and then changes the   *)
(* second; a match locks its taker in the first, its makers in the second  *)
(* and then changes the makers in the first.  Which rows are locked, and   *)
(* in what order, is here; what is done to balances and reservations while *)
(* they are locked is in Ledger.  A market sell's price and stop orders    *)
(* are left to Orders: only limit orders are matched here, and their       *)
(* trades trigger nothing.  The limit of 500 candidates is never reached.  *)
(*                                                                         *)
(* Postgres is external: under READ COMMITTED a statement sees what was    *)
(* committed before it started, and the transaction's own changes.  A      *)
(* statement that needs a locked row waits; then it finds the row as it is *)
(* by then.  Of transactions that wait for each other one is rolled back.  *)
(***************************************************************************)
EXTENDS MarketBook

CONSTANTS
    Sessions,   \* database sessions of matcher workers and API requests
    Resting,    \* the orders at the start: those that match jobs have dealt with ...
    Pending,    \* ... and those whose jobs are waiting
    MaxBegun,   \* transactions (bound)
    MaxFailures \* statements that fail for another reason than a deadlock (bound)

BookOrders == Resting \cup Pending
BookIds == {o.id : o \in BookOrders}

VARIABLES
    dbOrders,  \* exchange_orders, as committed
    dbActive,  \* exchange_active_orders: for each id, the set of its rows, one or none
    dbLevels,  \* exchange_price_levels: the quantity at each price, 0 without a row
    dbTrades,  \* exchange_trades
    tx,        \* the transaction each session is in
    raced,     \* history: levels summed up beside an uncommitted change
    begun,
    failures

locksVars == <<dbOrders, dbActive, dbLevels, dbTrades, tx, raced, begun, failures>>

LockLevels == {<<o.side, o.price>> : o \in BookOrders}
levelKey(o) == <<o.side, o.price>>

sumAt(active, k) ==
    MapThenSumSet(LAMBDA o : o.remaining,
                  {o \in UNION {active[i] : i \in BookIds} : levelKey(o) = k})

bookable(o) == IF isBookable(o) THEN {o} ELSE {}

NoTx == [kind |-> "none"]

\* A transaction: what it has still to do, the locks it holds, the order it is about,
\* the makers it has locked in this round, and what it has written.
newTx(kind, id) ==
    [kind |-> kind, id |-> id, todo |-> <<[op |-> "GetOrderForUpdate"]>>, locks |-> {},
     item |-> {}, makers |-> <<>>, orders |-> << >>, active |-> << >>, levels |-> << >>,
     trades |-> <<>>, touched |-> {}, summed |-> {}]

LocksInit ==
    /\ dbOrders = [i \in BookIds |-> CHOOSE o \in BookOrders : o.id = i]
    /\ dbActive = [i \in BookIds |-> bookable(dbOrders[i])]
    /\ dbLevels = [k \in LockLevels |-> sumAt(dbActive, k)]
    /\ dbTrades = <<>>
    /\ tx = [s \in Sessions |-> NoTx]
    /\ raced = {}
    /\ begun = 0
    /\ failures = 0

-----------------------------------------------------------------------------
(* The statements of a transaction.                                        *)

st(op) == [op |-> op]
lockRow(key) == [op |-> "lock", key |-> key]

SaveOrder(o) == <<[op |-> "order", item |-> o], [op |-> "active", item |-> o]>>

\* ReleaseOrderFunds: the balance, then the reservation.
ReleaseFunds(o) ==
    <<lockRow(<<"balance", reserveAccount(o)>>), lockRow(<<"reservation", o.id>>)>>

\* settleTrade: the rows of the buyer, then those of the seller.
settleLocks(buyer, seller) ==
    ReleaseFunds(buyer)
    \o <<lockRow(<<"balance", <<buyer.user, Base>>>>)>>
    \o ReleaseFunds(seller)
    \o <<lockRow(<<"balance", <<seller.user, Quote>>>>)>>

settleTradeLocks(t) ==
    LET maker == dbOrders[t.maker]
        taker == dbOrders[t.taker]
    IN  IF taker.side = "buy" THEN settleLocks(taker, maker) ELSE settleLocks(maker, taker)

SettleTradesLocks(trades) ==
    FlattenSeq([i \in 1..Len(trades) |-> settleTradeLocks(trades[i])])

refreshLevels(keys) == <<[op |-> "refresh", keys |-> keys], st("prune")>>

\* Mutant: the candidates are read without locking them.
keyOfUnlockedMakers(x, stmt) ==
    CASE stmt.op = "GetOrderForUpdate" -> {<<"order", x.id>>}
      [] stmt.op = "order" -> {<<"order", stmt.item.id>>}
      [] stmt.op = "active" -> {<<"active", stmt.item.id>>}
      [] stmt.op = "level" -> {<<"level", stmt.key>>}
      [] stmt.op = "lock" -> {stmt.key}
      [] OTHER -> {}

\* The row a statement has to lock, if any.
keyOf(x, stmt) ==
    CASE stmt.op = "GetOrderForUpdate" -> {<<"order", x.id>>}
      [] stmt.op = "order" -> {<<"order", stmt.item.id>>}
      [] stmt.op \in {"candidate", "active"} -> {<<"active", stmt.item.id>>}
      [] stmt.op = "level" -> {<<"level", stmt.key>>}
      [] stmt.op = "lock" -> {stmt.key}
      [] OTHER -> {}

seenOrders(x) == x.orders @@ dbOrders
seenActive(x) == x.active @@ dbActive
seenLevels(x) == x.levels @@ dbLevels

\* What to do next, after the statement at the head of the list.
instead(x, stmts) == [x EXCEPT !.todo = stmts \o Tail(@)]
done(x) == instead(x, <<>>)

-----------------------------------------------------------------------------
(* What each statement does, with its row locked.                          *)

cancelable(status) == status \in {"pending_match", "open", "partially_filled", "pending_stop"}

cancelStatements(item) ==
    SaveOrder([item EXCEPT !.status = "canceled", !.remaining = 0])
    \o ReleaseFunds(item) \o refreshLevels({levelKey(item)})

\* The order as MatchOrder takes it up.
takenUp(item) == [item EXCEPT !.status = IF @ = "pending_match" THEN "open" ELSE @]

readOrder(x) ==
    LET item == seenOrders(x)[x.id]
    IN  IF x.kind = "cancel" /\ cancelable(item.status)
        THEN instead(x, cancelStatements(item))
        ELSE IF x.kind = "match" /\ takenUp(item).status \in OpenStatuses
        THEN [instead(x, <<st("ListMatchCandidates")>>) EXCEPT !.item = {takenUp(item)}]
        ELSE done(x)

matchTaker(x) == CHOOSE o \in x.item : TRUE

candidate(x, o) == isBookable(o) /\ crossesPrice(matchTaker(x), o)

\* The statement finds its rows first and locks them one by one, in their order.
ListMatchCandidates(x) ==
    LET found == {o \in UNION Range(seenActive(x)) : candidate(x, o)}
        sorted == SetToSortSeq(found, ahead)
    IN  [instead(x, [i \in 1..Len(sorted) |-> [op |-> "candidate", item |-> sorted[i]]]
                    \o <<st("MatchLimit")>>) EXCEPT !.makers = <<>>]

\* A row that was changed in the meantime is looked at again.
lockCandidate(x, o) ==
    [done(x) EXCEPT !.makers = @ \o SetToSeq({r \in seenActive(x)[o.id] : candidate(x, r)})]

isImmediateOnly(o) == o.tif = "ioc"
shouldReleaseUnfilled(o) == o.status = "expired" /\ o.remaining > 0

finishMatch(x, taker, trades, keys) ==
    SaveOrder(taker) \o SettleTradesLocks(trades)
    \o (IF shouldReleaseUnfilled(taker) THEN ReleaseFunds(taker) ELSE <<>>)
    \o refreshLevels(keys)

\* Mutant: the taker looks for makers until there are none.
roundsOverWhenNone(x, r) == r.taker.remaining = 0 \/ x.makers = <<>>

roundsOver(x, r) == r.taker.remaining = 0 \/ r.trades = <<>>

lastStatus(taker) ==
    IF taker.remaining > 0 /\ isImmediateOnly(taker)
    THEN [taker EXCEPT !.status = "expired"] ELSE restingTaker(taker)

\* MatchLimit on the makers of this round: the makers are saved, and another round
\* follows for what is left, or the taker is saved and the trades are settled.
matchRound(x) ==
    LET r == MatchLimit(matchTaker(x), x.makers)
        trades == x.trades \o r.trades
        keys == x.touched \cup {levelKey(o) : o \in Range(r.makers) \cup {r.taker}}
        saves == FlattenSeq([i \in 1..Len(r.makers) |-> SaveOrder(r.makers[i])])
        taker == lastStatus(r.taker)
    IN  [instead(x, saves \o IF roundsOver(x, r) THEN finishMatch(x, taker, trades, keys)
                             ELSE <<st("ListMatchCandidates")>>)
            EXCEPT !.item = {r.taker}, !.trades = trades, !.touched = keys]

\* RefreshPriceLevels takes the keys in the order of a Go map: in any order.
refreshNext(x, keys) ==
    IF keys = {} THEN {done(x)}
    ELSE {instead(x, <<[op |-> "sum", key |-> k],
                       [op |-> "refresh", keys |-> keys \ {k}]>>) : k \in keys}

sumLevel(x, k) ==
    [instead(x, <<[op |-> "level", key |-> k, quantity |-> sumAt(seenActive(x), k)]>>)
        EXCEPT !.summed = @ \cup {k}]

PruneStalePriceLevels(x) ==
    LET stale == {k \in LockLevels : seenLevels(x)[k] > 0 /\ sumAt(seenActive(x), k) = 0}
        order == SetToSeq(stale)
    IN  instead(x, [i \in 1..Len(order) |->
                       [op |-> "level", key |-> order[i], quantity |-> 0]])

executed(x, stmt) ==
    CASE stmt.op = "GetOrderForUpdate" -> {readOrder(x)}
      [] stmt.op = "ListMatchCandidates" -> {ListMatchCandidates(x)}
      [] stmt.op = "candidate" -> {lockCandidate(x, stmt.item)}
      [] stmt.op = "MatchLimit" -> {matchRound(x)}
      [] stmt.op = "order" -> {[done(x) EXCEPT !.orders = (stmt.item.id :> stmt.item) @@ @]}
      [] stmt.op = "active" ->
            {[done(x) EXCEPT !.active = (stmt.item.id :> bookable(stmt.item)) @@ @]}
      [] stmt.op = "lock" -> {done(x)}
      [] stmt.op = "refresh" -> refreshNext(x, stmt.keys)
      [] stmt.op = "sum" -> {sumLevel(x, stmt.key)}
      [] stmt.op = "level" -> {[done(x) EXCEPT !.levels = (stmt.key :> stmt.quantity) @@ @]}
      [] stmt.op = "prune" -> {PruneStalePriceLevels(x)}

-----------------------------------------------------------------------------
(* The sessions.                                                           *)

Open(s) == tx[s].kind # "none"
Busy(s) == Open(s) /\ tx[s].todo # <<>>

heldRows(s) == IF Open(s) THEN tx[s].locks ELSE {}
neededRows(s) == IF Busy(s) THEN keyOf(tx[s], Head(tx[s].todo)) ELSE {}

waitsFor(s, t) == s # t /\ neededRows(s) \cap heldRows(t) # {}

Blocked(s) == \E t \in Sessions : waitsFor(s, t)

\* Sessions that wait for each other: a row is locked by one session, so this is a ring.
Ring(D) == \A s \in D : (\E t \in D : waitsFor(s, t)) /\ (\E t \in D : waitsFor(t, s))

Begin(s, kind, id) ==
    /\ ~Open(s)
    /\ begun < MaxBegun
    /\ begun' = begun + 1
    /\ tx' = [tx EXCEPT ![s] = newTx(kind, id)]
    /\ UNCHANGED <<dbOrders, dbActive, dbLevels, dbTrades, raced, failures>>

Execute(s) ==
    /\ Busy(s)
    /\ ~Blocked(s)
    /\ \E x \in executed(tx[s], Head(tx[s].todo)) :
          tx' = [tx EXCEPT ![s] = [x EXCEPT !.locks = @ \cup neededRows(s)]]
    /\ UNCHANGED <<dbOrders, dbActive, dbLevels, dbTrades, raced, begun, failures>>

\* Levels at which this transaction changes the active orders and which another one
\* has summed up already.
overtaken(s) ==
    {k \in LockLevels :
        /\ \E id \in DOMAIN tx[s].active : levelKey(dbOrders[id]) = k
        /\ \E t \in Sessions \ {s} : Open(t) /\ k \in tx[t].summed}

CommitTx(s) ==
    /\ Open(s)
    /\ tx[s].todo = <<>>
    /\ dbOrders' = seenOrders(tx[s])
    /\ dbActive' = seenActive(tx[s])
    /\ dbLevels' = seenLevels(tx[s])
    /\ dbTrades' = dbTrades \o tx[s].trades
    /\ raced' = raced \cup overtaken(s)
    /\ tx' = [tx EXCEPT ![s] = NoTx]
    /\ UNCHANGED <<begun, failures>>

\* An error, a timeout or a crash rolls back; the job is tried again or the client told.
StatementFails(s) ==
    /\ Busy(s)
    /\ failures < MaxFailures
    /\ failures' = failures + 1
    /\ tx' = [tx EXCEPT ![s] = NoTx]
    /\ UNCHANGED <<dbOrders, dbActive, dbLevels, dbTrades, raced, begun>>

DeadlockDetected(s) ==
    /\ \E D \in SUBSET Sessions : s \in D /\ Ring(D)
    /\ tx' = [tx EXCEPT ![s] = NoTx]
    /\ UNCHANGED <<dbOrders, dbActive, dbLevels, dbTrades, raced, begun, failures>>

LocksNext ==
    \E s \in Sessions :
        \/ \E kind \in {"match", "cancel"}, id \in BookIds : Begin(s, kind, id)
        \/ Execute(s) \/ CommitTx(s) \/ StatementFails(s) \/ DeadlockDetected(s)

\* Postgres looks for deadlocks, and a session that need not wait goes on or fails.  The
\* second is the weak fairness of Execute(s) \/ CommitTx(s) \/ StatementFails(s), written
\* out so that TLC need not evaluate ENABLED.
CanGoOn(s) == Open(s) /\ ~Blocked(s)
SomeDeadlockDetected == \E s \in Sessions : DeadlockDetected(s)
SessionGoesOn(s) == []<>~CanGoOn(s) \/ []<><<tx'[s] # tx[s]>>_tx

-----------------------------------------------------------------------------
(* Properties.                                                             *)

tradedOf(id) ==
    FoldLeft(LAMBDA n, t : IF id \in {t.maker, t.taker} THEN n + t.qty ELSE n, 0, dbTrades)

quantityOf(id) == (CHOOSE o \in BookOrders : o.id = id).remaining

\* What an order has filled is what was traded of it, and no more than its quantity:
\* no match or cancel that runs beside a match overwrites its fills, although the
\* makers are saved from what was read of the other table.
FillsAreKept ==
    \A id \in BookIds :
        LET o == dbOrders[id]
        IN  /\ o.filled = tradedOf(id)
            /\ o.filled <= quantityOf(id)
            /\ o.status # "canceled" => o.filled + o.remaining = quantityOf(id)

\* The two tables, locked one after the other and in different orders, always have
\* the same orders in the same state.
SameOrders == \A id \in BookIds : dbActive[id] = bookable(dbOrders[id])

\* A published price level is the sum of the orders at its price, unless it was summed
\* up while another transaction was changing one of them.
LevelsAreSums ==
    \A k \in LockLevels : k \in raced \/ dbLevels[k] = sumAt(dbActive, k)

\* Orders, active orders, trades and price levels are written by statements of several
\* transactions in between each other, and still tell the same story.
TablesAgree == FillsAreKept /\ SameOrders /\ LevelsAreSums

\* Every transaction commits or is rolled back: the rounds of a match end, and whoever
\* waits for a lock gets it or is told of the deadlock.
TransactionsEnd == <>[](\A s \in Sessions : ~Open(s))

\* What the documentation says: several matchers can run in parallel.  Once all
\* transactions are over, no two orders of different users in the book cross.
BookStaysUncrossed ==
    (\A s \in Sessions : ~Open(s)) =>
        \A i, j \in BookIds :
            \A o \in dbActive[i], p \in dbActive[j] : ~eligibleMaker(o, p)
=============================================================================
