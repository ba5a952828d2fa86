----------------------------- MODULE MarketBook -----------------------------
(***************************************************************************)
(* The in-memory book of one market and its operations, as functions of    *)
(* the book.  BookReplay checks them, Resident uses them.                  *)
(*                                                                         *)
(* A side of the book has its prices, best first, and a queue for each of  *)
(* them; b.orders finds the queue an order is in.  An operation that       *)
(* returns an error yields a book with b.ok = FALSE.  The id of an order   *)
(* is its sequence id.  Every order has a price, so effectiveBookTaker,    *)
(* which gives one to a market sell without, has nothing to do here.       *)
(***************************************************************************)
EXTENDS Matching

CONSTANT Takers \* the orders of the command log, one for each id

Taker == [id : OrderIds, user : Users, side : Sides,
          type : {"limit", "market", "stop_limit"}, tif : {"gtc", "ioc"},
          status : {"open", "pending_stop"}, price : Nat \ {0}, stop : Nat,
          filled : {0}, remaining : Nat \ {0}]

ASSUME MarketBookAssumption ==
    /\ Takers \subseteq Taker
    /\ \A s, t \in Takers : s.id = t.id => s = t
    /\ \A t \in Takers : Mul(t.price, t.remaining) > 0

\* A Go map after f[k] = v.
assign(f, k, v) == [x \in DOMAIN f \cup {k} |-> IF x = k THEN v ELSE f[x]]

-----------------------------------------------------------------------------
(* The two sides.                                                          *)

NewMarketBook ==
    [ok |-> TRUE,
     side |-> [s \in Sides |-> [prices |-> <<>>, levels |-> [p \in {} |-> <<>>]]],
     orders |-> [o \in {} |-> <<>>]]

isBookable(o) == o.type # "market" /\ o.status \in OpenStatuses /\ o.remaining > 0

\* sort.Search: x goes before the first of these places, or to the end.
insertBefore(seq, places, x) == InsertAt(seq, Min(places \cup {Len(seq) + 1}), x)

insertPrice(prices, o) ==
    insertBefore(prices,
                 {i \in 1..Len(prices) : IF o.side = "buy" THEN prices[i] < o.price
                                                           ELSE prices[i] > o.price},
                 o.price)

\* An order takes the place of its sequence id.
enqueue(queue, o) == insertBefore(queue, {i \in 1..Len(queue) : queue[i].id > o.id}, o)

intoSide(s, o) ==
    IF o.price \in DOMAIN s.levels
    THEN [s EXCEPT !.levels[o.price] = enqueue(@, o)]
    ELSE [prices |-> insertPrice(s.prices, o), levels |-> assign(s.levels, o.price, <<o>>)]

validateResting(o) == isBookable(o) /\ o.price > 0

insertResting(b, o) ==
    IF ~b.ok \/ ~validateResting(o) \/ o.id \in DOMAIN b.orders THEN Fail(b)
    ELSE [b EXCEPT !.side[o.side] = intoSide(@, o),
                   !.orders = assign(@, o.id, [side |-> o.side, price |-> o.price])]

outOfSide(s, price, i) ==
    IF Len(s.levels[price]) = 1
    THEN [prices |-> RemoveFirst(s.prices, price),
          levels |-> Restrict(s.levels, DOMAIN s.levels \ {price})]
    ELSE [s EXCEPT !.levels[price] = RemoveAt(@, i)]

forget(b, id) == [b EXCEPT !.orders = Restrict(@, DOMAIN @ \ {id})]

removeAt(b, side, price, i) ==
    [forget(b, b.side[side].levels[price][i].id) EXCEPT !.side[side] = outOfSide(@, price, i)]

removeIn(b, ref, id, i) ==
    IF i = 0 THEN forget(b, id) ELSE removeAt(b, ref.side, ref.price, i)

queueOf(b, ref) == b.side[ref.side].levels[ref.price]

removeOrder(b, id) ==
    IF id \notin DOMAIN b.orders THEN b
    ELSE removeIn(b, b.orders[id], id,
                  SelectInSeq(queueOf(b, b.orders[id]), LAMBDA q : q.id = id))

-----------------------------------------------------------------------------
(* Apply: an order is matched against the other side and what is left of   *)
(* it rests.                                                               *)

isImmediateOnlyBookOrder(o) == o.type = "market" \/ o.tif = "ioc"

\* What a trade does to the head of the best queue.
settleHead(r, side, price) ==
    IF r.err THEN r
    ELSE IF Last(r.makers).status = "filled"
    THEN [r EXCEPT !.book = removeAt(@, side, price, 1)]
    ELSE [r EXCEPT !.book.side[side].levels[price][1] = Last(r.makers)]

\* The best order of the other side: trade, expire on a self-trade, drop it if
\* it should not be in the book, or stop.
meetMaker(r, maker) ==
    IF eligibleMaker(r.taker, maker)
    THEN settleHead(tradeWith(r, maker), maker.side, maker.price)
    ELSE IF isSelfTrade(r.taker, maker) /\ crossesPrice(r.taker, maker)
    THEN [r EXCEPT !.taker.status = "expired", !.halted = TRUE]
    ELSE IF ~isBookable(maker) \/ maker.side = r.taker.side
    THEN [r EXCEPT !.book = removeAt(@, maker.side, maker.price, 1)]
    ELSE [r EXCEPT !.done = TRUE]

nextMaker(r, s) ==
    IF s.prices = <<>> THEN [r EXCEPT !.done = TRUE]
    ELSE meetMaker(r, s.levels[s.prices[1]][1])

applyRound(r) ==
    IF r.err \/ r.halted \/ r.done \/ r.taker.remaining <= 0 THEN r
    ELSE nextMaker(r, r.book.side[oppositeSide(r.taker.side)])

\* Mutant: the rest of an immediate order stays in the book.
finishApplyResting(r) ==
    IF r.err \/ r.halted \/ r.taker.remaining <= 0 \/ r.taker.type = "market" THEN r
    ELSE [r EXCEPT !.book = insertResting(@, r.taker)]

\* The rest of an immediate order expires, that of another one goes into the book.
finishApply(r) ==
    IF r.err \/ r.halted THEN r
    ELSE IF r.taker.remaining <= 0 THEN [r EXCEPT !.taker.status = "filled"]
    ELSE IF isImmediateOnlyBookOrder(r.taker) THEN [r EXCEPT !.taker.status = "expired"]
    ELSE IF r.trades = <<>>
    THEN [r EXCEPT !.taker.status = "open",
                   !.book = insertResting(@, [r.taker EXCEPT !.status = "open"])]
    ELSE [r EXCEPT !.taker.status = "partially_filled",
                   !.book = insertResting(@, [r.taker EXCEPT !.status = "partially_filled"])]

\* Every round but the last takes an order out of the book.
Apply(b, taker) ==
    finishApply(FoldLeft(LAMBDA r, i : applyRound(r),
        [book |-> b, taker |-> taker, makers |-> <<>>, trades |-> <<>>,
         halted |-> FALSE, done |-> FALSE,
         err |-> taker.id \in DOMAIN b.orders \/ ~validTaker(taker)],
        [i \in 1..(Cardinality(DOMAIN b.orders) + 1) |-> i]))

-----------------------------------------------------------------------------
(* Snapshots and replay.                                                   *)

levelsInOrder(s) == FlattenSeq([i \in 1..Len(s.prices) |-> s.levels[s.prices[i]]])

CaptureState(b) == levelsInOrder(b.side["buy"]) \o levelsInOrder(b.side["sell"])

loadOrder(b, o) == IF isBookable(o) THEN insertResting(b, o) ELSE b

Load(b, items) == FoldLeft(loadOrder, b, items)

RestoreMarketBook(items) == Load(NewMarketBook, items)

\* Every order of a result is taken out and put back as the result has it.
ApplyResult(b, result) ==
    FoldLeft(LAMBDA x, o : loadOrder(removeOrder(x, o.id), o), b,
             Append(result.makers, result.taker))

\* Price-time priority, as the queries of the order service sort the makers.
ahead(a, b) ==
    IF a.price = b.price THEN a.id < b.id
    ELSE IF a.side = "sell" THEN a.price < b.price ELSE a.price > b.price
=============================================================================
