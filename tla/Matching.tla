------------------------------ MODULE Matching ------------------------------
(***************************************************************************)
(* The deterministic core matching engine: one incoming order (the taker)  *)
(* against a list of resting orders (the makers), which the caller has put *)
(* in priority order.  A pure function: no state of its own.               *)
(***************************************************************************)
EXTENDS Ledger, SequencesExt

Sides == {"buy", "sell"}

oppositeSide(side) == IF side = "buy" THEN "sell" ELSE "buy"

OpenStatuses == {"open", "partially_filled"}

statusForRemaining(remaining) ==
    IF remaining <= 0 THEN "filled" ELSE "partially_filled"

isSelfTrade(taker, maker) == taker.user = maker.user

\* Mutant: equal prices do not cross.
crossesPriceStrictly(taker, maker) ==
    /\ maker.side # taker.side
    /\ maker.status \in OpenStatuses
    /\ maker.remaining > 0
    /\ IF taker.side = "buy" THEN maker.price < taker.price
                             ELSE maker.price > taker.price

crossesPrice(taker, maker) ==
    /\ maker.id # taker.id
    /\ maker.side # taker.side
    /\ maker.status \in OpenStatuses
    /\ maker.remaining > 0
    /\ IF taker.side = "buy" THEN maker.price <= taker.price
                             ELSE maker.price >= taker.price

eligibleMaker(taker, maker) ==
    ~isSelfTrade(taker, maker) /\ crossesPrice(taker, maker)

validTaker(taker) == taker.price > 0 /\ taker.remaining > 0

\* The order after qty more of it was filled.
filledBy(o, qty) ==
    LET left == SubFloorZero(o.remaining, qty)
    IN  [o EXCEPT !.filled = @ + qty, !.remaining = left,
                  !.status = statusForRemaining(left)]

\* The taker trades with one maker, at the maker's price.
tradeWith(r, maker) ==
    LET qty == IF r.taker.remaining <= maker.remaining
               THEN r.taker.remaining ELSE maker.remaining
        quote == Mul(qty, maker.price)
        trade == [maker |-> maker.id, taker |-> r.taker.id, price |-> maker.price,
                  qty |-> qty, quote |-> quote]
    IN  IF quote <= 0 THEN [r EXCEPT !.err = TRUE]
        ELSE [r EXCEPT !.taker = filledBy(@, qty),
                       !.makers = Append(@, filledBy(maker, qty)),
                       !.trades = Append(@, trade)]

\* One iteration of MatchLimit's loop: meeting an own order expires the taker
\* and ends the loop; any other ineligible order is passed over.
matchMaker(r, maker) ==
    IF r.err \/ r.halted \/ r.taker.remaining <= 0 THEN r
    ELSE IF eligibleMaker(r.taker, maker) THEN tradeWith(r, maker)
    ELSE IF isSelfTrade(r.taker, maker) /\ crossesPrice(r.taker, maker)
    THEN [r EXCEPT !.taker.status = "expired", !.halted = TRUE]
    ELSE r

\* The status of what is left of a taker that did not trade and did not expire.
restingTaker(o) ==
    IF o.remaining > 0 /\ o.status \notin {"partially_filled", "expired"}
    THEN [o EXCEPT !.status = "open"] ELSE o

MatchLimit(taker, makers) ==
    LET start == [taker |-> taker, makers |-> <<>>, trades |-> <<>>,
                  halted |-> FALSE, err |-> ~validTaker(taker)]
        result == FoldLeft(matchMaker, start, makers)
    IN  [result EXCEPT !.taker = restingTaker(@)]

=============================================================================
