------------------------------- MODULE Ledger -------------------------------
(***************************************************************************)
(* The balance and reservation operations of the exchange repository, as   *)
(* operators on the two tables they touch.                                 *)
(*                                                                         *)
(* Every operation runs inside a database transaction.  A transaction's    *)
(* working copy of the tables is a record f:                               *)
(*    f.bal   exchange_balances, one row per (user, asset);                *)
(*    f.res   exchange_reservations, one row per order;                    *)
(*    f.ok    FALSE once an operation has returned an error, after which   *)
(*            the transaction is rolled back and f is thrown away.         *)
(* A missing balance row behaves as a row of zeros: every lookup that does *)
(* not create the row turns "not found" into a failure for a positive      *)
(* amount, and the lookups that create it start from zeros.                *)
(*                                                                         *)
(* Amounts are natural numbers of the smallest unit; SCALE units make 1    *)
(* (10^18 in the code, decimal.Scale).                                     *)
(***************************************************************************)
EXTENDS Integers

CONSTANTS
    NumUsers,    \* users are numbered 1 .. NumUsers
    Base, Quote, \* the two assets of the market
    MaxOrders,   \* orders are numbered 1 .. MaxOrders (bound)
    SCALE        \* smallest units in one whole unit

ASSUME LedgerAssumption ==
    /\ Base # Quote
    /\ NumUsers \in Nat \ {0}
    /\ MaxOrders \in Nat
    /\ SCALE \in Nat \ {0}

Users == 1..NumUsers
OrderIds == 1..MaxOrders
Assets == {Base, Quote}
AccountKeys == Users \X Assets

Balance == [available : Nat, locked : Nat, pending : Nat]
Row(available, locked, pending) ==
    [available |-> available, locked |-> locked, pending |-> pending]

ReservationStatuses == {"none", "active", "consumed", "released", "closed"}
Reservation == [account : AccountKeys, amount : Nat, consumed : Nat,
                released : Nat, remaining : Nat, status : ReservationStatuses]

NoReservation == [account |-> <<1, Base>>, amount |-> 0, consumed |-> 0,
                  released |-> 0, remaining |-> 0, status |-> "none"]

Funds == [ok : BOOLEAN,
          bal : [AccountKeys -> Balance],
          res : [OrderIds -> Reservation]]

-----------------------------------------------------------------------------
(* Decimal arithmetic.                                                     *)

\* decimal.Mul: the product of two decimals, rounded half up at the last
\* supported digit.
Mul(a, b) == (2 * a * b + SCALE) \div (2 * SCALE)

\* decimal.SubFloorZero: subtraction that stops at zero.
SubFloorZero(a, b) == IF a >= b THEN a - b ELSE 0

\* v is the sum of f[1] + ... + f[n], by way of the running totals g.  (Used by
\* the invariants; a first-order definition, so that it can be proved about.)
RunningTotals(g, f, n) ==
    /\ g[0] = 0
    /\ \A i \in 1..n : g[i] = g[i-1] + f[i]
    /\ \A i, j \in 0..n : i <= j => g[i] <= g[j]

TotalIs(f, n, v) == \E g \in [0..n -> 0..v] : RunningTotals(g, f, n) /\ g[n] = v

-----------------------------------------------------------------------------
(* Balance rows.                                                           *)

\* The transaction has met an error and will be rolled back.
Fail(f) == [f EXCEPT !.ok = FALSE]

debitLocked(f, k, amount) ==
    IF f.ok /\ f.bal[k].locked >= amount
    THEN [f EXCEPT !.bal[k].locked = SubFloorZero(@, amount)]
    ELSE Fail(f)

addAvailableBalance(f, k, amount) ==
    IF f.ok THEN [f EXCEPT !.bal[k].available = @ + amount] ELSE f

moveLockedToAvailable(f, k, amount) ==
    addAvailableBalance(debitLocked(f, k, amount), k, amount)

MarkDepositPending(f, k, amount) ==
    IF f.ok THEN [f EXCEPT !.bal[k].pending = @ + amount] ELSE f

SettleDeposit(f, k, amount) ==
    IF f.ok /\ f.bal[k].pending >= amount
    THEN [f EXCEPT !.bal[k] = Row(@.available + amount, @.locked,
                                 SubFloorZero(@.pending, amount))]
    ELSE Fail(f)

\* Mutant: the withdrawal is taken without looking at the available balance.
HoldWithdrawalUnchecked(f, k, amount) ==
    IF f.ok
    THEN [f EXCEPT !.bal[k] = Row(@.available - amount, @.locked, @.pending + amount)]
    ELSE f

\* The balance half of RequestWithdrawal.
HoldWithdrawal(f, k, amount) ==
    IF f.ok /\ f.bal[k].available >= amount
    THEN [f EXCEPT !.bal[k] = Row(SubFloorZero(@.available, amount), @.locked,
                                 @.pending + amount)]
    ELSE Fail(f)

\* The balance half of finalizeWithdrawal: a completed withdrawal leaves the
\* exchange, a canceled one goes back to the available balance.
FinalizeHold(f, k, amount, canceled) ==
    IF f.ok /\ f.bal[k].pending >= amount
    THEN [f EXCEPT !.bal[k] = Row(IF canceled THEN @.available + amount
                                              ELSE @.available,
                                  @.locked, SubFloorZero(@.pending, amount))]
    ELSE Fail(f)

-----------------------------------------------------------------------------
(* Reservations: the locked funds that one order may spend.                *)

reservationStatus(remaining, consumed, released) ==
    IF remaining > 0 THEN "active"
    ELSE IF consumed > 0 /\ released > 0 THEN "closed"
    ELSE IF consumed > 0 THEN "consumed" ELSE "released"

createReservation(f, id, k, amount) ==
    IF f.ok /\ f.res[id].status = "none" /\ amount > 0
    THEN [f EXCEPT !.res[id] = [account |-> k, amount |-> amount,
                                consumed |-> 0, released |-> 0,
                                remaining |-> amount, status |-> "active"]]
    ELSE Fail(f)

\* Mutant: a release is not added up.
chargedRowForgetful(r, amount, kind) ==
    [r EXCEPT !.consumed = IF kind = "consume" THEN @ + amount ELSE @,
              !.remaining = SubFloorZero(@, amount)]

\* The row after amount of it was consumed or released.
chargedRow(r, amount, kind) ==
    LET consumed == IF kind = "consume" THEN r.consumed + amount ELSE r.consumed
        released == IF kind = "consume" THEN r.released ELSE r.released + amount
        remaining == SubFloorZero(r.remaining, amount)
    IN  [account |-> r.account, amount |-> r.amount, consumed |-> consumed,
         released |-> released, remaining |-> remaining,
         status |-> reservationStatus(remaining, consumed, released)]

\* A missing reservation is silently accepted, as is an amount of zero.
applyReservationDelta(f, id, amount, kind) ==
    IF ~f.ok \/ amount <= 0 \/ f.res[id].status = "none" THEN f
    ELSE IF f.res[id].remaining < amount THEN Fail(f)
    ELSE [f EXCEPT !.res[id] = chargedRow(@, amount, kind)]

consumeReservation(f, id, amount) == applyReservationDelta(f, id, amount, "consume")
releaseReservation(f, id, amount) == applyReservationDelta(f, id, amount, "release")

-----------------------------------------------------------------------------
(* What an order does to the ledger.  An order has the fields id, user,    *)
(* side, price and remaining.                                              *)

reserveAccount(o) == <<o.user, IF o.side = "buy" THEN Quote ELSE Base>>

orderReserveAmount(o) ==
    IF o.side = "buy" THEN Mul(o.price, o.remaining) ELSE o.remaining

ReserveOrderFunds(f, o) ==
    LET k == reserveAccount(o)
        amount == orderReserveAmount(o)
    IN  IF ~f.ok \/ amount <= 0 THEN f
        ELSE IF f.bal[k].available < amount THEN Fail(f)
        ELSE createReservation(
                [f EXCEPT !.bal[k] = Row(SubFloorZero(@.available, amount),
                                         @.locked + amount, @.pending)],
                o.id, k, amount)

\* The release is clamped to what the reservation still holds (only if it
\* holds something) and to the locked balance.
clampedReleaseAmount(f, o, requested) ==
    LET left == f.res[o.id].remaining
        locked == f.bal[reserveAccount(o)].locked
        byReservation == IF left > 0 /\ left < requested THEN left ELSE requested
    IN  IF locked < byReservation THEN locked ELSE byReservation

ReleaseOrderFunds(f, o) ==
    LET requested == orderReserveAmount(o)
        amount == clampedReleaseAmount(f, o, requested)
    IN  IF ~f.ok \/ requested <= 0 \/ amount <= 0 THEN f
        ELSE releaseReservation(
                moveLockedToAvailable(f, reserveAccount(o), amount),
                o.id, amount)

\* settlementForTrade: what a fill of t.qty takes from the buyer's lock.
buyerLockedQuote(t, buyer) == Mul(t.qty, buyer.price)

validSettlement(t, buyer) ==
    /\ t.qty > 0
    /\ t.quote > 0
    /\ buyer.price > 0
    /\ buyerLockedQuote(t, buyer) > 0
    /\ t.quote <= buyerLockedQuote(t, buyer)

\* Mutant: the buyer's price improvement is forgotten.
settleBuyerNoImprovement(f, t, buyer) ==
    LET k == <<buyer.user, Quote>>
        paid == debitLocked(f, k, buyerLockedQuote(t, buyer))
    IN  addAvailableBalance(consumeReservation(paid, buyer.id, t.quote),
                            <<buyer.user, Base>>, t.qty)

\* The buyer's half of settleTrade: the whole lock of the filled quantity is
\* debited, the trade's quote amount is consumed and the price improvement is
\* given back.
settleBuyer(f, t, buyer) ==
    LET k == <<buyer.user, Quote>>
        lock == buyerLockedQuote(t, buyer)
        paid == consumeReservation(debitLocked(f, k, lock), buyer.id, t.quote)
        improvement == SubFloorZero(lock, t.quote)
    IN  addAvailableBalance(
            IF improvement > 0
            THEN releaseReservation(addAvailableBalance(paid, k, improvement),
                                    buyer.id, improvement)
            ELSE paid,
            <<buyer.user, Base>>, t.qty)

\* Mutant: the seller's reservation is not consumed.
settleSellerNoConsume(f, t, seller) ==
    addAvailableBalance(debitLocked(f, <<seller.user, Base>>, t.qty),
                        <<seller.user, Quote>>, t.quote)

\* The seller's half.
settleSeller(f, t, seller) ==
    addAvailableBalance(
        consumeReservation(debitLocked(f, <<seller.user, Base>>, t.qty),
                           seller.id, t.qty),
        <<seller.user, Quote>>, t.quote)

settleTrade(f, t, buyer, seller) ==
    IF f.ok /\ validSettlement(t, buyer)
    THEN settleSeller(settleBuyer(f, t, buyer), t, seller)
    ELSE Fail(f)

-----------------------------------------------------------------------------
(* What makes the two tables sound.                                        *)

\* What each order still holds of the locked balance of account k.
heldBy(rs, k) == [o \in OrderIds |-> IF rs[o].account = k THEN rs[o].remaining ELSE 0]

\* Every locked balance is the sum of what the reservations on it still hold.
LockedCovered(bs, rs) ==
    \A k \in AccountKeys : TotalIs(heldBy(rs, k), MaxOrders, bs[k].locked)

\* What user u owns of asset a in all.
holding(bs, a) ==
    [u \in Users |-> bs[<<u, a>>].available + bs[<<u, a>>].locked
                        + bs[<<u, a>>].pending]

\* A reservation's amount is split into consumed, released and remaining, and
\* its status says how.
BalancedRow(r) ==
    /\ r.amount = r.consumed + r.released + r.remaining
    /\ r.status = IF r.amount = 0 THEN "none"
                  ELSE reservationStatus(r.remaining, r.consumed, r.released)

=============================================================================
