------------------------------ MODULE Accounts ------------------------------
(***************************************************************************)
(* Custody of funds: every way in which the exchange changes a balance.    *)
(*                                                                         *)
(*   - gateway deposit callbacks, delivered any number of times, in any    *)
(*     order and concurrently (ApplyGatewayDepositCallback);               *)
(*   - the operator's deposit endpoints (MarkDepositPending,               *)
(*     SettleDeposit);                                                     *)
(*   - withdrawals: request, complete, cancel;                             *)
(*   - orders: the reservation at placement, one settled trade, the        *)
(*     release on cancel or expiry.                                        *)
(*                                                                         *)
(* Which orders trade, in which order and with how many trades to a        *)
(* transaction is the matcher's business (module Orders): here any two     *)
(* live orders of different users whose prices cross may trade, at the     *)
(* price of either.  So what is proved here holds whatever the matcher     *)
(* does.                                                                   *)
(***************************************************************************)
EXTENDS Ledger

CONSTANTS
    MaxRefs,        \* gateway deposit references 1 .. MaxRefs (bound)
    MaxWithdrawals, \* withdrawal ids 1 .. MaxWithdrawals (bound)
    Deliveries,     \* deposit callbacks the gateway may deliver
    Prices,         \* limit prices of new orders
    Amounts,        \* order quantities, deposit and withdrawal amounts
    Opening,        \* what every user already owns of every asset at the start
    MaxManual       \* what the operator may mark per account (bound)

Refs == 1..MaxRefs
WithdrawalIds == 1..MaxWithdrawals

ASSUME AccountsAssumption ==
    /\ MaxRefs \in Nat
    /\ MaxWithdrawals \in Nat
    /\ Opening \in Nat
    /\ MaxManual \in Nat
    /\ Prices \subseteq Nat \ {0}
    /\ Amounts \subseteq Nat \ {0}
    /\ Deliveries \subseteq [no : Nat, ref : Refs, account : AccountKeys,
                             status : {"pending", "settled"},
                             amount : Nat \ {0}]

VARIABLES
    bal,        \* exchange_balances
    res,        \* exchange_reservations
    ords,       \* the orders the reservations belong to
    depPending, \* the balance event gwdep_p_<ref>, NoEvent if absent
    depSettled, \* the balance event gwdep_s_<ref>, NoEvent if absent
    cb,         \* where each callback delivery's transaction stands
    wds,        \* exchange_withdrawals
    manual,     \* history: the operator's deposits, per account
    supply      \* history: deposits minus completed withdrawals, per asset

vars == <<bal, res, ords, depPending, depSettled, cb, wds, manual, supply>>

-----------------------------------------------------------------------------
Order == [id : OrderIds, user : Users, side : {"buy", "sell"}, price : Nat,
          remaining : Nat, status : {"none", "live", "done"}]

NoOrder(o) == [id |-> o, user |-> 1, side |-> "buy", price |-> 0,
               remaining |-> 0, status |-> "none"]

Withdrawal == [account : AccountKeys, amount : Nat,
               status : {"none", "requested", "completed", "canceled"}]

NoWithdrawal == [account |-> <<1, Base>>, amount |-> 0, status |-> "none"]

Event == [account : AccountKeys, amount : Nat]

NoEvent == [account |-> <<1, Base>>, amount |-> 0]

\* How much the operator marked pending on an account, and whether he settled any there.
NoManual == [marked |-> 0, settled |-> FALSE]

CallbackState == [pc : {"idle", "settledRead", "read"},
                  sawSettled : BOOLEAN, sawPending : BOOLEAN]

IdleCallback == [pc |-> "idle", sawSettled |-> FALSE, sawPending |-> FALSE]

Init ==
    /\ bal = [k \in AccountKeys |-> Row(Opening, 0, 0)]
    /\ res = [o \in OrderIds |-> NoReservation]
    /\ ords = [o \in OrderIds |-> NoOrder(o)]
    /\ depPending = [r \in Refs |-> NoEvent]
    /\ depSettled = [r \in Refs |-> NoEvent]
    /\ cb = [d \in Deliveries |-> IdleCallback]
    /\ wds = [w \in WithdrawalIds |-> NoWithdrawal]
    /\ manual = [k \in AccountKeys |-> NoManual]
    /\ supply = [a \in Assets |-> NumUsers * Opening]

\* The tables as a new transaction sees them, and its commit.
Tables == [ok |-> TRUE, bal |-> bal, res |-> res]

Commit(f) ==
    /\ f.ok
    /\ bal' = f.bal
    /\ res' = f.res

-----------------------------------------------------------------------------
(* Gateway deposit callbacks.  The transaction reads which balance events  *)
(* exist without a lock, so other transactions may commit between the read *)
(* and the update; the event ids are a primary key, so an insert of an     *)
(* event that exists by then fails and rolls the transaction back.         *)

ReadSettledEvent(d) ==
    /\ d.status = "settled"
    /\ cb[d].pc = "idle"
    /\ cb' = [cb EXCEPT ![d] = [pc |-> "settledRead",
                                sawSettled |-> depSettled[d.ref].amount > 0,
                                sawPending |-> FALSE]]
    /\ UNCHANGED <<bal, res, ords, depPending, depSettled, wds, manual, supply>>

ReadPendingEvent(d) ==
    /\ cb[d].pc = (IF d.status = "settled" THEN "settledRead" ELSE "idle")
    /\ cb' = [cb EXCEPT ![d] = [pc |-> "read",
                                sawSettled |-> cb[d].sawSettled,
                                sawPending |-> depPending[d.ref].amount > 0]]
    /\ UNCHANGED <<bal, res, ords, depPending, depSettled, wds, manual, supply>>

\* Mutant: no key keeps a second event of the same payment out.
createEventUnkeyed(f, table, ref) == f

\* createBalanceEvent under the event's primary key.
createEvent(f, table, ref) == IF table[ref].amount = 0 THEN f ELSE Fail(f)

depositEvent(d) == [account |-> d.account, amount |-> d.amount]

\* The callback transaction's effect on the tables, given what it read.
callbackFunds(d) ==
    LET mark == createEvent(MarkDepositPending(Tables, d.account, d.amount),
                            depPending, d.ref)
    IN  IF d.status = "pending" THEN mark
        ELSE createEvent(
                SettleDeposit(IF cb[d].sawPending THEN Tables ELSE mark,
                              d.account, d.amount),
                depSettled, d.ref)

\* Nothing to do: the event is already there (duplicate_ignored).
isDuplicate(d) ==
    IF d.status = "pending" THEN cb[d].sawPending ELSE cb[d].sawSettled

ApplyCallback(d) ==
    /\ cb[d].pc = "read"
    /\ ~isDuplicate(d)
    /\ Commit(callbackFunds(d))
    /\ depPending' = IF cb[d].sawPending THEN depPending
                     ELSE [depPending EXCEPT ![d.ref] = depositEvent(d)]
    /\ depSettled' = IF d.status = "pending" THEN depSettled
                     ELSE [depSettled EXCEPT ![d.ref] = depositEvent(d)]
    /\ supply' = IF cb[d].sawPending THEN supply
                 ELSE [supply EXCEPT ![d.account[2]] = @ + d.amount]
    /\ cb' = [cb EXCEPT ![d] = IdleCallback]
    /\ UNCHANGED <<ords, wds, manual>>

\* The transaction ends without a change: a duplicate, or an error and its
\* rollback.  The gateway may deliver the callback again.
DropCallback(d) ==
    /\ cb[d].pc = "read"
    /\ isDuplicate(d) \/ ~callbackFunds(d).ok
    /\ cb' = [cb EXCEPT ![d] = IdleCallback]
    /\ UNCHANGED <<bal, res, ords, depPending, depSettled, wds, manual, supply>>

-----------------------------------------------------------------------------
(* The operator's deposit endpoints: fresh event ids, no reference.        *)

ManualMarkDepositPending(k, amount) ==
    /\ manual[k].marked + amount <= MaxManual
    /\ Commit(MarkDepositPending(Tables, k, amount))
    /\ manual' = [manual EXCEPT ![k].marked = @ + amount]
    /\ supply' = [supply EXCEPT ![k[2]] = @ + amount]
    /\ UNCHANGED <<ords, depPending, depSettled, cb, wds>>

ManualSettleDeposit(k, amount) ==
    /\ Commit(SettleDeposit(Tables, k, amount))
    /\ manual' = [manual EXCEPT ![k].settled = TRUE]
    /\ UNCHANGED <<ords, depPending, depSettled, cb, wds, supply>>

-----------------------------------------------------------------------------
(* Withdrawals.                                                            *)

RequestWithdrawal(w, k, amount) ==
    /\ wds[w].status = "none"
    /\ Commit(HoldWithdrawal(Tables, k, amount))
    /\ wds' = [wds EXCEPT ![w] = [account |-> k, amount |-> amount,
                                  status |-> "requested"]]
    /\ UNCHANGED <<ords, depPending, depSettled, cb, manual, supply>>

finalizeWithdrawal(w, status) ==
    /\ wds[w].status = "requested"
    /\ Commit(FinalizeHold(Tables, wds[w].account, wds[w].amount,
                           status = "canceled"))
    /\ wds' = [wds EXCEPT ![w].status = status]
    /\ supply' = IF status = "canceled" THEN supply
                 ELSE [supply EXCEPT ![wds[w].account[2]] = @ - wds[w].amount]
    /\ UNCHANGED <<ords, depPending, depSettled, cb, manual>>

CompleteWithdrawal(w) == finalizeWithdrawal(w, "completed")
CancelWithdrawal(w) == finalizeWithdrawal(w, "canceled")

-----------------------------------------------------------------------------
(* Orders.                                                                 *)

PlaceOrder(o, u, side, price, qty) ==
    /\ ords[o].status = "none"
    /\ Mul(price, qty) > 0
    /\ LET new == [id |-> o, user |-> u, side |-> side, price |-> price,
                   remaining |-> qty, status |-> "live"]
       IN  /\ Commit(ReserveOrderFunds(Tables, new))
           /\ ords' = [ords EXCEPT ![o] = new]
    /\ UNCHANGED <<depPending, depSettled, cb, wds, manual, supply>>

\* b and s fill each other for the smaller of their remaining quantities at
\* the price of the one that was resting.
Fill(b, s, maker) ==
    LET qty == IF ords[b].remaining <= ords[s].remaining
               THEN ords[b].remaining ELSE ords[s].remaining
    IN  [qty |-> qty, quote |-> Mul(qty, ords[maker].price)]

afterFill(o, qty) ==
    [o EXCEPT !.remaining = SubFloorZero(@, qty),
              !.status = IF SubFloorZero(o.remaining, qty) = 0
                         THEN "done" ELSE "live"]

Trade(b, s, maker) ==
    /\ ords[b].status = "live" /\ ords[b].side = "buy"
    /\ ords[s].status = "live" /\ ords[s].side = "sell"
    /\ ords[b].user # ords[s].user
    /\ ords[b].price >= ords[s].price
    /\ maker \in {b, s}
    /\ LET t == Fill(b, s, maker)
       IN  /\ Commit(settleTrade(Tables, t, ords[b], ords[s]))
           /\ ords' = [ords EXCEPT ![b] = afterFill(@, t.qty),
                                   ![s] = afterFill(@, t.qty)]
    /\ UNCHANGED <<depPending, depSettled, cb, wds, manual, supply>>

\* Cancel, or the expiry of an immediate-or-cancel order.
ReleaseOrder(o) ==
    /\ ords[o].status = "live"
    /\ Commit(ReleaseOrderFunds(Tables, ords[o]))
    /\ ords' = [ords EXCEPT ![o].status = "done"]
    /\ UNCHANGED <<depPending, depSettled, cb, wds, manual, supply>>

\* A triggered stop order that meets its own user's order expires without a
\* call of ReleaseOrderFunds.
ExpireStop(o) ==
    /\ ords[o].status = "live"
    /\ ords' = [ords EXCEPT ![o].status = "done"]
    /\ UNCHANGED <<bal, res, depPending, depSettled, cb, wds, manual, supply>>

-----------------------------------------------------------------------------
Next ==
    \/ \E d \in Deliveries :
          \/ ReadSettledEvent(d)
          \/ ReadPendingEvent(d)
          \/ ApplyCallback(d)
          \/ DropCallback(d)
    \/ \E k \in AccountKeys, amount \in Amounts :
          \/ ManualMarkDepositPending(k, amount)
          \/ ManualSettleDeposit(k, amount)
          \/ \E w \in WithdrawalIds : RequestWithdrawal(w, k, amount)
    \/ \E w \in WithdrawalIds : CompleteWithdrawal(w) \/ CancelWithdrawal(w)
    \/ \E o \in OrderIds, u \in Users, side \in {"buy", "sell"},
          price \in Prices, qty \in Amounts : PlaceOrder(o, u, side, price, qty)
    \/ \E b, s, maker \in OrderIds : Trade(b, s, maker)
    \/ \E o \in OrderIds : ReleaseOrder(o) \/ ExpireStop(o)

Spec == Init /\ [][Next]_vars

-----------------------------------------------------------------------------
(* Properties.                                                             *)

\* The tables hold natural numbers only: no debit in the repository ever takes
\* more than is there, so SubFloorZero never hides a shortfall.
TypeOK ==
    /\ bal \in [AccountKeys -> Balance]
    /\ res \in [OrderIds -> Reservation]
    /\ ords \in [OrderIds -> Order]
    /\ depPending \in [Refs -> Event]
    /\ depSettled \in [Refs -> Event]
    /\ cb \in [Deliveries -> CallbackState]
    /\ wds \in [WithdrawalIds -> Withdrawal]
    /\ manual \in [AccountKeys -> [marked : Nat, settled : BOOLEAN]]
    /\ supply \in [Assets -> Int]

\* An account's locked balance is exactly the sum of what its orders'
\* reservations still hold: settleTrade debits the buyer's lock at the limit
\* price, consumes at the trade price and releases the difference in three
\* separate updates, and a release is clamped by two other tables, and still
\* nothing is lost or counted twice.
LockedIsReserved == LockedCovered(bal, res)

\* A reservation's amount is always consumed + released + remaining, and its
\* status says which: no order ever spends more than was reserved for it.
ReservationBalanced == \A o \in OrderIds : BalancedRow(res[o])

\* Trading, reserving, releasing and canceling never create or destroy funds:
\* the users' balances of an asset add up to the deposits minus the completed
\* withdrawals.
SupplyConserved == \A a \in Assets : TotalIs(holding(bal, a), NumUsers, supply[a])

\* The gateway reports one account and one amount for a reference.
ConsistentGateway ==
    \A d, e \in Deliveries :
        d.ref = e.ref => d.account = e.account /\ d.amount = e.amount

announced(k) == [r \in Refs |-> IF depPending[r].account = k THEN depPending[r].amount ELSE 0]
credited(k) == [r \in Refs |-> IF depSettled[r].account = k THEN depSettled[r].amount ELSE 0]
unsettled(k) == [r \in Refs |-> announced(k)[r] - credited(k)[r]]
requested(k) ==
    [w \in WithdrawalIds |-> IF wds[w].status = "requested" /\ wds[w].account = k
                             THEN wds[w].amount ELSE 0]

\* The pending balance is shared by deposits that are announced but not
\* settled and by withdrawals that are requested but not finalized.  With a
\* gateway that does not contradict itself it always covers both exactly, so
\* that a settlement never takes a withdrawal's funds and a requested
\* withdrawal can always be completed or canceled, however the callbacks are
\* duplicated, reordered or interleaved.  An account the operator's endpoints were used on
\* is excepted: they can settle what was never announced.
PendingBacked ==
    ConsistentGateway =>
        \A k \in AccountKeys :
            manual[k] = NoManual =>
                \E v \in 0..bal[k].pending :
                    /\ TotalIs(unsettled(k), MaxRefs, v)
                    /\ TotalIs(requested(k), MaxWithdrawals, bal[k].pending - v)

=============================================================================
