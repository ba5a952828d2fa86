--------------------------- MODULE AccountsProofs ---------------------------
(***************************************************************************)
(* Accounts keeps its tables well-formed, its reservations balanced and    *)
(* every locked balance equal to the sum of the reservations on it, for    *)
(* any number of users, orders, deposits and withdrawals.                  *)
(***************************************************************************)
EXTENDS Accounts, LedgerProofs

-----------------------------------------------------------------------------
(* The inductive invariant.  A trade and a release charge the reservation  *)
(* of an order and the account the order draws on; they agree only because *)
(* a live order still has its reservation, on that account.                *)

LiveReserved ==
    \A o \in OrderIds :
        /\ ords[o].id = o
        /\ ords[o].status = "live" =>
              /\ res[o].status # "none"
              /\ res[o].account = reserveAccount(ords[o])

LedgerInv ==
    /\ TypeOK
    /\ ReservationBalanced
    /\ LockedIsReserved
    /\ LiveReserved

\* The tables a transaction starts from.
LEMMA TablesSound ==
    ASSUME LedgerInv
    PROVE  /\ Tables \in Funds
           /\ RowsBalanced(Tables)
           /\ LockedCovered(Tables.bal, Tables.res)
           /\ Tables.bal = bal /\ Tables.res = res /\ Tables.ok
BY DEF LedgerInv, TypeOK, ReservationBalanced, LockedIsReserved, Tables,
       Funds, RowsBalanced

\* A live order as the ledger operations see it.
LEMMA OrderIsOrder ==
    ASSUME NEW o \in Order
    PROVE  IsOrder(o)
BY DEF Order, IsOrder

\* The commit of a deposit or withdrawal keeps locks and reservations.
LEMMA CommitKeepsLocks ==
    ASSUME LedgerInv, NEW g, KeepsLocks(Tables, g), Commit(g)
    PROVE  /\ bal' \in [AccountKeys -> Balance]
           /\ res' = res
           /\ LockedIsReserved'
<1>1. /\ g \in Funds
      /\ g.res = res
      /\ \A q \in AccountKeys : g.bal[q].locked = bal[q].locked
  BY TablesSound DEF KeepsLocks, Commit
<1>2. bal' = g.bal /\ res' = res
  BY <1>1 DEF Commit
<1>3. bal' \in [AccountKeys -> Balance]
  BY <1>1, <1>2 DEF Funds
<1>4. \A q \in AccountKeys : bal'[q].locked = bal[q].locked
  BY <1>1, <1>2
<1>5. LockedCovered(bal', res')
  BY <1>2, <1>4 DEF LedgerInv, LockedIsReserved, LockedCovered
<1> QED  BY <1>2, <1>3, <1>5 DEF LockedIsReserved

\* The commit of tables with covered locks and balanced rows.
LEMMA CommitSound ==
    ASSUME NEW g \in Funds, RowsBalanced(g), LockedCovered(g.bal, g.res), Commit(g)
    PROVE  /\ bal' \in [AccountKeys -> Balance]
           /\ res' \in [OrderIds -> Reservation]
           /\ ReservationBalanced'
           /\ LockedIsReserved'
BY DEF Commit, Funds, RowsBalanced, ReservationBalanced, LockedIsReserved

-----------------------------------------------------------------------------
(* One step per action.                                                    *)

\* Every initial state is sound.
LEMMA InitSound == Init => LedgerInv
<1> SUFFICES ASSUME Init PROVE LedgerInv
  OBVIOUS
<1>1. <<1, Base>> \in AccountKeys
  BY LedgerAssumption DEF AccountKeys, Users, Assets
<1>2. NoReservation \in Reservation
  BY <1>1 DEF NoReservation, Reservation, ReservationStatuses
<1>3. \A o \in OrderIds : NoOrder(o) \in Order /\ NoOrder(o).id = o
                          /\ NoOrder(o).status = "none"
  BY LedgerAssumption DEF NoOrder, Order, Users
<1>4. NoWithdrawal \in Withdrawal /\ NoEvent \in Event
  BY <1>1 DEF NoWithdrawal, Withdrawal, NoEvent, Event
<1>5. Row(Opening, 0, 0) \in Balance /\ Row(Opening, 0, 0).locked = 0
  BY AccountsAssumption DEF Row, Balance
<1>6. /\ IdleCallback \in CallbackState
      /\ NoManual \in [marked : Nat, settled : BOOLEAN]
  BY DEF IdleCallback, CallbackState, NoManual
<1>7. NumUsers * Opening \in Int
  BY LedgerAssumption, AccountsAssumption
<1>8. TypeOK
  BY <1>2, <1>3, <1>4, <1>5, <1>6, <1>7 DEF Init, TypeOK
<1>9. ReservationBalanced
  BY DEF Init, ReservationBalanced, BalancedRow, NoReservation
<1>10. LockedIsReserved
  <2> SUFFICES ASSUME NEW k \in AccountKeys
               PROVE  TotalIs(heldBy(res, k), MaxOrders, bal[k].locked)
    BY DEF LockedIsReserved, LockedCovered
  <2>1. bal[k].locked = 0
    BY <1>5 DEF Init
  <2>2. \A i \in 1..MaxOrders : heldBy(res, k)[i] = 0
    BY DEF Init, heldBy, NoReservation, OrderIds
  <2>3. MaxOrders \in Nat /\ MaxOrders * 0 = 0
    BY LedgerAssumption
  <2>4. TotalIs(heldBy(res, k), MaxOrders, MaxOrders * 0)
    BY <2>2, <2>3, TotalConstant
  <2> QED  BY <2>1, <2>3, <2>4
<1>11. LiveReserved
  BY <1>3 DEF Init, LiveReserved
<1> QED  BY <1>8, <1>9, <1>10, <1>11 DEF LedgerInv

\* The reads of a gateway callback change only its own bookkeeping.
LEMMA ReadStep ==
    ASSUME LedgerInv, NEW d \in Deliveries,
           ReadSettledEvent(d) \/ ReadPendingEvent(d) \/ DropCallback(d)
    PROVE  LedgerInv'
<1>1. cb' \in [Deliveries -> CallbackState]
  <2>1. cb \in [Deliveries -> CallbackState]
    BY DEF LedgerInv, TypeOK
  <2>2. CASE ReadSettledEvent(d)
    BY <2>1, <2>2 DEF ReadSettledEvent, CallbackState
  <2>3. CASE ReadPendingEvent(d)
    <3>1. cb[d] \in CallbackState
      BY <2>1
    <3>2. [pc |-> "read", sawSettled |-> cb[d].sawSettled,
           sawPending |-> depPending[d.ref].amount > 0] \in CallbackState
      BY <3>1 DEF CallbackState
    <3> QED  BY <2>1, <2>3, <3>2 DEF ReadPendingEvent
  <2>4. CASE DropCallback(d)
    BY <2>1, <2>4 DEF DropCallback, IdleCallback, CallbackState
  <2> QED  BY <2>2, <2>3, <2>4
<1>2. UNCHANGED <<bal, res, ords, depPending, depSettled, wds, manual, supply>>
  BY DEF ReadSettledEvent, ReadPendingEvent, DropCallback
<1> QED  BY <1>1, <1>2 DEF LedgerInv, TypeOK, ReservationBalanced,
              LockedIsReserved, LiveReserved

\* A callback that is applied only moves available and pending balances.
LEMMA ApplyStep ==
    ASSUME LedgerInv, NEW d \in Deliveries, ApplyCallback(d)
    PROVE  LedgerInv'
<1>1. d.account \in AccountKeys /\ d.amount \in Nat /\ d.ref \in Refs
  BY AccountsAssumption
<1>2. Tables \in Funds
  BY TablesSound
<1>3. PICK mark : mark = createEvent(MarkDepositPending(Tables, d.account, d.amount),
                                     depPending, d.ref)
  OBVIOUS
<1>4. KeepsLocks(Tables, mark)
  <2>1. KeepsLocks(Tables, MarkDepositPending(Tables, d.account, d.amount))
    BY <1>1, <1>2, MarkKeepsLocks
  <2>2. PICK m : m = MarkDepositPending(Tables, d.account, d.amount)
    OBVIOUS
  <2>3. KeepsLocks(Tables, m) /\ KeepsLocks(m, Fail(m))
    BY <2>1, <2>2, FailKeepsLocks DEF KeepsLocks
  <2> QED  BY <1>3, <2>2, <2>3 DEF createEvent, KeepsLocks
<1>5. KeepsLocks(Tables, callbackFunds(d))
  <2>1. CASE d.status = "pending"
    BY <1>3, <1>4, <2>1 DEF callbackFunds
  <2>2. CASE d.status # "pending"
    <3>1. PICK m : m = IF cb[d].sawPending THEN Tables ELSE mark
      OBVIOUS
    <3>2. KeepsLocks(Tables, m)
      BY <1>2, <1>4, <3>1, FailKeepsLocks
    <3>3. PICK n : n = SettleDeposit(m, d.account, d.amount)
      OBVIOUS
    <3>4. m \in Funds
      BY <3>2 DEF KeepsLocks
    <3>5. KeepsLocks(m, n)
      BY <1>1, <3>3, <3>4, PendingKeepsLocks
    <3>6. KeepsLocks(n, Fail(n))
      BY <3>5, FailKeepsLocks DEF KeepsLocks
    <3>7. callbackFunds(d) = createEvent(n, depSettled, d.ref)
      BY <1>3, <2>2, <3>1, <3>3 DEF callbackFunds
    <3> QED  BY <3>2, <3>5, <3>6, <3>7 DEF createEvent, KeepsLocks
  <2> QED  BY <2>1, <2>2
<1>6. Commit(callbackFunds(d))
  BY DEF ApplyCallback
<1>7. bal' \in [AccountKeys -> Balance] /\ res' = res /\ LockedIsReserved'
  BY <1>5, <1>6, CommitKeepsLocks
<1>8. /\ depPending' \in [Refs -> Event]
      /\ depSettled' \in [Refs -> Event]
      /\ cb' \in [Deliveries -> CallbackState]
      /\ supply' \in [Assets -> Int]
  <2>1. depositEvent(d) \in Event
    BY <1>1 DEF depositEvent, Event
  <2>2. IdleCallback \in CallbackState
    BY DEF IdleCallback, CallbackState
  <2>3. \A a \in Assets : supply[a] + d.amount \in Int
    BY <1>1 DEF LedgerInv, TypeOK
  <2> QED  BY <2>1, <2>2, <2>3 DEF ApplyCallback, LedgerInv, TypeOK
<1>9. UNCHANGED <<ords, wds, manual>>
  BY DEF ApplyCallback
<1> QED  BY <1>7, <1>8, <1>9 DEF LedgerInv, TypeOK, ReservationBalanced, LiveReserved

\* Operator deposits and withdrawals move available and pending balances.
LEMMA ManualStep ==
    ASSUME LedgerInv, NEW k \in AccountKeys, NEW x \in Amounts,
           ManualMarkDepositPending(k, x) \/ ManualSettleDeposit(k, x)
    PROVE  LedgerInv'
<1>1. x \in Nat /\ Tables \in Funds
  BY AccountsAssumption, TablesSound
<1>2. bal' \in [AccountKeys -> Balance] /\ res' = res /\ LockedIsReserved'
  BY <1>1, MarkKeepsLocks, PendingKeepsLocks, CommitKeepsLocks
     DEF ManualMarkDepositPending, ManualSettleDeposit
<1>3. /\ manual' \in [AccountKeys -> [marked : Nat, settled : BOOLEAN]]
      /\ supply' \in [Assets -> Int]
  <2>1. /\ manual \in [AccountKeys -> [marked : Nat, settled : BOOLEAN]]
        /\ supply \in [Assets -> Int]
    BY DEF LedgerInv, TypeOK
  <2>2. CASE ManualMarkDepositPending(k, x)
    <3>1. /\ manual' = [manual EXCEPT ![k].marked = @ + x]
          /\ supply' = [supply EXCEPT ![k[2]] = @ + x]
      BY <2>2 DEF ManualMarkDepositPending
    <3>2. manual[k].marked + x \in Nat
      BY <1>1, <2>1
    <3>3. manual' \in [AccountKeys -> [marked : Nat, settled : BOOLEAN]]
      BY <2>1, <3>1, <3>2
    <3>4. k[2] \in Assets
      BY DEF AccountKeys
    <3>5. supply[k[2]] + x \in Int
      BY <1>1, <2>1, <3>4
    <3>6. supply' \in [Assets -> Int]
      BY <2>1, <3>1, <3>5
    <3> QED  BY <3>3, <3>6
  <2>3. CASE ManualSettleDeposit(k, x)
    BY <2>1, <2>3 DEF ManualSettleDeposit
  <2> QED  BY <2>2, <2>3
<1>4. UNCHANGED <<ords, depPending, depSettled, cb, wds>>
  BY DEF ManualMarkDepositPending, ManualSettleDeposit
<1> QED  BY <1>2, <1>3, <1>4 DEF LedgerInv, TypeOK, ReservationBalanced, LiveReserved

\* A withdrawal request moves the amount from available to pending.
LEMMA RequestStep ==
    ASSUME LedgerInv, NEW w \in WithdrawalIds, NEW k \in AccountKeys,
           NEW x \in Amounts, RequestWithdrawal(w, k, x)
    PROVE  LedgerInv'
<1>1. x \in Nat /\ Tables \in Funds
  BY AccountsAssumption, TablesSound
<1>2. bal' \in [AccountKeys -> Balance] /\ res' = res /\ LockedIsReserved'
  BY <1>1, PendingKeepsLocks, CommitKeepsLocks DEF RequestWithdrawal
<1>3. wds' \in [WithdrawalIds -> Withdrawal]
  BY <1>1 DEF RequestWithdrawal, LedgerInv, TypeOK, Withdrawal
<1>4. UNCHANGED <<ords, depPending, depSettled, cb, manual, supply>>
  BY DEF RequestWithdrawal
<1> QED  BY <1>2, <1>3, <1>4 DEF LedgerInv, TypeOK, ReservationBalanced, LiveReserved

\* A finalized withdrawal takes it out of pending.
LEMMA FinalizeStep ==
    ASSUME LedgerInv, NEW w \in WithdrawalIds,
           NEW status \in {"completed", "canceled"}, finalizeWithdrawal(w, status)
    PROVE  LedgerInv'
<1>1. /\ wds[w].account \in AccountKeys
      /\ wds[w].amount \in Nat
      /\ Tables \in Funds
  BY TablesSound DEF LedgerInv, TypeOK, Withdrawal
<1>2. bal' \in [AccountKeys -> Balance] /\ res' = res /\ LockedIsReserved'
  <2>1. PICK g : g = FinalizeHold(Tables, wds[w].account, wds[w].amount,
                                  status = "canceled")
    OBVIOUS
  <2>2. Commit(g)
    BY <2>1 DEF finalizeWithdrawal
  <2>3. KeepsLocks(Tables, g)
    BY <1>1, <2>1, PendingKeepsLocks
  <2> QED  BY <2>2, <2>3, CommitKeepsLocks
<1>3. wds' \in [WithdrawalIds -> Withdrawal]
  BY DEF finalizeWithdrawal, LedgerInv, TypeOK, Withdrawal
<1>4. supply' \in [Assets -> Int]
  <2>1. \A a \in Assets : supply[a] - wds[w].amount \in Int
    BY <1>1 DEF LedgerInv, TypeOK
  <2> QED  BY <2>1 DEF finalizeWithdrawal, LedgerInv, TypeOK
<1>5. UNCHANGED <<ords, depPending, depSettled, cb, manual>>
  BY DEF finalizeWithdrawal
<1> QED  BY <1>2, <1>3, <1>4, <1>5 DEF LedgerInv, TypeOK, ReservationBalanced,
              LiveReserved

\* A new order: its reservation is what it locked.
LEMMA PlaceStep ==
    ASSUME LedgerInv, NEW o \in OrderIds, NEW u \in Users,
           NEW side \in {"buy", "sell"}, NEW price \in Prices, NEW qty \in Amounts,
           PlaceOrder(o, u, side, price, qty)
    PROVE  LedgerInv'
<1>1. PICK new : new = [id |-> o, user |-> u, side |-> side, price |-> price,
                        remaining |-> qty, status |-> "live"]
  OBVIOUS
<1>2. price \in Nat /\ qty \in Nat /\ qty > 0
  BY AccountsAssumption
<1>3. new \in Order /\ new.id = o
  BY <1>1, <1>2 DEF Order
<1>4. IsOrder(new)
  BY <1>3, OrderIsOrder
<1>5. orderReserveAmount(new) > 0
  BY <1>1, <1>2 DEF PlaceOrder, orderReserveAmount
<1>6. PICK g : g = ReserveOrderFunds(Tables, new)
  OBVIOUS
<1>7. Commit(g) /\ ords' = [ords EXCEPT ![o] = new]
  BY <1>1, <1>6 DEF PlaceOrder
<1>8. g.ok
  BY <1>7 DEF Commit
<1>9. /\ g \in Funds
      /\ Tables.res[o].remaining = 0
      /\ OrderEffect(Tables, g, o, reserveAccount(new))
      /\ RowsBalanced(g)
  BY <1>3, <1>4, <1>5, <1>6, <1>8, TablesSound, ReserveEffect
<1>10. reserveAccount(new) \in AccountKeys
  BY <1>4, ReserveType
<1>11. LockedCovered(g.bal, g.res)
  BY <1>9, <1>10, TablesSound, OrderEffectCovers
<1>12. /\ bal' \in [AccountKeys -> Balance]
       /\ res' \in [OrderIds -> Reservation]
       /\ ReservationBalanced'
       /\ LockedIsReserved'
  BY <1>7, <1>9, <1>11, CommitSound
<1>13. ords' \in [OrderIds -> Order]
  BY <1>3, <1>7 DEF LedgerInv, TypeOK
<1>14. LiveReserved'
  <2>1. res' = g.res
    BY <1>7 DEF Commit
  <2>2. \A p \in OrderIds \ {o} : res'[p] = res[p] /\ ords'[p] = ords[p]
    BY <1>7, <1>9, <2>1, TablesSound DEF OrderEffect, LedgerInv, TypeOK
  <2>3. /\ ords'[o] = new
        /\ res'[o].status # "none"
        /\ res'[o].account = reserveAccount(new)
    BY <1>7, <1>9, <2>1 DEF OrderEffect, LedgerInv, TypeOK
  <2> QED  BY <1>3, <2>2, <2>3 DEF LiveReserved, LedgerInv
<1>15. UNCHANGED <<depPending, depSettled, cb, wds, manual, supply>>
  BY DEF PlaceOrder
<1> QED  BY <1>12, <1>13, <1>14, <1>15 DEF LedgerInv, TypeOK

\* A cancel or expiry: the release takes the same amount out of the lock and
\* out of the reservation.
LEMMA ReleaseStep ==
    ASSUME LedgerInv, NEW o \in OrderIds, ReleaseOrder(o)
    PROVE  LedgerInv'
<1>1. ords[o] \in Order /\ ords[o].id = o
  BY DEF LedgerInv, TypeOK, LiveReserved
<1>2. IsOrder(ords[o])
  BY <1>1, OrderIsOrder
<1>3. Tables.res[o].status # "none" /\ Tables.res[o].account = reserveAccount(ords[o])
  BY TablesSound DEF ReleaseOrder, LedgerInv, LiveReserved
<1>4. PICK g : g = ReleaseOrderFunds(Tables, ords[o])
  OBVIOUS
<1>5. Commit(g)
  BY <1>4 DEF ReleaseOrder
<1>6. g.ok
  BY <1>5 DEF Commit
<1>7. /\ g \in Funds
      /\ OrderEffect(Tables, g, o, reserveAccount(ords[o]))
      /\ RowsBalanced(g)
  BY <1>1, <1>2, <1>3, <1>4, <1>6, TablesSound, ReleaseEffect
<1>8. reserveAccount(ords[o]) \in AccountKeys
  BY <1>2, ReserveType
<1>9. LockedCovered(g.bal, g.res)
  BY <1>3, <1>7, <1>8, TablesSound, OrderEffectCovers
<1>10. /\ bal' \in [AccountKeys -> Balance]
       /\ res' \in [OrderIds -> Reservation]
       /\ ReservationBalanced'
       /\ LockedIsReserved'
  BY <1>5, <1>7, <1>9, CommitSound
<1>11. ords' \in [OrderIds -> Order]
  BY <1>1 DEF ReleaseOrder, LedgerInv, TypeOK, Order
<1>12. LiveReserved'
  <2>1. \A p \in OrderIds \ {o} : res'[p] = res[p] /\ ords'[p] = ords[p]
    BY <1>5, <1>7, TablesSound DEF Commit, OrderEffect, ReleaseOrder, LedgerInv, TypeOK
  <2>2. ords'[o].id = o /\ ords'[o].status = "done"
    BY <1>1 DEF ReleaseOrder, LedgerInv, TypeOK, Order
  <2> QED  BY <2>1, <2>2 DEF LiveReserved, LedgerInv
<1>13. UNCHANGED <<depPending, depSettled, cb, wds, manual, supply>>
  BY DEF ReleaseOrder
<1> QED  BY <1>10, <1>11, <1>12, <1>13 DEF LedgerInv, TypeOK

\* An expired stop order leaves every table of the ledger as it is.
LEMMA ExpireStep ==
    ASSUME LedgerInv, NEW o \in OrderIds, ExpireStop(o)
    PROVE  LedgerInv'
<1>1. ords' \in [OrderIds -> Order]
  BY DEF ExpireStop, LedgerInv, TypeOK, Order
<1>2. \A p \in OrderIds : /\ ords'[p].id = ords[p].id
                          /\ ords'[p].status = "live" => ords'[p] = ords[p]
  BY DEF ExpireStop, LedgerInv, TypeOK, Order
<1>3. UNCHANGED <<bal, res, depPending, depSettled, cb, wds, manual, supply>>
  BY DEF ExpireStop
<1> QED  BY <1>1, <1>2, <1>3 DEF LedgerInv, TypeOK, ReservationBalanced,
              LockedIsReserved, LiveReserved

\* A fill changes an order's remaining quantity and status only.
LEMMA AfterFill ==
    ASSUME NEW o \in Order, NEW q \in Nat
    PROVE  /\ afterFill(o, q) \in Order
           /\ afterFill(o, q).id = o.id
           /\ reserveAccount(afterFill(o, q)) = reserveAccount(o)
<1>1. SubFloorZero(o.remaining, q) \in Nat
  BY DEF SubFloorZero, Order
<1>2. PICK left \in Nat, st \in {"live", "done"} :
         afterFill(o, q) = [o EXCEPT !.remaining = left, !.status = st]
  BY <1>1 DEF afterFill
<1> QED  BY <1>2 DEF Order, reserveAccount

\* A trade: an order effect on the buyer's order, then one on the seller's.
LEMMA TradeStep ==
    ASSUME LedgerInv, NEW b \in OrderIds, NEW s \in OrderIds, NEW maker \in OrderIds,
           Trade(b, s, maker)
    PROVE  LedgerInv'
<1>1. /\ ords[b] \in Order /\ ords[b].id = b /\ ords[b].side = "buy"
      /\ ords[s] \in Order /\ ords[s].id = s /\ ords[s].side = "sell"
      /\ ords[maker] \in Order
      /\ b # s
  BY DEF LedgerInv, TypeOK, LiveReserved, Trade
<1>2. IsOrder(ords[b]) /\ IsOrder(ords[s])
  BY <1>1, OrderIsOrder
<1>3. PICK t : t = Fill(b, s, maker)
  OBVIOUS
<1>4. t.qty \in Nat /\ t.quote \in Nat
  <2>1. t.qty \in Nat
    BY <1>1, <1>3 DEF Fill, Order
  <2>2. ords[maker].price \in Nat
    BY <1>1 DEF Order
  <2>3. t.quote = Mul(t.qty, ords[maker].price)
    BY <1>3 DEF Fill
  <2> QED  BY <2>1, <2>2, <2>3, MulType
<1>5. /\ Tables.res[b].status # "none" /\ Tables.res[b].account = reserveAccount(ords[b])
      /\ Tables.res[s].status # "none" /\ Tables.res[s].account = reserveAccount(ords[s])
  BY TablesSound DEF Trade, LedgerInv, LiveReserved
<1>6. PICK g : g = settleTrade(Tables, t, ords[b], ords[s])
  OBVIOUS
<1>7. /\ Commit(g)
      /\ ords' = [ords EXCEPT ![b] = afterFill(@, t.qty), ![s] = afterFill(@, t.qty)]
  BY <1>3, <1>6 DEF Trade
<1>8. g.ok
  BY <1>7 DEF Commit
<1>9. /\ g \in Funds
      /\ RowsBalanced(g)
      /\ \E m \in Funds : /\ OrderEffect(Tables, m, b, reserveAccount(ords[b]))
                          /\ OrderEffect(m, g, s, reserveAccount(ords[s]))
  BY <1>1, <1>2, <1>4, <1>5, <1>6, <1>8, TablesSound, SettleTradeEffect
<1>10. PICK m \in Funds : /\ OrderEffect(Tables, m, b, reserveAccount(ords[b]))
                          /\ OrderEffect(m, g, s, reserveAccount(ords[s]))
  BY <1>9
<1>11. reserveAccount(ords[b]) \in AccountKeys /\ reserveAccount(ords[s]) \in AccountKeys
  BY <1>2, ReserveType
<1>12. LockedCovered(m.bal, m.res)
  BY <1>5, <1>10, <1>11, TablesSound, OrderEffectCovers
<1>13. m.res[s] = Tables.res[s]
  BY <1>1, <1>10 DEF OrderEffect
<1>14. LockedCovered(g.bal, g.res)
  BY <1>5, <1>9, <1>10, <1>11, <1>12, <1>13, OrderEffectCovers
<1>15. /\ bal' \in [AccountKeys -> Balance]
       /\ res' \in [OrderIds -> Reservation]
       /\ ReservationBalanced'
       /\ LockedIsReserved'
  BY <1>7, <1>9, <1>14, CommitSound
<1>16. PICK nb \in Order, ns \in Order :
          /\ nb = afterFill(ords[b], t.qty) /\ nb.id = b
          /\ reserveAccount(nb) = reserveAccount(ords[b])
          /\ ns = afterFill(ords[s], t.qty) /\ ns.id = s
          /\ reserveAccount(ns) = reserveAccount(ords[s])
  <2>1. /\ afterFill(ords[b], t.qty) \in Order
        /\ afterFill(ords[b], t.qty).id = b
        /\ reserveAccount(afterFill(ords[b], t.qty)) = reserveAccount(ords[b])
    BY <1>1, <1>4, AfterFill
  <2>2. /\ afterFill(ords[s], t.qty) \in Order
        /\ afterFill(ords[s], t.qty).id = s
        /\ reserveAccount(afterFill(ords[s], t.qty)) = reserveAccount(ords[s])
    BY <1>1, <1>4, AfterFill
  <2> QED  BY <2>1, <2>2
<1>17. /\ ords' \in [OrderIds -> Order]
       /\ ords'[b] = nb /\ ords'[s] = ns
       /\ \A p \in OrderIds \ {b, s} : ords'[p] = ords[p]
  <2>1. ords \in [OrderIds -> Order]
    BY DEF LedgerInv, TypeOK
  <2>2. ords' = [[ords EXCEPT ![b] = nb] EXCEPT ![s] = ns]
    BY <1>1, <1>7, <1>16, <2>1
  <2> QED  BY <1>1, <2>1, <2>2
<1>18. LiveReserved'
  <2>1. res' = g.res
    BY <1>7 DEF Commit
  <2>2. \A p \in OrderIds \ {b, s} : res'[p] = res[p]
    BY <1>10, <2>1, TablesSound DEF OrderEffect
  <2>3. res'[s].status # "none" /\ res'[s].account = reserveAccount(ords[s])
    BY <1>10, <2>1 DEF OrderEffect
  <2>4. res'[b].status # "none" /\ res'[b].account = reserveAccount(ords[b])
    BY <1>1, <1>10, <2>1 DEF OrderEffect
  <2>5. \A p \in OrderIds \ {b, s} :
           /\ ords'[p].id = p
           /\ ords'[p].status = "live" =>
                 res'[p].status # "none" /\ res'[p].account = reserveAccount(ords'[p])
    BY <1>17, <2>2 DEF LedgerInv, LiveReserved
  <2>6. /\ ords'[b].id = b
        /\ res'[b].status # "none" /\ res'[b].account = reserveAccount(ords'[b])
    BY <1>16, <1>17, <2>4
  <2>7. /\ ords'[s].id = s
        /\ res'[s].status # "none" /\ res'[s].account = reserveAccount(ords'[s])
    BY <1>16, <1>17, <2>3
  <2> QED  BY <2>5, <2>6, <2>7 DEF LiveReserved
<1>19. UNCHANGED <<depPending, depSettled, cb, wds, manual, supply>>
  BY DEF Trade
<1> QED  BY <1>15, <1>17, <1>18, <1>19 DEF LedgerInv, TypeOK

-----------------------------------------------------------------------------
(* Conservation.  What a transaction does to the users' total of each      *)
(* asset is what it puts on the books.                                     *)

\* The commit of a transaction whose effect is what is put on the books.
LEMMA CommitConserves ==
    ASSUME LedgerInv, SupplyConserved, NEW D \in [Assets -> Int], NEW g,
           Effect(Tables, g, D), Commit(g),
           \A a \in Assets : supply'[a] = supply[a] + D[a]
    PROVE  SupplyConserved'
<1> SUFFICES ASSUME NEW a \in Assets
             PROVE  TotalIs(holding(bal', a), NumUsers, supply'[a])
  BY DEF SupplyConserved, holding
<1>1. TotalIs(holding(bal, a), NumUsers, supply[a]) /\ supply[a] \in Int
  BY DEF SupplyConserved, LedgerInv, TypeOK
<1>2. supply[a] \in Nat
  <2>1. PICK t \in [0..NumUsers -> 0..supply[a]] : TRUE
    BY <1>1 DEF TotalIs
  <2>2. 0 \in 0..NumUsers
    BY LedgerAssumption
  <2>3. t[0] \in 0..supply[a]
    BY <2>1, <2>2
  <2> QED  BY <1>1, <2>3
<1>3. g.ok /\ bal' = g.bal /\ Tables.bal = bal
  BY TablesSound DEF Commit
<1>4. Gains(bal, bal', a, D[a])
  BY <1>3 DEF Effect
<1>5. TotalIs(holding(bal', a), NumUsers, supply[a] + D[a])
  BY <1>1, <1>2, <1>4 DEF Gains
<1> QED  BY <1>5

\* Every action conserves the funds.
LEMMA ConserveStep ==
    ASSUME LedgerInv, SupplyConserved, [Next]_vars
    PROVE  SupplyConserved'
<1>0. /\ Tables \in Funds /\ RowsBalanced(Tables)
      /\ supply \in [Assets -> Int]
      /\ Nothing \in [Assets -> Int]
  BY TablesSound, EffectTypes DEF LedgerInv, TypeOK
<1>1. ASSUME UNCHANGED <<bal, supply>> PROVE SupplyConserved'
  BY <1>1 DEF SupplyConserved, holding
<1>2. ASSUME NEW g, Effect(Tables, g, Nothing), Commit(g), UNCHANGED supply
      PROVE  SupplyConserved'
  <2>1. \A a \in Assets : supply'[a] = supply[a] + Nothing[a]
    BY <1>0, <1>2 DEF Nothing
  <2> QED  BY <1>0, <1>2, <2>1, CommitConserves
<1>3. ASSUME NEW g, NEW k \in AccountKeys, NEW d \in Int,
             Effect(Tables, g, At(k, d)), Commit(g),
             supply' = [supply EXCEPT ![k[2]] = @ + d]
      PROVE  SupplyConserved'
  <2>1. \A a \in Assets : supply'[a] = supply[a] + At(k, d)[a]
    BY <1>0, <1>3 DEF At
  <2>2. At(k, d) \in [Assets -> Int]
    BY EffectTypes
  <2> QED  BY <1>3, <2>1, <2>2, CommitConserves
<1>4. ASSUME NEW g, NEW k \in AccountKeys,
             Effect(Tables, g, At(k, 0)), Commit(g), UNCHANGED supply
      PROVE  SupplyConserved'
  <2>1. Effect(Tables, g, Nothing)
    <3>1. \A a \in Assets : At(k, 0)[a] = Nothing[a]
      BY DEF At, Nothing
    <3> QED  BY <1>4, <3>1 DEF Effect
  <2> QED  BY <1>2, <1>4, <2>1
<1>5. ASSUME NEW d \in Deliveries, ApplyCallback(d)
      PROVE  SupplyConserved'
  <2>1. PICK k \in AccountKeys, x \in Nat : k = d.account /\ x = d.amount
    BY AccountsAssumption
  <2>0. x \in Int
    OBVIOUS
  <2>2. PICK paid : paid = MarkDepositPending(Tables, k, x)
    OBVIOUS
  <2>3. PICK mark : mark = createEvent(paid, depPending, d.ref)
    OBVIOUS
  <2>4. paid \in Funds /\ Effect(Tables, paid, At(k, x))
    BY <1>0, <2>2, MarkEffect DEF Effect
  <2>5. mark \in Funds /\ Effect(Tables, mark, At(k, x))
    <3>1. mark \in {paid, Fail(paid)}
      BY <2>3 DEF createEvent
    <3>2. paid.ok => Tables.ok
      BY <2>4 DEF Effect
    <3>3. Fail(paid) \in Funds /\ ~Fail(paid).ok
      BY <2>4 DEF Fail, Funds
    <3> QED  BY <2>4, <3>1, <3>3 DEF Effect
  <2>6. Commit(callbackFunds(d))
    BY <1>5 DEF ApplyCallback
  <2>7. CASE d.status = "pending"
    <3>1. callbackFunds(d) = mark
      BY <2>1, <2>2, <2>3, <2>7 DEF callbackFunds
    <3>2. ~cb[d].sawPending
      BY <1>5, <2>7 DEF ApplyCallback, isDuplicate
    <3>3. supply' = [supply EXCEPT ![k[2]] = @ + x]
      BY <1>5, <2>1, <3>2 DEF ApplyCallback
    <3> QED  BY <1>3, <2>0, <2>5, <2>6, <3>1, <3>3, Zenon
  <2>8. CASE d.status # "pending"
    <3>1. PICK m : m = IF cb[d].sawPending THEN Tables ELSE mark
      OBVIOUS
    <3>2. PICK n : n = SettleDeposit(m, k, x)
      OBVIOUS
    <3>3. callbackFunds(d) = createEvent(n, depSettled, d.ref)
      BY <2>1, <2>2, <2>3, <2>8, <3>1, <3>2 DEF callbackFunds
    <3>4. m \in Funds
      BY <1>0, <2>5, <3>1
    <3>5. n \in Funds /\ Effect(m, n, At(k, 0))
      BY <3>2, <3>4, SettleEffect DEF Effect
    <3>6. callbackFunds(d) = n
      <4>1. ~Fail(n).ok
        BY <3>5 DEF Fail, Funds
      <4> QED  BY <2>6, <3>3, <4>1 DEF createEvent, Commit
    <3>7. CASE cb[d].sawPending
      <4>1. Effect(Tables, n, At(k, 0)) /\ UNCHANGED supply
        BY <1>5, <3>1, <3>5, <3>7 DEF ApplyCallback
      <4> QED  BY <1>4, <2>6, <3>6, <4>1
    <3>8. CASE ~cb[d].sawPending
      <4>1. Effect(Tables, m, At(k, x))
        BY <2>5, <3>1, <3>8
      <4>2. \A a \in Assets : At(k, x)[a] = At(k, x)[a] + At(k, 0)[a]
        BY DEF At
      <4>3. At(k, x) \in [Assets -> Int] /\ At(k, 0) \in [Assets -> Int]
        BY EffectTypes
      <4>4. Effect(Tables, n, At(k, x))
        BY <3>5, <4>1, <4>2, <4>3, TwoEffects
      <4>5. supply' = [supply EXCEPT ![k[2]] = @ + x]
        BY <1>5, <2>1, <3>8 DEF ApplyCallback
      <4> QED  BY <1>3, <2>0, <2>6, <3>6, <4>4, <4>5, Zenon
    <3> QED  BY <3>7, <3>8
  <2> QED  BY <2>7, <2>8
<1>6. ASSUME NEW k \in AccountKeys, NEW x \in Amounts, ManualMarkDepositPending(k, x)
      PROVE  SupplyConserved'
  <2>1. x \in Nat /\ x \in Int
    BY AccountsAssumption
  <2>2. Effect(Tables, MarkDepositPending(Tables, k, x), At(k, x))
    BY <1>0, <2>1, MarkEffect
  <2> QED  BY <1>3, <1>6, <2>1, <2>2 DEF ManualMarkDepositPending
<1>7. ASSUME NEW k \in AccountKeys, NEW x \in Amounts,
             ManualSettleDeposit(k, x)
               \/ \E w \in WithdrawalIds : RequestWithdrawal(w, k, x)
      PROVE  SupplyConserved'
  <2>1. x \in Nat
    BY AccountsAssumption
  <2>2. Effect(Tables, SettleDeposit(Tables, k, x), At(k, 0))
    BY <1>0, <2>1, SettleEffect
  <2>3. Effect(Tables, HoldWithdrawal(Tables, k, x), At(k, 0))
    BY <1>0, <2>1, HoldEffect
  <2> QED  BY <1>4, <1>7, <2>2, <2>3 DEF ManualSettleDeposit, RequestWithdrawal
<1>8. ASSUME NEW w \in WithdrawalIds, CompleteWithdrawal(w) \/ CancelWithdrawal(w)
      PROVE  SupplyConserved'
  <2>1. PICK k \in AccountKeys, x \in Nat : k = wds[w].account /\ x = wds[w].amount
    BY DEF LedgerInv, TypeOK, Withdrawal
  <2>2. PICK done, back : /\ done = FinalizeHold(Tables, k, x, FALSE)
                          /\ back = FinalizeHold(Tables, k, x, TRUE)
    OBVIOUS
  <2>3. Effect(Tables, done, At(k, 0 - x)) /\ Effect(Tables, back, At(k, 0))
    BY <1>0, <2>2, FinalizeEffect, Zenon
  <2>4. CASE CompleteWithdrawal(w)
    <3>1. Commit(done)
      BY <2>1, <2>2, <2>4 DEF CompleteWithdrawal, finalizeWithdrawal
    <3>2. PICK e \in Int : e = 0 - x
      OBVIOUS
    <3>3. k[2] \in Assets
      BY DEF AccountKeys
    <3>4. supply' = [supply EXCEPT ![k[2]] = @ - x]
      BY <2>1, <2>4 DEF CompleteWithdrawal, finalizeWithdrawal
    <3>5. supply' = [supply EXCEPT ![k[2]] = @ + e]
      <4>1. supply[k[2]] - x = supply[k[2]] + e
        BY <1>0, <3>2, <3>3
      <4> QED  BY <3>4, <4>1, Zenon
    <3> QED  BY <1>3, <2>3, <3>1, <3>2, <3>5
  <2>5. CASE CancelWithdrawal(w)
    <3>1. Commit(back) /\ UNCHANGED supply
      BY <2>1, <2>2, <2>5 DEF CancelWithdrawal, finalizeWithdrawal
    <3> QED  BY <1>4, <2>3, <3>1
  <2> QED  BY <1>8, <2>4, <2>5
<1>9. ASSUME NEW o \in OrderIds, NEW u \in Users, NEW side \in {"buy", "sell"},
             NEW price \in Prices, NEW qty \in Amounts,
             PlaceOrder(o, u, side, price, qty)
      PROVE  SupplyConserved'
  <2>1. PICK new : new = [id |-> o, user |-> u, side |-> side, price |-> price,
                          remaining |-> qty, status |-> "live"]
    OBVIOUS
  <2>2. IsOrder(new)
    BY <2>1, AccountsAssumption DEF IsOrder
  <2>3. PICK g : g = ReserveOrderFunds(Tables, new)
    OBVIOUS
  <2>4. Commit(g) /\ g.ok /\ UNCHANGED supply
    BY <1>9, <2>1, <2>3 DEF PlaceOrder, Commit
  <2>5. Effect(Tables, g, Nothing)
    BY <1>0, <2>2, <2>3, <2>4, ReserveOrderEffect
  <2> QED  BY <1>2, <2>4, <2>5
<1>10. ASSUME NEW b \in OrderIds, NEW s \in OrderIds, NEW maker \in OrderIds,
              Trade(b, s, maker)
       PROVE  SupplyConserved'
  <2>1. ords[b] \in Order /\ ords[s] \in Order /\ ords[maker] \in Order
    BY DEF LedgerInv, TypeOK
  <2>2. PICK t : t = Fill(b, s, maker)
    OBVIOUS
  <2>3. t.qty \in Nat /\ t.quote \in Nat
    <3>1. t.qty \in Nat
      BY <2>1, <2>2 DEF Fill, Order
    <3>2. ords[maker].price \in Nat
      BY <2>1 DEF Order
    <3>3. t.quote = Mul(t.qty, ords[maker].price)
      BY <2>2 DEF Fill
    <3> QED  BY <3>1, <3>2, <3>3, MulType
  <2>4. PICK g : g = settleTrade(Tables, t, ords[b], ords[s])
    OBVIOUS
  <2>5. Commit(g) /\ g.ok /\ UNCHANGED supply
    BY <1>10, <2>2, <2>4 DEF Trade, Commit
  <2>6. IsOrder(ords[b]) /\ IsOrder(ords[s])
    BY <2>1, OrderIsOrder
  <2>7. Effect(Tables, g, Nothing)
    BY <1>0, <2>3, <2>4, <2>5, <2>6, SettleTradeKeepsTotals
  <2> QED  BY <1>2, <2>5, <2>7
<1>11. ASSUME NEW o \in OrderIds, ReleaseOrder(o)
       PROVE  SupplyConserved'
  <2>1. ords[o] \in Order
    BY DEF LedgerInv, TypeOK
  <2>2. IsOrder(ords[o])
    BY <2>1, OrderIsOrder
  <2>3. Effect(Tables, ReleaseOrderFunds(Tables, ords[o]), Nothing)
    BY <1>0, <2>2, ReleaseOrderEffect
  <2> QED  BY <1>2, <1>11, <2>3 DEF ReleaseOrder
<1>12. CASE UNCHANGED vars
  BY <1>1, <1>12 DEF vars
<1>13. ASSUME NEW d \in Deliveries,
              ReadSettledEvent(d) \/ ReadPendingEvent(d) \/ DropCallback(d)
       PROVE  SupplyConserved'
  BY <1>1, <1>13 DEF ReadSettledEvent, ReadPendingEvent, DropCallback
<1>14. ASSUME NEW o \in OrderIds, ExpireStop(o)
       PROVE  SupplyConserved'
  BY <1>1, <1>14 DEF ExpireStop
<1> QED  BY <1>5, <1>6, <1>7, <1>8, <1>9, <1>10, <1>11, <1>12, <1>13, <1>14 DEF Next

\* Every user opens with the same amount.
LEMMA InitConserves == Init => SupplyConserved
<1> SUFFICES ASSUME Init, NEW a \in Assets
             PROVE  TotalIs(holding(bal, a), NumUsers, supply[a])
  BY DEF SupplyConserved
<1>1. NumUsers \in Nat /\ Opening \in Nat
  BY LedgerAssumption, AccountsAssumption
<1>2. \A i \in 1..NumUsers : holding(bal, a)[i] = Opening
  BY <1>1 DEF holding, Init, Row, Users, AccountKeys
<1>3. TotalIs(holding(bal, a), NumUsers, NumUsers * Opening)
  BY <1>1, <1>2, TotalConstant
<1> QED  BY <1>3 DEF Init

-----------------------------------------------------------------------------
(* The pending balance.  It stays equal to what is announced and requested  *)
(* because an event is written once, a settlement is written after or with  *)
(* the announcement it settles, and no other operation touches it.          *)

\* A callback that saw the announcement is right about it, every announcement
\* came from a delivery, and what is settled was announced.
EventsAgree ==
    /\ \A d \in Deliveries : cb[d].sawPending => depPending[d.ref].amount > 0
    /\ \A r \in Refs : depPending[r].amount > 0 =>
          \E d \in Deliveries : d.ref = r /\ depPending[r] = depositEvent(d)
    /\ \A r \in Refs : depSettled[r].amount > 0 => depSettled[r] = depPending[r]

\* p is the sum of f[1] .. f[n] and of w[1] .. w[m].
Split(f, n, w, m, p) ==
    \E v \in 0..p : TotalIs(f, n, v) /\ TotalIs(w, m, p - v)

PendingShared(k) ==
    Split(unsettled(k), MaxRefs, requested(k), MaxWithdrawals, bal[k].pending)

PendingInv ==
    /\ EventsAgree
    /\ \A k \in AccountKeys : manual[k] = NoManual => PendingShared(k)

KeepsPending(f, g) ==
    /\ g \in Funds
    /\ g.ok => f.ok /\ \A q \in AccountKeys : g.bal[q].pending = f.bal[q].pending

\* Two operations that leave the pending balances, one after the other.
LEMMA KeepsPendingTrans ==
    ASSUME NEW f, NEW g, NEW h, KeepsPending(f, g), KeepsPending(g, h)
    PROVE  KeepsPending(f, h)
BY DEF KeepsPending

\* The operations that orders use.
LEMMA DebitKeepsPending ==
    ASSUME NEW f \in Funds, NEW k \in AccountKeys, NEW x \in Nat
    PROVE  KeepsPending(f, debitLocked(f, k, x))
<1>1. PICK g : g = debitLocked(f, k, x)
  OBVIOUS
<1>2. /\ g \in Funds
      /\ g.ok => f.ok /\ g.bal = [f.bal EXCEPT ![k].locked = @ - x]
  BY <1>1, DebitLocked
<1> QED  BY <1>1, <1>2 DEF KeepsPending, Funds, Balance

\* addAvailableBalance leaves them.
LEMMA CreditKeepsPending ==
    ASSUME NEW f \in Funds, NEW k \in AccountKeys, NEW x \in Nat
    PROVE  KeepsPending(f, addAvailableBalance(f, k, x))
<1>1. PICK g : g = addAvailableBalance(f, k, x)
  OBVIOUS
<1>2. /\ g \in Funds
      /\ g.ok => f.ok /\ g.bal = [f.bal EXCEPT ![k].available = @ + x]
  BY <1>1, AddAvailable
<1> QED  BY <1>1, <1>2 DEF KeepsPending, Funds, Balance

\* applyReservationDelta leaves them.
LEMMA ChargeKeepsPending ==
    ASSUME NEW f \in Funds, NEW id \in OrderIds, NEW x \in Nat, NEW kind
    PROVE  KeepsPending(f, applyReservationDelta(f, id, x, kind))
<1>1. PICK g : g = applyReservationDelta(f, id, x, kind)
  OBVIOUS
<1>2. CASE x > 0 /\ f.res[id].status # "none"
  <2>1. g \in Funds /\ (g.ok => f.ok /\ g.bal = f.bal)
    BY <1>1, <1>2, ReservationDelta
  <2> QED  BY <1>1, <2>1 DEF KeepsPending
<1>3. CASE ~(x > 0 /\ f.res[id].status # "none")
  <2>1. g = f
    BY <1>1, <1>3 DEF applyReservationDelta
  <2> QED  BY <1>1, <2>1 DEF KeepsPending
<1> QED  BY <1>2, <1>3

\* What orders do leaves every pending balance.
LEMMA ReserveKeepsPending ==
    ASSUME NEW f \in Funds, RowsBalanced(f), NEW o, IsOrder(o),
           orderReserveAmount(o) > 0, NEW g, g = ReserveOrderFunds(f, o), g.ok
    PROVE  KeepsPending(f, g)
<1>1. PICK k \in AccountKeys, x \in Nat :
         k = reserveAccount(o) /\ x = orderReserveAmount(o)
  BY ReserveType, Zenon
<1>2. g \in Funds
  BY ReserveEffect
<1>3. ~(f.bal[k].available < x) /\ f.ok
  <2>1. CASE ~f.ok
    BY <2>1 DEF ReserveOrderFunds
  <2>2. CASE f.ok /\ f.bal[k].available < x
    <3>1. g = Fail(f)
      BY <1>1, <2>2 DEF ReserveOrderFunds
    <3> QED  BY <3>1 DEF Fail, Funds
  <2> QED  BY <2>1, <2>2
<1>4. PICK r : r = Row(SubFloorZero(f.bal[k].available, x), f.bal[k].locked + x,
                       f.bal[k].pending)
  OBVIOUS
<1>5. PICK m : m = [f EXCEPT !.bal[k] = r]
  OBVIOUS
<1>6. g = createReservation(m, o.id, k, x)
  <2>1. ~(x <= 0)
    BY <1>1
  <2> QED  BY <1>1, <1>3, <1>4, <1>5, <2>1, Zenon DEF ReserveOrderFunds
<1>7. m.bal = [f.bal EXCEPT ![k] = r] /\ r.pending = f.bal[k].pending
  BY <1>4, <1>5 DEF Funds, Row
<1>8. g.bal = m.bal
  <2>1. CASE m.ok /\ m.res[o.id].status = "none" /\ x > 0
    BY <1>6, <2>1 DEF createReservation
  <2>2. CASE ~(m.ok /\ m.res[o.id].status = "none" /\ x > 0)
    <3>1. g = [m EXCEPT !.ok = FALSE]
      BY <1>6, <2>2 DEF createReservation, Fail
    <3> QED  BY <1>5, <3>1 DEF Funds
  <2> QED  BY <2>1, <2>2
<1>9. \A q \in AccountKeys : g.bal[q].pending = f.bal[q].pending
  BY <1>7, <1>8 DEF Funds
<1> QED  BY <1>2, <1>3, <1>9 DEF KeepsPending

\* ReleaseOrderFunds leaves every pending balance.
LEMMA ReleaseKeepsPending ==
    ASSUME NEW f \in Funds, NEW o, IsOrder(o), NEW g, g = ReleaseOrderFunds(f, o)
    PROVE  KeepsPending(f, g)
<1>1. PICK k \in AccountKeys, y \in Nat :
         k = reserveAccount(o) /\ y = orderReserveAmount(o)
  BY ReserveType, Zenon
<1>2. PICK id \in OrderIds : id = o.id
  BY DEF IsOrder
<1>3. f.bal[k].locked \in Nat /\ f.res[id].remaining \in Nat
  BY DEF Funds, Balance, Reservation
<1>4. PICK x \in Nat : x = clampedReleaseAmount(f, o, y)
  BY <1>1, <1>2, <1>3 DEF clampedReleaseAmount
<1>5. CASE ~f.ok \/ y <= 0 \/ x <= 0
  <2>1. g = f
    BY <1>1, <1>4, <1>5 DEF ReleaseOrderFunds
  <2> QED  BY <2>1 DEF KeepsPending
<1>6. CASE f.ok /\ y > 0 /\ x > 0
  <2>1. PICK f1 : f1 = debitLocked(f, k, x)
    OBVIOUS
  <2>2. PICK f2 : f2 = addAvailableBalance(f1, k, x)
    OBVIOUS
  <2>3. g = applyReservationDelta(f2, id, x, "release")
    <3>1. ~(y <= 0) /\ ~(x <= 0)
      BY <1>6
    <3> QED  BY <1>1, <1>2, <1>4, <1>6, <2>1, <2>2, <3>1, Zenon
                DEF ReleaseOrderFunds, releaseReservation, moveLockedToAvailable
  <2>4. KeepsPending(f, f1) /\ f1 \in Funds
    BY <1>2, <2>1, DebitKeepsPending DEF KeepsPending
  <2>5. KeepsPending(f1, f2) /\ f2 \in Funds
    BY <1>2, <2>2, <2>4, CreditKeepsPending DEF KeepsPending
  <2>6. KeepsPending(f2, g)
    BY <2>3, <2>5, ChargeKeepsPending
  <2>7. KeepsPending(f, f2)
    BY <2>4, <2>5, KeepsPendingTrans
  <2> QED  BY <2>6, <2>7, KeepsPendingTrans
<1> QED  BY <1>3, <1>5, <1>6

\* settleTrade leaves every pending balance.
LEMMA SettleTradeKeepsPending ==
    ASSUME NEW f \in Funds, NEW b, IsOrder(b), NEW s, IsOrder(s),
           NEW t, t.qty \in Nat, t.quote \in Nat,
           NEW g, g = settleTrade(f, t, b, s), g.ok
    PROVE  KeepsPending(f, g)
<1>1. f.ok /\ validSettlement(t, b)
  BY DEF settleTrade, Fail, Funds
<1>2. g = settleSeller(settleBuyer(f, t, b), t, s)
  BY <1>1 DEF settleTrade
<1>3. PICK qty \in Nat, quote \in Nat, lock \in Nat :
         qty = t.qty /\ quote = t.quote /\ lock = buyerLockedQuote(t, b)
  BY MulType DEF buyerLockedQuote, IsOrder
<1>4. PICK better \in Nat : SubFloorZero(lock, quote) = better
  BY <1>3 DEF SubFloorZero
<1>5. PICK kb \in AccountKeys, qb \in AccountKeys, ks \in AccountKeys, qs \in AccountKeys :
         /\ kb = <<b.user, Quote>> /\ qb = <<b.user, Base>>
         /\ ks = <<s.user, Base>> /\ qs = <<s.user, Quote>>
  BY DEF IsOrder, AccountKeys, Assets
<1>6. PICK ib \in OrderIds, is \in OrderIds : ib = b.id /\ is = s.id
  BY DEF IsOrder
<1>7. PICK f1 : f1 = debitLocked(f, kb, lock)
  OBVIOUS
<1>8. PICK f2 : f2 = applyReservationDelta(f1, ib, quote, "consume")
  OBVIOUS
<1>9. PICK f3 : f3 = addAvailableBalance(f2, kb, better)
  OBVIOUS
<1>10. PICK f4 : f4 = IF better > 0
                      THEN applyReservationDelta(f3, ib, better, "release")
                      ELSE f2
  OBVIOUS
<1>11. PICK f5 : f5 = addAvailableBalance(f4, qb, qty)
  OBVIOUS
<1>12. PICK f6 : f6 = debitLocked(f5, ks, qty)
  OBVIOUS
<1>13. PICK f7 : f7 = applyReservationDelta(f6, is, qty, "consume")
  OBVIOUS
<1>14. f5 = settleBuyer(f, t, b)
  BY <1>3, <1>4, <1>5, <1>6, <1>7, <1>8, <1>9, <1>10, <1>11
     DEF settleBuyer, consumeReservation, releaseReservation
<1>15. g = addAvailableBalance(f7, qs, quote)
  BY <1>2, <1>3, <1>5, <1>6, <1>12, <1>13, <1>14 DEF settleSeller, consumeReservation
<1>16. KeepsPending(f, f1) /\ f1 \in Funds
  <2>1. KeepsPending(f, f1)
    BY <1>7, DebitKeepsPending
  <2> QED  BY <2>1 DEF KeepsPending
<1>17. KeepsPending(f1, f2) /\ f2 \in Funds
  <2>1. KeepsPending(f1, f2)
    BY <1>8, <1>16, ChargeKeepsPending
  <2> QED  BY <2>1 DEF KeepsPending
<1>18. KeepsPending(f2, f3) /\ f3 \in Funds
  <2>1. KeepsPending(f2, f3)
    BY <1>9, <1>17, CreditKeepsPending
  <2> QED  BY <2>1 DEF KeepsPending
<1>19. KeepsPending(f2, f4) /\ f4 \in Funds
  <2>1. CASE better > 0
    <3>1. KeepsPending(f3, f4)
      BY <1>10, <1>18, <2>1, ChargeKeepsPending
    <3>2. KeepsPending(f2, f4)
      BY <1>18, <3>1, KeepsPendingTrans
    <3> QED  BY <3>2 DEF KeepsPending
  <2>2. CASE ~(better > 0)
    BY <1>10, <1>17, <2>2 DEF KeepsPending
  <2> QED  BY <2>1, <2>2
<1>20. KeepsPending(f4, f5) /\ f5 \in Funds
  <2>1. KeepsPending(f4, f5)
    BY <1>11, <1>19, CreditKeepsPending
  <2> QED  BY <2>1 DEF KeepsPending
<1>21. KeepsPending(f5, f6) /\ f6 \in Funds
  <2>1. KeepsPending(f5, f6)
    BY <1>12, <1>20, DebitKeepsPending
  <2> QED  BY <2>1 DEF KeepsPending
<1>22. KeepsPending(f6, f7) /\ f7 \in Funds
  <2>1. KeepsPending(f6, f7)
    BY <1>13, <1>21, ChargeKeepsPending
  <2> QED  BY <2>1 DEF KeepsPending
<1>23. KeepsPending(f7, g)
  BY <1>15, <1>22, CreditKeepsPending
<1>24. KeepsPending(f, f5)
  BY <1>16, <1>17, <1>19, <1>20, KeepsPendingTrans
<1>25. KeepsPending(f5, g)
  BY <1>21, <1>22, <1>23, KeepsPendingTrans
<1> QED  BY <1>24, <1>25, KeepsPendingTrans

\* A split changes with its summands.
LEMMA SplitUpdate ==
    ASSUME NEW n \in Nat, NEW m \in Nat, NEW f \in [1..n -> Nat], NEW h \in [1..n -> Nat],
           NEW w, NEW j \in 1..n, NEW p \in Nat,
           \A i \in 1..n : i # j => h[i] = f[i],
           Split(f, n, w, m, p)
    PROVE  Split(h, n, w, m, p - f[j] + h[j])
<1>1. PICK v \in 0..p : TotalIs(f, n, v) /\ TotalIs(w, m, p - v)
  BY DEF Split
<1>2. v \in Nat /\ f[j] \in Nat /\ h[j] \in Nat
  OBVIOUS
<1>3. f[j] <= v /\ TotalIs(h, n, v - f[j] + h[j])
  BY <1>1, <1>2, TotalUpdate
<1>4. PICK a \in Nat, b \in Nat, u \in Int : a = f[j] /\ b = h[j] /\ u = v - a + b
  BY <1>2
<1>5. PICK q \in Int : q = p - a + b /\ a <= v /\ v <= p
  BY <1>3, <1>4
<1>6. u \in 0..q /\ q - u = p - v
  <2>1. u = v - a + b /\ v \in Int
    BY <1>4
  <2>2. 0 <= u
    BY <1>5, <2>1
  <2>3. u <= q
    BY <1>5, <2>1
  <2>4. q - u = p - v
    <3>1. p \in Int /\ a \in Int /\ b \in Int
      OBVIOUS
    <3>2. (p - a + b) - (v - a + b) = p - v
      BY <2>1, <3>1
    <3> QED  BY <1>5, <2>1, <3>2
  <2> QED  BY <2>2, <2>3, <2>4
<1> QED  BY <1>1, <1>3, <1>4, <1>5, <1>6 DEF Split

\* The two parts of a split may be named in either order.
LEMMA SplitSwap ==
    ASSUME NEW n, NEW m, NEW f, NEW w, NEW p \in Nat, Split(f, n, w, m, p)
    PROVE  Split(w, m, f, n, p)
<1>1. PICK v \in 0..p : TotalIs(f, n, v) /\ TotalIs(w, m, p - v)
  BY DEF Split
<1>2. PICK u \in 0..p : u = p - v /\ p - u = v
  OBVIOUS
<1> QED  BY <1>1, <1>2 DEF Split

\* A split depends on its summands only.
LEMMA SplitSame ==
    ASSUME NEW n \in Nat, NEW m \in Nat, NEW f, NEW h, NEW w, NEW x, NEW p \in Nat,
           \A i \in 1..n : h[i] = f[i], \A i \in 1..m : x[i] = w[i],
           Split(f, n, w, m, p)
    PROVE  Split(h, n, x, m, p)
<1>1. PICK v \in 0..p : TotalIs(f, n, v) /\ TotalIs(w, m, p - v)
  BY DEF Split
<1>2. TotalIs(h, n, v)
  BY <1>1, TotalSame
<1>3. TotalIs(x, m, p - v)
  BY <1>1, TotalSame
<1> QED  BY <1>2, <1>3 DEF Split

\* What a reference still has to settle on an account, and what a withdrawal
\* still has to take from it.
SharesTyped ==
    /\ MaxRefs \in Nat /\ MaxWithdrawals \in Nat
    /\ \A k \in AccountKeys :
          /\ unsettled(k) \in [1..MaxRefs -> Nat]
          /\ \A r \in Refs : unsettled(k)[r] =
                IF depSettled[r].amount > 0 \/ depPending[r].account # k
                THEN 0 ELSE depPending[r].amount
          /\ requested(k) \in [1..MaxWithdrawals -> Nat]
          /\ bal[k].pending \in Nat

\* They are typed in every state whose events agree.
LEMMA ShareTypes == LedgerInv /\ EventsAgree => SharesTyped
<1> SUFFICES ASSUME LedgerInv, EventsAgree, NEW k \in AccountKeys
             PROVE  /\ unsettled(k) \in [1..MaxRefs -> Nat]
                    /\ \A r \in Refs : unsettled(k)[r] =
                          IF depSettled[r].amount > 0 \/ depPending[r].account # k
                          THEN 0 ELSE depPending[r].amount
                    /\ requested(k) \in [1..MaxWithdrawals -> Nat]
                    /\ bal[k].pending \in Nat
  BY AccountsAssumption DEF SharesTyped
<1>1. \A r \in Refs : /\ depPending[r].amount \in Nat /\ depSettled[r].amount \in Nat
                      /\ depSettled[r].amount > 0 => depSettled[r] = depPending[r]
  BY DEF LedgerInv, TypeOK, Event, EventsAgree
<1>2. ASSUME NEW r \in Refs
      PROVE  unsettled(k)[r] = IF depSettled[r].amount > 0 \/ depPending[r].account # k
                               THEN 0 ELSE depPending[r].amount
  <2>1. unsettled(k)[r] = announced(k)[r] - credited(k)[r]
    BY <1>2 DEF unsettled
  <2>2. announced(k)[r] = IF depPending[r].account = k THEN depPending[r].amount ELSE 0
    BY <1>2 DEF announced
  <2>3. credited(k)[r] = IF depSettled[r].account = k THEN depSettled[r].amount ELSE 0
    BY <1>2 DEF credited
  <2>4. CASE depSettled[r].amount > 0
    <3>1. depSettled[r] = depPending[r]
      BY <1>1, <1>2, <2>4
    <3> QED  BY <1>1, <1>2, <2>1, <2>2, <2>3, <2>4, <3>1
  <2>5. CASE ~(depSettled[r].amount > 0)
    <3>1. credited(k)[r] = 0
      BY <1>1, <1>2, <2>3, <2>5
    <3> QED  BY <1>1, <1>2, <2>1, <2>2, <2>5, <3>1
  <2> QED  BY <2>4, <2>5
<1>3. unsettled(k) \in [1..MaxRefs -> Nat]
  <2>1. \A r \in Refs : unsettled(k)[r] \in Nat
    BY <1>1, <1>2
  <2>2. unsettled(k) = [r \in Refs |-> unsettled(k)[r]]
    BY DEF unsettled
  <2> QED  BY <2>1, <2>2 DEF Refs
<1>4. requested(k) \in [1..MaxWithdrawals -> Nat]
  BY DEF requested, LedgerInv, TypeOK, Withdrawal, WithdrawalIds
<1>5. bal[k].pending \in Nat
  BY DEF LedgerInv, TypeOK, Balance
<1> QED  BY <1>2, <1>3, <1>4, <1>5

\* A step that touches neither pending balances nor events nor withdrawals.
LEMMA PendingUntouched ==
    ASSUME LedgerInv, PendingInv,
           \A k \in AccountKeys : bal'[k].pending = bal[k].pending,
           UNCHANGED <<depPending, depSettled, wds, manual>>,
           \A d \in Deliveries : cb'[d].sawPending =>
              cb[d].sawPending \/ depPending[d.ref].amount > 0
    PROVE  PendingInv'
<1>1. EventsAgree'
  BY DEF PendingInv, EventsAgree
<1>2. ASSUME NEW k \in AccountKeys, manual'[k] = NoManual
      PROVE  PendingShared(k)'
  <2>1. PendingShared(k)
    BY <1>2 DEF PendingInv
  <2>2. unsettled(k)' = unsettled(k) /\ requested(k)' = requested(k)
    BY DEF unsettled, announced, credited, requested
  <2> QED  BY <1>2, <2>1, <2>2 DEF PendingShared
<1> QED  BY <1>1, <1>2 DEF PendingInv

\* A transaction of an order is such a step.
LEMMA PendingKept ==
    ASSUME LedgerInv, PendingInv, NEW g, KeepsPending(Tables, g), Commit(g),
           UNCHANGED <<depPending, depSettled, wds, cb, manual>>
    PROVE  PendingInv'
<1>1. \A k \in AccountKeys : bal'[k].pending = bal[k].pending
  BY TablesSound DEF KeepsPending, Commit
<1> QED  BY <1>1, PendingUntouched

\* An operation on one account's pending balance.
MovesPending(f, g, k, d) ==
    /\ g \in Funds
    /\ g.ok => /\ f.ok
               /\ g.bal[k].pending = f.bal[k].pending + d
               /\ \A q \in AccountKeys \ {k} : g.bal[q].pending = f.bal[q].pending

\* What the deposit and withdrawal operations do to it.
LEMMA PendingMoves ==
    ASSUME NEW f \in Funds, NEW k \in AccountKeys, NEW x \in Nat, NEW canceled
    PROVE  /\ MovesPending(f, MarkDepositPending(f, k, x), k, x)
           /\ MovesPending(f, SettleDeposit(f, k, x), k, 0 - x)
           /\ MovesPending(f, HoldWithdrawal(f, k, x), k, x)
           /\ MovesPending(f, FinalizeHold(f, k, x, canceled), k, 0 - x)
<1>1. PICK a \in Nat, l \in Nat, p \in Nat :
         a = f.bal[k].available /\ l = f.bal[k].locked /\ p = f.bal[k].pending
  BY DEF Funds, Balance
<1>2. ASSUME NEW b \in Nat, NEW q \in Nat, NEW d \in Int, q = p + d, f.ok
      PROVE  MovesPending(f, [f EXCEPT !.bal[k] = Row(b, l, q)], k, d)
  <2>1. PICK r : r = Row(b, l, q)
    OBVIOUS
  <2>3. r \in Balance /\ r.pending = f.bal[k].pending + d
    BY <1>1, <1>2, <2>1 DEF Row, Balance
  <2>2. MovesPending(f, [f EXCEPT !.bal[k] = r], k, d)
    BY <1>2, <2>3 DEF MovesPending, Funds
  <2> QED  BY <2>1, <2>2
<1>3. \A d : MovesPending(f, Fail(f), k, d)
  BY DEF MovesPending, Fail, Funds
<1>4. /\ x \in Int /\ 0 - x \in Int
      /\ a + x \in Nat /\ p + x \in Nat
      /\ SubFloorZero(a, x) \in Nat /\ SubFloorZero(p, x) \in Nat
      /\ p >= x => SubFloorZero(p, x) = p + (0 - x)
  BY DEF SubFloorZero
<1>5. MovesPending(f, MarkDepositPending(f, k, x), k, x)
  <2>1. CASE f.ok
    <3>1. MarkDepositPending(f, k, x) = [f EXCEPT !.bal[k] = Row(a, l, p + x)]
      BY <1>1, <2>1 DEF MarkDepositPending, Funds, Balance, Row
    <3> QED  BY <1>2, <1>4, <2>1, <3>1
  <2>2. CASE ~f.ok
    BY <2>2 DEF MarkDepositPending, MovesPending
  <2> QED  BY <2>1, <2>2
<1>6. MovesPending(f, SettleDeposit(f, k, x), k, 0 - x)
  <2>1. CASE f.ok /\ p >= x
    <3>1. SettleDeposit(f, k, x) = [f EXCEPT !.bal[k] = Row(a + x, l, SubFloorZero(p, x))]
      BY <1>1, <2>1 DEF SettleDeposit
    <3> QED  BY <1>2, <1>4, <2>1, <3>1
  <2>2. CASE ~(f.ok /\ p >= x)
    BY <1>1, <1>3, <2>2 DEF SettleDeposit
  <2> QED  BY <2>1, <2>2
<1>7. MovesPending(f, HoldWithdrawal(f, k, x), k, x)
  <2>1. CASE f.ok /\ a >= x
    <3>1. HoldWithdrawal(f, k, x) = [f EXCEPT !.bal[k] = Row(SubFloorZero(a, x), l, p + x)]
      BY <1>1, <2>1 DEF HoldWithdrawal
    <3> QED  BY <1>2, <1>4, <2>1, <3>1
  <2>2. CASE ~(f.ok /\ a >= x)
    BY <1>1, <1>3, <2>2 DEF HoldWithdrawal
  <2> QED  BY <2>1, <2>2
<1>8. MovesPending(f, FinalizeHold(f, k, x, canceled), k, 0 - x)
  <2>1. CASE f.ok /\ p >= x
    <3>1. PICK b \in Nat : b = IF canceled THEN a + x ELSE a
      BY <1>4
    <3>2. FinalizeHold(f, k, x, canceled) = [f EXCEPT !.bal[k] = Row(b, l, SubFloorZero(p, x))]
      BY <1>1, <2>1, <3>1 DEF FinalizeHold
    <3>3. MovesPending(f, [f EXCEPT !.bal[k] = Row(b, l, SubFloorZero(p, x))], k, 0 - x)
      BY <1>2, <1>4, <2>1
    <3> QED  BY <3>2, <3>3
  <2>2. CASE ~(f.ok /\ p >= x)
    BY <1>1, <1>3, <2>2 DEF FinalizeHold
  <2> QED  BY <2>1, <2>2
<1> QED  BY <1>5, <1>6, <1>7, <1>8

\* One reference of account k, or one withdrawal, adds d to what it claims.
OnEvent(k, d) ==
    /\ UNCHANGED wds
    /\ \E r \in Refs :
          /\ unsettled(k)'[r] = unsettled(k)[r] + d
          /\ \A q \in AccountKeys \ {k} : unsettled(q)'[r] = unsettled(q)[r]
          /\ \A p \in Refs \ {r} :
                depPending'[p] = depPending[p] /\ depSettled'[p] = depSettled[p]

OnWithdrawal(k, d) ==
    /\ UNCHANGED <<depPending, depSettled>>
    /\ \E w \in WithdrawalIds :
          /\ requested(k)'[w] = requested(k)[w] + d
          /\ \A q \in AccountKeys \ {k} : requested(q)'[w] = requested(q)[w]
          /\ \A p \in WithdrawalIds \ {w} : wds'[p] = wds[p]

\* The commit of a transaction that moves account k's pending balance by d, along
\* with one of k's references or one of k's withdrawals.
LEMMA PendingMoved ==
    ASSUME LedgerInv, LedgerInv', PendingInv, EventsAgree',
           NEW k \in AccountKeys, NEW d \in Int,
           NEW g, MovesPending(Tables, g, k, d), Commit(g), UNCHANGED manual,
           OnEvent(k, d) \/ OnWithdrawal(k, d)
    PROVE  PendingInv'
<1> SUFFICES ASSUME NEW q \in AccountKeys, manual[q] = NoManual
             PROVE  PendingShared(q)'
  BY DEF PendingInv
<1>1. /\ bal'[k].pending = bal[k].pending + d
      /\ q # k => bal'[q].pending = bal[q].pending
  BY TablesSound DEF MovesPending, Commit
<1>2. EventsAgree /\ PendingShared(q)
  BY DEF PendingInv
<1> DEFINE F == unsettled(q)
           H == unsettled(q)'
           W == requested(q)
           X == requested(q)'
           p0 == bal[q].pending
           p1 == bal'[q].pending
<1>3. /\ F \in [1..MaxRefs -> Nat] /\ W \in [1..MaxWithdrawals -> Nat]
      /\ MaxRefs \in Nat /\ MaxWithdrawals \in Nat /\ p0 \in Nat
  BY <1>2, ShareTypes DEF SharesTyped
<1>4. H \in [1..MaxRefs -> Nat] /\ X \in [1..MaxWithdrawals -> Nat] /\ p1 \in Nat
  <2>1. SharesTyped'
    BY ShareTypes, PTL
  <2> QED  BY <2>1 DEF SharesTyped
<1>5. Split(F, MaxRefs, W, MaxWithdrawals, p0)
  BY <1>2 DEF PendingShared
<1>6. SUFFICES Split(H, MaxRefs, X, MaxWithdrawals, p1)
  BY DEF PendingShared
<1>7. CASE OnEvent(k, d)
  <2>1. PICK r \in 1..MaxRefs :
          /\ unsettled(k)'[r] = unsettled(k)[r] + d
          /\ \A x \in AccountKeys \ {k} : unsettled(x)'[r] = unsettled(x)[r]
          /\ \A p \in Refs \ {r} : /\ depPending'[p] = depPending[p]
                                   /\ depSettled'[p] = depSettled[p]
    BY <1>7 DEF OnEvent, Refs
  <2>2. \A i \in 1..MaxRefs : i # r => H[i] = F[i]
    BY <2>1 DEF unsettled, announced, credited, Refs
  <2>3. X = W
    BY <1>7 DEF OnEvent, requested
  <2>4. CASE q = k
    <3>1. H[r] = F[r] + d
      BY <2>1, <2>4
    <3>2. p1 = p0 + d
      BY <1>1, <2>4
    <3> HIDE DEF F, H, W, X, p0, p1
    <3>3. F[r] \in Nat /\ H[r] \in Nat
      BY <1>3, <1>4
    <3>4. p1 = p0 - F[r] + H[r]
      BY <1>3, <1>4, <3>1, <3>2, <3>3
    <3>5. Split(H, MaxRefs, W, MaxWithdrawals, p1)
      BY <1>3, <1>4, <1>5, <2>2, <3>4, SplitUpdate
    <3> QED  BY <2>3, <3>5
  <2>5. CASE q # k
    <3>1. H[r] = F[r]
      BY <2>1, <2>5
    <3>2. p1 = p0
      BY <1>1, <2>5
    <3>3. \A i \in 1..MaxRefs : H[i] = F[i]
      BY <2>2, <3>1
    <3> HIDE DEF F, H, W, X, p0, p1
    <3> QED  BY <1>3, <1>5, <2>3, <3>2, <3>3, SplitSame
  <2> QED  BY <2>4, <2>5
<1>8. CASE OnWithdrawal(k, d)
  <2>1. PICK w \in 1..MaxWithdrawals :
          /\ requested(k)'[w] = requested(k)[w] + d
          /\ \A x \in AccountKeys \ {k} : requested(x)'[w] = requested(x)[w]
          /\ \A p \in WithdrawalIds \ {w} : wds'[p] = wds[p]
    BY <1>8 DEF OnWithdrawal, WithdrawalIds
  <2>2. \A i \in 1..MaxWithdrawals : i # w => X[i] = W[i]
    BY <2>1 DEF requested, WithdrawalIds
  <2>3. H = F
    BY <1>8 DEF OnWithdrawal, unsettled, announced, credited
  <2>4. CASE q = k
    <3>1. X[w] = W[w] + d
      BY <2>1, <2>4
    <3>2. p1 = p0 + d
      BY <1>1, <2>4
    <3> HIDE DEF F, H, W, X, p0, p1
    <3>3. W[w] \in Nat /\ X[w] \in Nat
      BY <1>3, <1>4
    <3>4. p1 = p0 - W[w] + X[w]
      BY <1>3, <1>4, <3>1, <3>2, <3>3
    <3>5. Split(W, MaxWithdrawals, F, MaxRefs, p0)
      BY <1>3, <1>5, SplitSwap
    <3>6. Split(X, MaxWithdrawals, F, MaxRefs, p1)
      BY <1>3, <1>4, <2>2, <3>4, <3>5, SplitUpdate
    <3>7. Split(F, MaxRefs, X, MaxWithdrawals, p1)
      BY <1>4, <3>6, SplitSwap
    <3> QED  BY <2>3, <3>7
  <2>5. CASE q # k
    <3>1. X[w] = W[w]
      BY <2>1, <2>5
    <3>2. p1 = p0
      BY <1>1, <2>5
    <3>3. \A i \in 1..MaxWithdrawals : X[i] = W[i]
      BY <2>2, <3>1
    <3> HIDE DEF F, H, W, X, p0, p1
    <3> QED  BY <1>3, <1>5, <2>3, <3>2, <3>3, SplitSame
  <2> QED  BY <2>4, <2>5
<1> QED  BY <1>7, <1>8

\* An applied callback leaves the events in agreement.
LEMMA ApplyAgrees ==
    ASSUME LedgerInv, EventsAgree, ConsistentGateway, NEW d \in Deliveries,
           ApplyCallback(d)
    PROVE  /\ EventsAgree'
           /\ d.status = "pending" => ~cb[d].sawPending
           /\ ~cb[d].sawPending => depPending[d.ref].amount = 0
           /\ cb[d].sawPending => depPending[d.ref] = depositEvent(d)
           /\ depSettled[d.ref].amount = 0
           /\ depPending'[d.ref] = depositEvent(d)
           /\ depSettled'[d.ref] = IF d.status = "pending" THEN depSettled[d.ref]
                                   ELSE depositEvent(d)
           /\ \A r \in Refs \ {d.ref} : /\ depPending'[r] = depPending[r]
                                        /\ depSettled'[r] = depSettled[r]
<1>1. d.ref \in Refs /\ d.amount \in Nat /\ d.amount > 0 /\ d.status \in {"pending", "settled"}
  BY AccountsAssumption
<1>2. /\ cb \in [Deliveries -> CallbackState]
      /\ depPending \in [Refs -> Event] /\ depSettled \in [Refs -> Event]
  BY DEF LedgerInv, TypeOK
<1>3. \A r \in Refs : depPending[r].amount \in Nat /\ depSettled[r].amount \in Nat
  BY <1>2 DEF Event
<1>4. d.status = "pending" => ~cb[d].sawPending
  BY DEF ApplyCallback, isDuplicate
<1>5. PICK m, mark, n :
         /\ m = MarkDepositPending(Tables, d.account, d.amount)
         /\ mark = createEvent(m, depPending, d.ref)
         /\ n = SettleDeposit(IF cb[d].sawPending THEN Tables ELSE mark, d.account, d.amount)
  OBVIOUS
<1>6. Tables \in Funds /\ d.account \in AccountKeys
  BY TablesSound, AccountsAssumption
<1>7. m \in Funds
  BY <1>1, <1>5, <1>6, PendingMoves DEF MovesPending
<1>8. mark \in Funds /\ (mark.ok => depPending[d.ref].amount = 0)
  BY <1>5, <1>7 DEF createEvent, Fail, Funds
<1>9. n \in Funds /\ (n.ok /\ ~cb[d].sawPending => mark.ok)
  <2>1. PICK z : z = IF cb[d].sawPending THEN Tables ELSE mark
    OBVIOUS
  <2>2. z \in Funds
    BY <1>6, <1>8, <2>1
  <2>3. n \in Funds /\ (n.ok => z.ok)
    BY <1>1, <1>5, <1>6, <2>1, <2>2, PendingMoves DEF MovesPending
  <2> QED  BY <2>1, <2>3
<1>10. callbackFunds(d).ok
  BY DEF ApplyCallback, Commit
<1>11. ~cb[d].sawPending => depPending[d.ref].amount = 0
  <2>1. CASE d.status = "pending"
    BY <1>5, <1>8, <1>10, <2>1 DEF callbackFunds
  <2>2. CASE d.status # "pending"
    <3>1. callbackFunds(d) = createEvent(n, depSettled, d.ref)
      BY <1>5, <2>2 DEF callbackFunds
    <3>2. n.ok
      BY <1>9, <1>10, <3>1 DEF createEvent, Fail, Funds
    <3> QED  BY <1>8, <1>9, <3>2
  <2> QED  BY <2>1, <2>2
<1>12. d.status # "pending" => depSettled[d.ref].amount = 0
  <2> SUFFICES ASSUME d.status # "pending" PROVE depSettled[d.ref].amount = 0
    OBVIOUS
  <2>1. callbackFunds(d) = createEvent(n, depSettled, d.ref)
    BY <1>5 DEF callbackFunds
  <2> QED  BY <1>9, <1>10, <2>1 DEF createEvent, Fail, Funds
<1>13. depSettled[d.ref].amount = 0
  <2>1. CASE d.status # "pending"
    BY <1>12, <2>1
  <2>2. CASE d.status = "pending"
    <3>1. depPending[d.ref].amount = 0
      BY <1>4, <1>11, <2>2
    <3> QED  BY <1>1, <1>3, <3>1 DEF EventsAgree
  <2> QED  BY <2>1, <2>2
<1>14. cb[d].sawPending => depPending[d.ref] = depositEvent(d)
  <2> SUFFICES ASSUME cb[d].sawPending PROVE depPending[d.ref] = depositEvent(d)
    OBVIOUS
  <2>1. PICK e \in Deliveries : e.ref = d.ref /\ depPending[d.ref] = depositEvent(e)
    BY <1>1 DEF EventsAgree
  <2>2. e.account = d.account /\ e.amount = d.amount
    BY <2>1 DEF ConsistentGateway
  <2> QED  BY <2>1, <2>2 DEF depositEvent
<1>15. depPending' = IF cb[d].sawPending THEN depPending
                     ELSE [depPending EXCEPT ![d.ref] = depositEvent(d)]
  BY DEF ApplyCallback
<1>16. depSettled' = IF d.status = "pending" THEN depSettled
                     ELSE [depSettled EXCEPT ![d.ref] = depositEvent(d)]
  BY DEF ApplyCallback
<1>17. cb' = [cb EXCEPT ![d] = IdleCallback]
  BY DEF ApplyCallback
<1>18. /\ depPending'[d.ref] = depositEvent(d)
       /\ depSettled'[d.ref] = IF d.status = "pending" THEN depSettled[d.ref]
                               ELSE depositEvent(d)
       /\ \A r \in Refs \ {d.ref} : /\ depPending'[r] = depPending[r]
                                    /\ depSettled'[r] = depSettled[r]
  BY <1>1, <1>2, <1>14, <1>15, <1>16
<1>19. depositEvent(d).amount > 0
  BY <1>1 DEF depositEvent
<1>20. ASSUME NEW e \in Deliveries, cb'[e].sawPending
       PROVE  depPending'[e.ref].amount > 0
  <2>1. cb[e].sawPending /\ e.ref \in Refs
    BY <1>2, <1>17, <1>20, AccountsAssumption DEF IdleCallback
  <2>2. depPending[e.ref].amount > 0
    BY <2>1 DEF EventsAgree
  <2> QED  BY <1>18, <1>19, <2>1, <2>2
<1>21. ASSUME NEW r \in Refs, depPending'[r].amount > 0
       PROVE  \E e \in Deliveries : e.ref = r /\ depPending'[r] = depositEvent(e)
  <2>1. CASE r = d.ref
    BY <1>18, <2>1
  <2>2. CASE r # d.ref
    <3>1. depPending'[r] = depPending[r]
      BY <1>18, <2>2
    <3> QED  BY <1>21, <3>1 DEF EventsAgree
  <2> QED  BY <2>1, <2>2
<1>22. ASSUME NEW r \in Refs, depSettled'[r].amount > 0
       PROVE  depSettled'[r] = depPending'[r]
  <2>1. CASE r = d.ref
    BY <1>13, <1>18, <1>22, <2>1
  <2>2. CASE r # d.ref
    <3>1. depPending'[r] = depPending[r] /\ depSettled'[r] = depSettled[r]
      BY <1>18, <2>2
    <3> QED  BY <1>22, <3>1 DEF EventsAgree
  <2> QED  BY <2>1, <2>2
<1>23. EventsAgree'
  BY <1>20, <1>21, <1>22 DEF EventsAgree, depositEvent
<1> QED  BY <1>4, <1>11, <1>13, <1>14, <1>18, <1>23

\* An applied callback: what it adds to the pending balance its reference claims.
LEMMA ApplyShares ==
    ASSUME LedgerInv, LedgerInv', PendingInv, ConsistentGateway,
           NEW d \in Deliveries, ApplyCallback(d)
    PROVE  PendingInv'
<1>1. EventsAgree
  BY DEF PendingInv
<1>2. /\ EventsAgree'
      /\ d.status = "pending" => ~cb[d].sawPending
      /\ ~cb[d].sawPending => depPending[d.ref].amount = 0
      /\ cb[d].sawPending => depPending[d.ref] = depositEvent(d)
      /\ depSettled[d.ref].amount = 0
      /\ depPending'[d.ref] = depositEvent(d)
      /\ depSettled'[d.ref] = IF d.status = "pending" THEN depSettled[d.ref]
                              ELSE depositEvent(d)
      /\ \A p \in Refs \ {d.ref} : /\ depPending'[p] = depPending[p]
                                   /\ depSettled'[p] = depSettled[p]
  BY <1>1, ApplyAgrees
<1>3. PICK k \in AccountKeys, x \in Nat, r \in Refs :
         k = d.account /\ x = d.amount /\ r = d.ref /\ x > 0
  BY AccountsAssumption
<1>4. depositEvent(d).account = k /\ depositEvent(d).amount = x
  BY <1>3 DEF depositEvent
<1>5. SharesTyped /\ SharesTyped'
  <2>1. SharesTyped
    BY <1>1, ShareTypes
  <2>2. SharesTyped'
    BY <1>2, ShareTypes, PTL
  <2> QED  BY <2>1, <2>2
<1>6. \A q \in AccountKeys :
         unsettled(q)[r] = IF cb[d].sawPending /\ q = k THEN x ELSE 0
  <2> SUFFICES ASSUME NEW q \in AccountKeys
               PROVE  unsettled(q)[r] = IF cb[d].sawPending /\ q = k THEN x ELSE 0
    OBVIOUS
  <2>1. unsettled(q)[r] = IF depSettled[r].amount > 0 \/ depPending[r].account # q
                          THEN 0 ELSE depPending[r].amount
    BY <1>5 DEF SharesTyped
  <2>2. ~(depSettled[r].amount > 0)
    BY <1>2, <1>3
  <2> QED  BY <1>2, <1>3, <1>4, <2>1, <2>2
<1>7. \A q \in AccountKeys :
         unsettled(q)'[r] = IF d.status = "pending" /\ q = k THEN x ELSE 0
  <2> SUFFICES ASSUME NEW q \in AccountKeys
               PROVE  unsettled(q)'[r] = IF d.status = "pending" /\ q = k THEN x ELSE 0
    OBVIOUS
  <2>1. unsettled(q)'[r] = IF depSettled'[r].amount > 0 \/ depPending'[r].account # q
                           THEN 0 ELSE depPending'[r].amount
    BY <1>5 DEF SharesTyped
  <2>2. depSettled'[r].amount > 0 <=> d.status # "pending"
    BY <1>2, <1>3, <1>4
  <2> QED  BY <1>2, <1>3, <1>4, <2>1, <2>2
<1>8. PICK g : g = callbackFunds(d)
  OBVIOUS
<1>9. Commit(g) /\ UNCHANGED <<wds, manual>>
  BY <1>8 DEF ApplyCallback
<1>10. ASSUME NEW e \in Int, MovesPending(Tables, g, k, e),
              unsettled(k)'[r] = unsettled(k)[r] + e
       PROVE  PendingInv'
  <2>1. OnEvent(k, e)
    <3>1. \A q \in AccountKeys \ {k} : unsettled(q)'[r] = unsettled(q)[r]
      BY <1>6, <1>7
    <3> QED  BY <1>2, <1>3, <1>9, <1>10, <3>1 DEF OnEvent
  <2> QED  BY <1>2, <1>9, <1>10, <2>1, PendingMoved
<1>11. PICK m, mark : /\ m = MarkDepositPending(Tables, k, x)
                      /\ mark = createEvent(m, depPending, r)
  OBVIOUS
<1>12. Tables \in Funds
  BY TablesSound
<1>13. MovesPending(Tables, mark, k, x)
  <2>1. MovesPending(Tables, m, k, x)
    BY <1>11, <1>12, PendingMoves
  <2>2. Fail(m) \in Funds /\ ~Fail(m).ok
    BY <2>1 DEF MovesPending, Fail, Funds
  <2> QED  BY <1>11, <2>1, <2>2 DEF createEvent, MovesPending
<1>14. CASE d.status = "pending"
  <2>1. g = mark
    BY <1>3, <1>8, <1>11, <1>14 DEF callbackFunds
  <2>2. unsettled(k)'[r] = unsettled(k)[r] + x /\ x \in Int
    BY <1>2, <1>6, <1>7, <1>14
  <2> QED  BY <1>10, <1>13, <2>1, <2>2, Zenon
<1>15. CASE d.status # "pending"
  <2>1. PICK z, n : /\ z = IF cb[d].sawPending THEN Tables ELSE mark
                    /\ n = SettleDeposit(z, k, x)
    OBVIOUS
  <2>2. g = createEvent(n, depSettled, r)
    BY <1>3, <1>8, <1>11, <1>15, <2>1 DEF callbackFunds
  <2>3. z \in Funds
    BY <1>12, <1>13, <2>1 DEF MovesPending
  <2>4. MovesPending(z, n, k, 0 - x)
    BY <2>1, <2>3, PendingMoves
  <2>5. g = n
    <3>1. n \in Funds
      BY <2>4 DEF MovesPending
    <3> QED  BY <1>9, <2>2, <3>1 DEF createEvent, Fail, Commit, Funds
  <2>6. PICK e \in Int : e = 0 - x
    OBVIOUS
  <2>7. CASE cb[d].sawPending
    <3>1. unsettled(k)[r] = x /\ unsettled(k)'[r] = 0
      BY <1>6, <1>7, <1>15, <2>7
    <3>2. unsettled(k)'[r] = unsettled(k)[r] + e
      BY <2>6, <3>1
    <3>3. MovesPending(Tables, g, k, e)
      BY <2>1, <2>4, <2>5, <2>6, <2>7
    <3> QED  BY <1>10, <3>2, <3>3
  <2>8. CASE ~cb[d].sawPending
    <3>1. PICK o \in Int : o = 0
      OBVIOUS
    <3>2. unsettled(k)'[r] = unsettled(k)[r] + o
      BY <1>6, <1>7, <1>15, <2>8, <3>1
    <3>3. z = mark
      BY <2>1, <2>8
    <3>4. Tables.bal[k].pending + x + (0 - x) = Tables.bal[k].pending + o
      BY <1>12, <3>1 DEF Funds, Balance
    <3>5. MovesPending(Tables, g, k, o)
      BY <1>13, <2>4, <2>5, <3>3, <3>4 DEF MovesPending
    <3> QED  BY <1>10, <3>2, <3>5
  <2> QED  BY <2>7, <2>8
<1> QED  BY <1>14, <1>15

\* A withdrawal claims what it moved into the pending balance until it is final.
LEMMA WithdrawalShares ==
    ASSUME LedgerInv, LedgerInv', PendingInv, NEW w \in WithdrawalIds,
           \/ \E k \in AccountKeys, x \in Amounts : RequestWithdrawal(w, k, x)
           \/ CompleteWithdrawal(w) \/ CancelWithdrawal(w)
    PROVE  PendingInv'
<1>1. /\ wds \in [WithdrawalIds -> Withdrawal]
      /\ wds[w] \in Withdrawal
      /\ Tables \in Funds
  BY TablesSound DEF LedgerInv, TypeOK
<1>2. UNCHANGED <<depPending, depSettled, cb, manual>>
  BY DEF RequestWithdrawal, CompleteWithdrawal, CancelWithdrawal, finalizeWithdrawal
<1>3. EventsAgree'
  BY <1>2 DEF PendingInv, EventsAgree, depositEvent
<1>4. ASSUME NEW k \in AccountKeys, NEW x \in Amounts, RequestWithdrawal(w, k, x)
      PROVE  PendingInv'
  <2>1. x \in Nat /\ x \in Int
    BY AccountsAssumption
  <2>2. PICK g : g = HoldWithdrawal(Tables, k, x)
    OBVIOUS
  <2>3. Commit(g) /\ MovesPending(Tables, g, k, x)
    BY <1>1, <1>4, <2>1, <2>2, PendingMoves DEF RequestWithdrawal
  <2>4. /\ wds[w].status = "none"
        /\ wds' = [wds EXCEPT ![w] = [account |-> k, amount |-> x, status |-> "requested"]]
    BY <1>4 DEF RequestWithdrawal
  <2>5. /\ wds'[w].status = "requested" /\ wds'[w].account = k /\ wds'[w].amount = x
        /\ \A p \in WithdrawalIds \ {w} : wds'[p] = wds[p]
    BY <1>1, <2>4
  <2>6. \A q \in AccountKeys : /\ requested(q)[w] = 0
                               /\ requested(q)'[w] = IF q = k THEN x ELSE 0
    BY <2>4, <2>5 DEF requested
  <2>7. OnWithdrawal(k, x)
    <3>1. requested(k)'[w] = requested(k)[w] + x
      BY <2>1, <2>6
    <3>2. \A q \in AccountKeys \ {k} : requested(q)'[w] = requested(q)[w]
      BY <2>6
    <3> QED  BY <1>2, <2>5, <3>1, <3>2 DEF OnWithdrawal
  <2> QED  BY <1>2, <1>3, <2>1, <2>3, <2>7, PendingMoved
<1>5. ASSUME NEW status \in {"completed", "canceled"}, finalizeWithdrawal(w, status)
      PROVE  PendingInv'
  <2>1. PICK k \in AccountKeys, x \in Nat : k = wds[w].account /\ x = wds[w].amount
    BY <1>1 DEF Withdrawal
  <2>2. PICK g, canceled : /\ g = FinalizeHold(Tables, k, x, canceled)
                           /\ canceled = (status = "canceled")
    OBVIOUS
  <2>3. PICK d \in Int : d = 0 - x
    OBVIOUS
  <2>4. Commit(g)
    BY <1>5, <2>1, <2>2, Zenon DEF finalizeWithdrawal
  <2>5. MovesPending(Tables, g, k, d)
    <3>1. MovesPending(Tables, g, k, 0 - x)
      BY <1>1, <2>2, PendingMoves
    <3> QED  BY <2>3, <3>1
  <2>6. wds[w].status = "requested" /\ wds' = [wds EXCEPT ![w].status = status]
    BY <1>5 DEF finalizeWithdrawal
  <2>7. /\ wds'[w].status # "requested"
        /\ \A p \in WithdrawalIds \ {w} : wds'[p] = wds[p]
    BY <1>1, <2>6 DEF Withdrawal
  <2>8. \A q \in AccountKeys : /\ requested(q)[w] = IF q = k THEN x ELSE 0
                               /\ requested(q)'[w] = 0
    BY <2>1, <2>6, <2>7 DEF requested
  <2>9. OnWithdrawal(k, d)
    <3>1. requested(k)'[w] = requested(k)[w] + d
      BY <2>3, <2>8
    <3>2. \A q \in AccountKeys \ {k} : requested(q)'[w] = requested(q)[w]
      BY <2>8
    <3> QED  BY <1>2, <2>7, <3>1, <3>2 DEF OnWithdrawal
  <2> QED  BY <1>2, <1>3, <2>4, <2>5, <2>9, PendingMoved
<1> QED  BY <1>4, <1>5 DEF CompleteWithdrawal, CancelWithdrawal

\* The operator moves the pending balance of one account, which is excepted from
\* then on, and no other.
LEMMA ManualShares ==
    ASSUME LedgerInv, PendingInv, NEW k \in AccountKeys, NEW x \in Amounts,
           ManualMarkDepositPending(k, x) \/ ManualSettleDeposit(k, x)
    PROVE  PendingInv'
<1>1. x \in Nat /\ x > 0 /\ Tables \in Funds
  BY AccountsAssumption, TablesSound
<1>2. UNCHANGED <<depPending, depSettled, wds, cb>>
  BY DEF ManualMarkDepositPending, ManualSettleDeposit
<1>3. EventsAgree'
  BY <1>2 DEF PendingInv, EventsAgree, depositEvent
<1>4. manual \in [AccountKeys -> [marked : Nat, settled : BOOLEAN]]
  BY DEF LedgerInv, TypeOK
<1>5. /\ manual'[k] # NoManual
      /\ \A q \in AccountKeys \ {k} : manual'[q] = manual[q]
  <2>1. CASE ManualMarkDepositPending(k, x)
    <3>1. manual' = [manual EXCEPT ![k].marked = @ + x]
      BY <2>1 DEF ManualMarkDepositPending
    <3>2. manual'[k].marked # 0
      BY <1>1, <1>4, <3>1
    <3> QED  BY <1>4, <3>1, <3>2 DEF NoManual
  <2>2. CASE ManualSettleDeposit(k, x)
    <3>1. manual' = [manual EXCEPT ![k].settled = TRUE]
      BY <2>2 DEF ManualSettleDeposit
    <3>2. manual'[k].settled = TRUE
      BY <1>4, <3>1
    <3> QED  BY <1>4, <3>1, <3>2 DEF NoManual
  <2> QED  BY <2>1, <2>2
<1>6. ASSUME NEW q \in AccountKeys, manual'[q] = NoManual
      PROVE  PendingShared(q)'
  <2>1. q # k /\ manual[q] = NoManual
    BY <1>5, <1>6
  <2>2. PendingShared(q)
    BY <2>1 DEF PendingInv
  <2>3. PICK m, t : m = MarkDepositPending(Tables, k, x) /\ t = SettleDeposit(Tables, k, x)
    OBVIOUS
  <2>4. MovesPending(Tables, m, k, x) /\ MovesPending(Tables, t, k, 0 - x)
    BY <1>1, <2>3, PendingMoves
  <2>5. Commit(m) \/ Commit(t)
    BY <2>3 DEF ManualMarkDepositPending, ManualSettleDeposit
  <2>6. bal'[q].pending = bal[q].pending
    BY <2>1, <2>4, <2>5 DEF MovesPending, Commit, Tables
  <2>7. unsettled(q)' = unsettled(q) /\ requested(q)' = requested(q)
    BY <1>2 DEF unsettled, announced, credited, requested
  <2> QED  BY <2>2, <2>6, <2>7 DEF PendingShared
<1> QED  BY <1>3, <1>6 DEF PendingInv

\* Every action keeps the pending balances covered.
LEMMA PendingStep ==
    ASSUME LedgerInv, LedgerInv', PendingInv, ConsistentGateway, [Next]_vars
    PROVE  PendingInv'
<1>0. Tables \in Funds /\ RowsBalanced(Tables)
  BY TablesSound
<1>1. CASE UNCHANGED vars
  BY <1>1, PendingUntouched DEF vars
<1>2. ASSUME NEW d \in Deliveries,
             ReadSettledEvent(d) \/ ReadPendingEvent(d) \/ DropCallback(d)
      PROVE  PendingInv'
  <2>1. UNCHANGED <<bal, depPending, depSettled, wds, manual>>
    BY <1>2 DEF ReadSettledEvent, ReadPendingEvent, DropCallback
  <2>2. cb \in [Deliveries -> CallbackState]
    BY DEF LedgerInv, TypeOK
  <2>3. \A e \in Deliveries : cb'[e].sawPending =>
           cb[e].sawPending \/ depPending[e.ref].amount > 0
    <3>1. CASE ReadSettledEvent(d)
      BY <2>2, <3>1 DEF ReadSettledEvent
    <3>2. CASE ReadPendingEvent(d)
      BY <2>2, <3>2 DEF ReadPendingEvent
    <3>3. CASE DropCallback(d)
      BY <2>2, <3>3 DEF DropCallback, IdleCallback
    <3> QED  BY <1>2, <3>1, <3>2, <3>3
  <2> QED  BY <2>1, <2>3, PendingUntouched
<1>3. ASSUME NEW d \in Deliveries, ApplyCallback(d)
      PROVE  PendingInv'
  BY <1>3, ApplyShares
<1>4. ASSUME NEW k \in AccountKeys, NEW x \in Amounts,
             ManualMarkDepositPending(k, x) \/ ManualSettleDeposit(k, x)
      PROVE  PendingInv'
  BY <1>4, ManualShares
<1>5. ASSUME NEW w \in WithdrawalIds,
             \/ \E k \in AccountKeys, x \in Amounts : RequestWithdrawal(w, k, x)
             \/ CompleteWithdrawal(w) \/ CancelWithdrawal(w)
      PROVE  PendingInv'
  BY <1>5, WithdrawalShares
<1>6. ASSUME NEW o \in OrderIds, NEW u \in Users, NEW side \in {"buy", "sell"},
             NEW price \in Prices, NEW qty \in Amounts,
             PlaceOrder(o, u, side, price, qty)
      PROVE  PendingInv'
  <2>1. PICK new : new = [id |-> o, user |-> u, side |-> side, price |-> price,
                          remaining |-> qty, status |-> "live"]
    OBVIOUS
  <2>2. IsOrder(new) /\ qty \in Nat /\ qty > 0
    BY <2>1, AccountsAssumption DEF IsOrder
  <2>3. PICK g : g = ReserveOrderFunds(Tables, new)
    OBVIOUS
  <2>4. Commit(g) /\ g.ok /\ UNCHANGED <<depPending, depSettled, wds, cb, manual>>
    BY <1>6, <2>1, <2>3 DEF PlaceOrder, Commit
  <2>5. orderReserveAmount(new) > 0
    BY <1>6, <2>1, <2>2 DEF PlaceOrder, orderReserveAmount
  <2>6. KeepsPending(Tables, g)
    BY <1>0, <2>2, <2>3, <2>4, <2>5, ReserveKeepsPending
  <2> QED  BY <2>4, <2>6, PendingKept
<1>7. ASSUME NEW b \in OrderIds, NEW s \in OrderIds, NEW maker \in OrderIds,
             Trade(b, s, maker)
      PROVE  PendingInv'
  <2>1. ords[b] \in Order /\ ords[s] \in Order /\ ords[maker] \in Order
    BY DEF LedgerInv, TypeOK
  <2>2. PICK t : t = Fill(b, s, maker)
    OBVIOUS
  <2>3. t.qty \in Nat /\ t.quote \in Nat
    <3>1. t.qty \in Nat
      BY <2>1, <2>2 DEF Fill, Order
    <3>2. ords[maker].price \in Nat
      BY <2>1 DEF Order
    <3>3. t.quote = Mul(t.qty, ords[maker].price)
      BY <2>2 DEF Fill
    <3> QED  BY <3>1, <3>2, <3>3, MulType
  <2>4. PICK g : g = settleTrade(Tables, t, ords[b], ords[s])
    OBVIOUS
  <2>5. Commit(g) /\ g.ok /\ UNCHANGED <<depPending, depSettled, wds, cb, manual>>
    BY <1>7, <2>2, <2>4 DEF Trade, Commit
  <2>6. IsOrder(ords[b]) /\ IsOrder(ords[s])
    BY <2>1, OrderIsOrder
  <2>7. KeepsPending(Tables, g)
    BY <1>0, <2>3, <2>4, <2>5, <2>6, SettleTradeKeepsPending
  <2> QED  BY <2>5, <2>7, PendingKept
<1>8. ASSUME NEW o \in OrderIds, ReleaseOrder(o)
      PROVE  PendingInv'
  <2>1. ords[o] \in Order
    BY DEF LedgerInv, TypeOK
  <2>2. IsOrder(ords[o])
    BY <2>1, OrderIsOrder
  <2>3. KeepsPending(Tables, ReleaseOrderFunds(Tables, ords[o]))
    BY <1>0, <2>2, ReleaseKeepsPending
  <2> QED  BY <1>8, <2>3, PendingKept DEF ReleaseOrder
<1>9. ASSUME NEW o \in OrderIds, ExpireStop(o)
      PROVE  PendingInv'
  BY <1>9, PendingUntouched DEF ExpireStop
<1> QED  BY <1>1, <1>2, <1>3, <1>4, <1>5, <1>6, <1>7, <1>8, <1>9 DEF Next

\* Nothing is pending at the start.
LEMMA InitShares == Init => PendingInv
<1> SUFFICES ASSUME Init PROVE PendingInv
  OBVIOUS
<1>1. EventsAgree
  BY DEF Init, EventsAgree, IdleCallback, NoEvent
<1>2. MaxRefs \in Nat /\ MaxWithdrawals \in Nat /\ MaxRefs * 0 = 0 /\ MaxWithdrawals * 0 = 0
  BY AccountsAssumption
<1>3. ASSUME NEW k \in AccountKeys PROVE PendingShared(k)
  <2>1. \A i \in 1..MaxRefs : unsettled(k)[i] = 0
    BY DEF Init, unsettled, announced, credited, NoEvent, Refs
  <2>2. \A i \in 1..MaxWithdrawals : requested(k)[i] = 0
    BY DEF Init, requested, NoWithdrawal, WithdrawalIds
  <2>3. TotalIs(unsettled(k), MaxRefs, 0)
    BY <1>2, <2>1, TotalConstant
  <2>4. TotalIs(requested(k), MaxWithdrawals, 0)
    BY <1>2, <2>2, TotalConstant
  <2>5. bal[k].pending = 0
    BY <1>3 DEF Init, Row
  <2>6. 0 \in 0..0 /\ 0 - 0 = 0
    OBVIOUS
  <2> QED  BY <2>3, <2>4, <2>5, <2>6 DEF PendingShared, Split
<1> QED  BY <1>1, <1>3 DEF PendingInv

-----------------------------------------------------------------------------
(* The theorems.                                                           *)

\* LedgerInv is an invariant of Accounts.
THEOREM LedgerInvariant == Spec => []LedgerInv
<1>1. Init => LedgerInv
  BY InitSound
<1>2. LedgerInv /\ [Next]_vars => LedgerInv'
  <2> SUFFICES ASSUME LedgerInv, [Next]_vars PROVE LedgerInv'
    OBVIOUS
  <2>1. CASE UNCHANGED vars
    BY <2>1 DEF vars, LedgerInv, TypeOK, ReservationBalanced, LockedIsReserved,
               LiveReserved
  <2>2. CASE Next
    BY <2>2, ReadStep, ApplyStep, ManualStep, RequestStep, FinalizeStep,
       PlaceStep, TradeStep, ReleaseStep, ExpireStep
       DEF Next, CompleteWithdrawal, CancelWithdrawal
  <2> QED  BY <2>1, <2>2
<1> QED  BY <1>1, <1>2, PTL DEF Spec

\* Every table of the exchange stays well-formed: no balance, reservation or
\* order ever goes negative, whatever is delivered, traded or canceled.
THEOREM AccountsTypeCorrect == Spec => []TypeOK
<1>1. LedgerInv => TypeOK
  BY DEF LedgerInv
<1> QED  BY <1>1, LedgerInvariant, PTL

\* No order ever spends more than was reserved for it.
THEOREM ReservationsBalanced == Spec => []ReservationBalanced
<1>1. LedgerInv => ReservationBalanced
  BY DEF LedgerInv
<1> QED  BY <1>1, LedgerInvariant, PTL

\* Every locked balance is the sum of the reservations on it.
THEOREM LocksAreReservations == Spec => []LockedIsReserved
<1>1. LedgerInv => LockedIsReserved
  BY DEF LedgerInv
<1> QED  BY <1>1, LedgerInvariant, PTL

\* Trading, reserving, releasing and canceling never create or destroy funds: what
\* all users own of an asset is what was deposited less what was withdrawn.
THEOREM FundsConserved == Spec => []SupplyConserved
<1>1. Init => SupplyConserved
  BY InitConserves
<1>2. LedgerInv /\ SupplyConserved /\ [Next]_vars => SupplyConserved'
  BY ConserveStep
<1> QED  BY <1>1, <1>2, LedgerInvariant, PTL DEF Spec

\* The pending balance of an account on which the operator did nothing by hand is
\* always exactly what its announced deposits and its requested withdrawals put there,
\* in whatever order the gateway's callbacks arrive and however often.
THEOREM PendingIsBacked == Spec => []PendingBacked
<1>1. CASE ConsistentGateway
  <2>1. Init => PendingInv
    BY InitShares
  <2>2. LedgerInv /\ LedgerInv' /\ PendingInv /\ [Next]_vars => PendingInv'
    BY <1>1, PendingStep
  <2>3. PendingInv => PendingBacked
    BY DEF PendingInv, PendingShared, Split, PendingBacked
  <2> QED  BY <2>1, <2>2, <2>3, LedgerInvariant, PTL DEF Spec
<1>2. CASE ~ConsistentGateway
  <2>1. PendingBacked
    BY <1>2 DEF PendingBacked
  <2> QED  BY <2>1, PTL
<1> QED  BY <1>1, <1>2

=============================================================================
