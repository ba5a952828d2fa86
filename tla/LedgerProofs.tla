---------------------------- MODULE LedgerProofs ----------------------------
(***************************************************************************)
(* Facts about the operators of Ledger: sums by running totals, and what   *)
(* each repository operation does to the working copy of the tables.       *)
(***************************************************************************)
EXTENDS Ledger, TLAPS

-----------------------------------------------------------------------------
(* Sums.                                                                   *)

\* Changing one summand changes the sum by the difference, and a summand is
\* never larger than the sum: the running totals from there on are moved.
LEMMA TotalUpdate ==
    ASSUME NEW n \in Nat, NEW f \in [1..n -> Nat], NEW h \in [1..n -> Nat],
           NEW j \in 1..n, NEW v \in Nat
    PROVE  TotalIs(f, n, v) /\ (\A i \in 1..n : i # j => h[i] = f[i])
             => f[j] <= v /\ TotalIs(h, n, v - f[j] + h[j])
<1>1. SUFFICES ASSUME TotalIs(f, n, v), \A i \in 1..n : i # j => h[i] = f[i]
               PROVE  f[j] <= v /\ TotalIs(h, n, v - f[j] + h[j])
  OBVIOUS
<1>2. PICK g \in [0..n -> 0..v] : RunningTotals(g, f, n) /\ g[n] = v
  BY <1>1 DEF TotalIs
<1>3. PICK d \in Int : d = h[j] - f[j]
  OBVIOUS
<1>4. PICK G \in [0..n -> Int] :
        \A i \in 0..n : G[i] = IF i < j THEN g[i] ELSE g[i] + d
  <2> DEFINE H == [i \in 0..n |-> IF i < j THEN g[i] ELSE g[i] + d]
  <2> WITNESS H \in [0..n -> Int]
  <2> QED  OBVIOUS
<1>5. g[0] = 0 /\ g[n] = v
  BY <1>2 DEF RunningTotals
<1>6. \A i \in 1..n : g[i] = g[i-1] + f[i]
  BY <1>2 DEF RunningTotals
<1>7. \A i, k \in 0..n : i <= k => g[i] <= g[k]
  BY <1>2 DEF RunningTotals
<1>8. PICK p \in 0..v : p = g[j-1] /\ g[j] = p + f[j]
  <2>1. j-1 \in 0..n
    OBVIOUS
  <2>2. g[j-1] \in 0..v
    BY <2>1
  <2>3. g[j] = g[j-1] + f[j]
    BY <1>6
  <2> QED  BY <2>2, <2>3
<1>9. f[j] <= v /\ v + d \in Nat /\ v + d = v - f[j] + h[j]
  <2>1. f[j] <= v
    BY <1>8
  <2> QED  BY <1>3, <2>1
<1>10. \A i \in 1..n : G[i] = G[i-1] + h[i]
  <2> TAKE i \in 1..n
  <2>1. g[i] = g[i-1] + f[i] /\ i-1 \in 0..n
    BY <1>6
  <2>2. CASE i < j
    <3>1. G[i] = g[i] /\ G[i-1] = g[i-1] /\ h[i] = f[i]
      BY <2>1, <2>2, <1>4, <1>1
    <3> QED  BY <2>1, <3>1
  <2>3. CASE i = j
    <3>1. G[i] = g[i] + d /\ G[i-1] = g[i-1]
      BY <2>1, <2>3, <1>4
    <3> QED  BY <2>1, <2>3, <3>1, <1>3
  <2>4. CASE i > j
    <3>1. G[i] = g[i] + d /\ G[i-1] = g[i-1] + d /\ h[i] = f[i]
      BY <2>1, <2>4, <1>4, <1>1
    <3> QED  BY <2>1, <3>1
  <2> QED  BY <2>2, <2>3, <2>4
<1>11. \A i, k \in 0..n : i <= k => G[i] <= G[k]
  <2> TAKE i, k \in 0..n
  <2>0. HAVE i <= k
  <2>1. g[i] <= g[k]
    BY <2>0, <1>7
  <2>2. CASE k < j
    <3>1. G[i] = g[i] /\ G[k] = g[k]
      BY <2>0, <2>2, <1>4
    <3> QED  BY <2>1, <3>1
  <2>3. CASE i < j /\ k >= j
    <3>1. g[i] <= p
      <4>1. j-1 \in 0..n /\ i <= j-1
        BY <2>3
      <4> QED  BY <4>1, <1>7, <1>8
    <3>2. g[j] <= g[k]
      BY <2>3, <1>7
    <3>3. PICK old \in Nat, new \in Nat : old = f[j] /\ new = h[j]
      <4>1. f[j] \in Nat /\ h[j] \in Nat
        OBVIOUS
      <4> QED  BY <4>1
    <3>4. PICK a \in Int, b \in Int, q \in Int : a = g[i] /\ b = g[k] /\ q = g[j]
      <4>1. g[i] \in Int /\ g[k] \in Int /\ g[j] \in Int
        OBVIOUS
      <4> QED  BY <4>1, Zenon
    <3>5. q = p + old /\ d = new - old
      BY <3>3, <3>4, <1>3, <1>8
    <3>6. a <= p /\ q <= b
      BY <3>1, <3>2, <3>4
    <3>7. a <= b + d
      BY <3>5, <3>6
    <3>8. g[i] <= g[k] + d
      BY <3>7, <3>4
    <3> QED  BY <2>3, <3>8, <1>4
  <2>4. CASE i >= j
    <3>1. G[i] = g[i] + d /\ G[k] = g[k] + d
      BY <2>0, <2>4, <1>4
    <3> QED  BY <2>1, <3>1
  <2> QED  BY <2>2, <2>3, <2>4
<1>12. G[0] = 0 /\ G[n] = v + d
  BY <1>4, <1>5
<1>13. G \in [0..n -> 0..(v + d)]
  <2>1. ASSUME NEW i \in 0..n PROVE G[i] \in 0..(v + d)
    <3>1. G[0] <= G[i] /\ G[i] <= G[n]
      BY <1>11
    <3> QED  BY <3>1, <1>9, <1>12
  <2> QED  BY <2>1
<1>14. RunningTotals(G, h, n)
  BY <1>10, <1>11, <1>12 DEF RunningTotals
<1>15. TotalIs(h, n, v + d)
  BY <1>12, <1>13, <1>14 DEF TotalIs
<1> QED  BY <1>9, <1>15

\* The sum depends on the summands only.
LEMMA TotalSame ==
    ASSUME NEW n \in Nat, NEW f, NEW h, NEW v,
           TotalIs(f, n, v), \A i \in 1..n : h[i] = f[i]
    PROVE  TotalIs(h, n, v)
BY DEF TotalIs, RunningTotals

\* Equal summands: n times the summand.
LEMMA TotalConstant ==
    ASSUME NEW n \in Nat, NEW f, NEW c \in Nat, \A i \in 1..n : f[i] = c
    PROVE  TotalIs(f, n, n * c)
<1> DEFINE G == [i \in 0..n |-> i * c]
<1>1. \A i, k \in 0..n : i <= k => i * c <= k * c
  OBVIOUS
<1>2. n * c \in Nat
  OBVIOUS
<1>3. \A i \in 0..n : i * c \in 0..(n * c)
  <2> TAKE i \in 0..n
  <2>1. i * c <= n * c
    BY <1>1
  <2>2. i * c \in Nat
    OBVIOUS
  <2> QED  BY <2>1, <2>2, <1>2
<1>4. G \in [0..n -> 0..(n * c)]
  BY <1>3
<1>5. \A i \in 1..n : i * c = (i - 1) * c + c
  OBVIOUS
<1>6. \A i \in 1..n : G[i] = G[i-1] + f[i]
  BY <1>5
<1>7. \A i, k \in 0..n : i <= k => G[i] <= G[k]
  BY <1>1
<1>8. G[0] = 0 /\ G[n] = n * c
  OBVIOUS
<1> QED  BY <1>4, <1>6, <1>7, <1>8 DEF TotalIs, RunningTotals

-----------------------------------------------------------------------------
(* Each repository operation keeps the tables well-formed, and its effect  *)
(* when it succeeds.                                                       *)

\* A rounded product is a natural number.
LEMMA MulType ==
    ASSUME NEW a \in Nat, NEW b \in Nat
    PROVE  Mul(a, b) \in Nat
<1>1. a * b \in Nat
  OBVIOUS
<1>2. PICK m \in Nat : m = a * b
  BY <1>1
<1>3. 2 * a * b = 2 * m
  BY <1>2
<1>4. SCALE \in Nat /\ SCALE > 0
  BY LedgerAssumption
<1>5. (2 * m + SCALE) \div (2 * SCALE) \in Nat
  BY <1>4
<1> QED  BY <1>3, <1>5 DEF Mul

\* debitLocked succeeds only if the locked balance covers the amount.
LEMMA DebitLocked ==
    ASSUME NEW f \in Funds, NEW k \in AccountKeys, NEW x \in Nat,
           NEW g, g = debitLocked(f, k, x)
    PROVE  /\ g \in Funds
           /\ g.ok => /\ f.ok
                      /\ x <= f.bal[k].locked
                      /\ g.res = f.res
                      /\ g.bal = [f.bal EXCEPT ![k].locked = @ - x]
<1>1. CASE f.ok /\ f.bal[k].locked >= x
  <2>1. SubFloorZero(f.bal[k].locked, x) = f.bal[k].locked - x
    BY <1>1 DEF SubFloorZero
  <2>2. g = [f EXCEPT !.bal = [@ EXCEPT ![k].locked = f.bal[k].locked - x]]
    BY <1>1, <2>1 DEF debitLocked, Funds
  <2>3. f.bal[k].locked - x \in Nat
    BY <1>1 DEF Funds, Balance
  <2> QED  BY <1>1, <2>2, <2>3 DEF Funds, Balance
<1>2. CASE ~(f.ok /\ f.bal[k].locked >= x)
  BY <1>2 DEF debitLocked, Fail, Funds
<1> QED  BY <1>1, <1>2

\* addAvailableBalance always succeeds.
LEMMA AddAvailable ==
    ASSUME NEW f \in Funds, NEW k \in AccountKeys, NEW x \in Nat,
           NEW g, g = addAvailableBalance(f, k, x)
    PROVE  /\ g \in Funds
           /\ g.ok => /\ f.ok
                      /\ g.res = f.res
                      /\ g.bal = [f.bal EXCEPT ![k].available = @ + x]
<1>1. CASE f.ok
  <2>1. g = [f EXCEPT !.bal = [f.bal EXCEPT ![k].available = @ + x]]
    BY <1>1 DEF addAvailableBalance, Funds
  <2>2. [f.bal EXCEPT ![k].available = @ + x] \in [AccountKeys -> Balance]
    BY DEF Funds, Balance
  <2> QED  BY <1>1, <2>1, <2>2 DEF Funds
<1>2. CASE ~f.ok
  BY <1>2 DEF addAvailableBalance
<1> QED  BY <1>1, <1>2

\* A row that is charged x loses x of what remains and stays balanced.
LEMMA ChargedRow ==
    ASSUME NEW r \in Reservation, NEW x \in Nat, NEW kind,
           x <= r.remaining, NEW t, t = chargedRow(r, x, kind)
    PROVE  /\ t \in Reservation
           /\ t.account = r.account
           /\ t.amount = r.amount
           /\ t.remaining = r.remaining - x
           /\ t.consumed + t.released = r.consumed + r.released + x
           /\ t.status = reservationStatus(t.remaining, t.consumed, t.released)
<1>1. SubFloorZero(r.remaining, x) = r.remaining - x /\ r.remaining - x \in Nat
  BY DEF SubFloorZero, Reservation
<1>2. \A a, b, c : reservationStatus(a, b, c) \in ReservationStatuses
  BY DEF reservationStatus, ReservationStatuses
<1>3. CASE kind = "consume"
  BY <1>1, <1>2, <1>3 DEF chargedRow, Reservation
<1>4. CASE kind # "consume"
  BY <1>1, <1>2, <1>4 DEF chargedRow, Reservation
<1> QED  BY <1>3, <1>4

\* A charge keeps a row balanced, and the row keeps existing.
LEMMA ChargedRowBalanced ==
    ASSUME NEW r \in Reservation, NEW x \in Nat, NEW kind,
           x > 0, x <= r.remaining, BalancedRow(r)
    PROVE  /\ BalancedRow(chargedRow(r, x, kind))
           /\ chargedRow(r, x, kind).status # "none"
<1>1. PICK t : t = chargedRow(r, x, kind)
  OBVIOUS
<1>2. /\ t \in Reservation
      /\ t.amount = r.amount
      /\ t.remaining = r.remaining - x
      /\ t.consumed + t.released = r.consumed + r.released + x
      /\ t.status = reservationStatus(t.remaining, t.consumed, t.released)
  BY <1>1, ChargedRow
<1>3. t.amount = t.consumed + t.released + t.remaining /\ t.amount # 0
  BY <1>2 DEF BalancedRow, Reservation
<1>4. t.status # "none"
  BY <1>2 DEF reservationStatus
<1> QED  BY <1>1, <1>2, <1>3, <1>4 DEF BalancedRow
\* applyReservationDelta succeeds only if the reservation covers the amount,
\* and touches no other row.
LEMMA ReservationDelta ==
    ASSUME NEW f \in Funds, NEW id \in OrderIds, NEW x \in Nat,
           NEW kind, x > 0,
           f.res[id].status # "none",
           NEW g, g = applyReservationDelta(f, id, x, kind)
    PROVE  /\ g \in Funds
           /\ g.ok => /\ f.ok
                      /\ x <= f.res[id].remaining
                      /\ g.bal = f.bal
                      /\ \A o \in OrderIds \ {id} : g.res[o] = f.res[o]
                      /\ g.res[id].account = f.res[id].account
                      /\ g.res[id].remaining = f.res[id].remaining - x
                      /\ g.res[id].status # "none"
                      /\ BalancedRow(f.res[id]) => BalancedRow(g.res[id])
<1> DEFINE t == chargedRow(f.res[id], x, kind)
<1>0. f.res[id] \in Reservation /\ f.res[id].remaining \in Nat
  BY DEF Funds, Reservation
<1>1. CASE ~f.ok
  BY <1>1 DEF applyReservationDelta
<1>2. CASE f.ok /\ f.res[id].remaining < x
  <2>1. g = Fail(f)
    BY <1>2 DEF applyReservationDelta
  <2> QED  BY <2>1 DEF Fail, Funds
<1>3. CASE f.ok /\ x <= f.res[id].remaining
  <2>1. /\ t \in Reservation
        /\ t.account = f.res[id].account
        /\ t.remaining = f.res[id].remaining - x
        /\ t.status # "none"
    BY <1>0, <1>3, ChargedRow DEF reservationStatus
  <2>4. BalancedRow(f.res[id]) => BalancedRow(t)
    BY <1>0, <1>3, ChargedRowBalanced
  <2>2. g = [f EXCEPT !.res[id] = t]
    BY <1>3, <1>0 DEF applyReservationDelta
  <2> HIDE DEF t
  <2>3. /\ g \in Funds
        /\ g.bal = f.bal
        /\ g.res[id] = t
        /\ \A o \in OrderIds \ {id} : g.res[o] = f.res[o]
    BY <2>1, <2>2 DEF Funds
  <2> QED  BY <1>3, <2>1, <2>4, <2>3
<1> QED  BY <1>0, <1>1, <1>2, <1>3

-----------------------------------------------------------------------------
(* What a whole order operation does: account k's locked balance and the   *)
(* remaining amount of order id's reservation change by the same amount,   *)
(* and no other locked balance or reservation changes.                     *)

OrderEffect(f, g, id, k) ==
    /\ \A q \in AccountKeys \ {k} : g.bal[q].locked = f.bal[q].locked
    /\ \A o \in OrderIds \ {id} : g.res[o] = f.res[o]
    /\ g.res[id].account = k
    /\ g.res[id].status # "none"
    /\ f.res[id].remaining - g.res[id].remaining
          = f.bal[k].locked - g.bal[k].locked

\* Such an operation keeps every locked balance covered.
LEMMA OrderEffectCovers ==
    ASSUME NEW f \in Funds, NEW g \in Funds, NEW id \in OrderIds,
           NEW k \in AccountKeys,
           f.res[id].account = k \/ f.res[id].remaining = 0,
           OrderEffect(f, g, id, k),
           LockedCovered(f.bal, f.res)
    PROVE  LockedCovered(g.bal, g.res)
<1> SUFFICES ASSUME NEW q \in AccountKeys
             PROVE  TotalIs(heldBy(g.res, q), MaxOrders, g.bal[q].locked)
  BY DEF LockedCovered
<1> DEFINE F == heldBy(f.res, q)
           G == heldBy(g.res, q)
<1>1. F \in [1..MaxOrders -> Nat] /\ G \in [1..MaxOrders -> Nat]
  BY DEF heldBy, Funds, Reservation, OrderIds
<1>2. MaxOrders \in Nat /\ id \in 1..MaxOrders
  BY LedgerAssumption DEF OrderIds
<1>3. TotalIs(F, MaxOrders, f.bal[q].locked)
  BY DEF LockedCovered
<1>4. \A i \in 1..MaxOrders : i # id => G[i] = F[i]
  BY DEF OrderEffect, heldBy, OrderIds
<1>5. f.bal[q].locked \in Nat /\ g.bal[q].locked \in Nat
  BY DEF Funds, Balance
<1>6. CASE q = k
  <2>1. F[id] = f.res[id].remaining
    BY <1>6 DEF heldBy
  <2>2. G[id] = g.res[id].remaining
    BY <1>6 DEF heldBy, OrderEffect
  <2>3. f.res[id].remaining \in Nat /\ g.res[id].remaining \in Nat
    BY DEF Funds, Reservation
  <2>4. f.bal[q].locked - F[id] + G[id] = g.bal[q].locked
    <3>1. f.res[id].remaining - g.res[id].remaining
             = f.bal[q].locked - g.bal[q].locked
      BY <1>6 DEF OrderEffect
    <3> HIDE DEF F, G
    <3> QED  BY <1>5, <2>1, <2>2, <2>3, <3>1
  <2> HIDE DEF F, G
  <2>5. TotalIs(G, MaxOrders, f.bal[q].locked - F[id] + G[id])
    BY <1>1, <1>2, <1>3, <1>4, <1>5, TotalUpdate
  <2> QED  BY <2>4, <2>5 DEF G
<1>7. CASE q # k
  <2>1. F[id] = 0 /\ G[id] = 0
    BY <1>7 DEF heldBy, OrderEffect
  <2>2. \A i \in 1..MaxOrders : G[i] = F[i]
    BY <1>4, <2>1
  <2>3. g.bal[q].locked = f.bal[q].locked
    BY <1>7 DEF OrderEffect
  <2> HIDE DEF F, G
  <2>4. TotalIs(G, MaxOrders, f.bal[q].locked)
    BY <1>2, <1>3, <2>2, TotalSame
  <2> QED  BY <2>3, <2>4 DEF G
<1> QED  BY <1>6, <1>7


-----------------------------------------------------------------------------
(* The order operations.                                                   *)

IsOrder(o) ==
    /\ o.id \in OrderIds
    /\ o.user \in Users
    /\ o.side \in {"buy", "sell"}
    /\ o.price \in Nat
    /\ o.remaining \in Nat

RowsBalanced(f) == \A o \in OrderIds : BalancedRow(f.res[o])

\* The account an order draws on, and the amount it draws.
LEMMA ReserveType ==
    ASSUME NEW o, IsOrder(o)
    PROVE  reserveAccount(o) \in AccountKeys /\ orderReserveAmount(o) \in Nat
<1>1. reserveAccount(o) \in AccountKeys
  BY DEF IsOrder, reserveAccount, AccountKeys, Assets
<1>2. orderReserveAmount(o) \in Nat
  BY MulType DEF IsOrder, orderReserveAmount
<1> QED  BY <1>1, <1>2

\* ReserveOrderFunds locks what it writes into the new reservation.
LEMMA ReserveEffect ==
    ASSUME NEW f \in Funds, NEW o, IsOrder(o), orderReserveAmount(o) > 0,
           RowsBalanced(f), NEW g, g = ReserveOrderFunds(f, o), g.ok
    PROVE  /\ g \in Funds
           /\ f.res[o.id].remaining = 0
           /\ OrderEffect(f, g, o.id, reserveAccount(o))
           /\ RowsBalanced(g)
<1>1. PICK k \in AccountKeys, x \in Nat :
         k = reserveAccount(o) /\ x = orderReserveAmount(o)
  BY ReserveType, Zenon
<1>2. o.id \in OrderIds
  BY DEF IsOrder
<1>3. f.bal[k] \in Balance /\ f.res[o.id] \in Reservation
  BY <1>2 DEF Funds
<1>4. f.ok /\ f.bal[k].available >= x
  <2>1. CASE ~f.ok
    BY <2>1 DEF ReserveOrderFunds
  <2>2. CASE f.ok /\ f.bal[k].available < x
    <3>1. g = Fail(f)
      BY <1>1, <2>2 DEF ReserveOrderFunds
    <3> QED  BY <3>1 DEF Fail, Funds
  <2> QED  BY <1>3, <2>1, <2>2 DEF Balance
<1> DEFINE row == [account |-> k, amount |-> x, consumed |-> 0, released |-> 0,
                   remaining |-> x, status |-> "active"]
           held == Row(SubFloorZero(f.bal[k].available, x),
                       f.bal[k].locked + x, f.bal[k].pending)
           f1 == [f EXCEPT !.bal[k] = held]
<1>5. g = createReservation(f1, o.id, k, x)
  <2>1. ~(x <= 0) /\ ~(f.bal[k].available < x)
    BY <1>1, <1>3, <1>4 DEF Balance
  <2> QED  BY <1>1, <1>4, <2>1, Zenon DEF ReserveOrderFunds
<1>6. /\ f1 \in Funds
      /\ f1.ok = f.ok
      /\ f1.res = f.res
      /\ f1.bal[k].locked = f.bal[k].locked + x
      /\ \A q \in AccountKeys \ {k} : f1.bal[q] = f.bal[q]
  <2>1. SubFloorZero(f.bal[k].available, x) \in Nat
    BY <1>3, <1>4 DEF SubFloorZero, Balance
  <2>2. held \in Balance /\ held.locked = f.bal[k].locked + x
    BY <1>3, <2>1 DEF Balance, Row
  <2> HIDE DEF held
  <2> QED  BY <2>2 DEF Funds
<1> HIDE DEF f1, held
<1>7. f1.res[o.id].status = "none" /\ g = [f1 EXCEPT !.res[o.id] = row]
  <2>1. CASE f1.ok /\ f1.res[o.id].status = "none"
    BY <1>1, <1>5, <2>1 DEF createReservation
  <2>2. CASE ~(f1.ok /\ f1.res[o.id].status = "none")
    <3>1. g = Fail(f1)
      BY <1>5, <2>2 DEF createReservation
    <3> QED  BY <1>6, <3>1 DEF Fail, Funds
  <2> QED  BY <2>1, <2>2
<1>8. row \in Reservation /\ row.status # "none" /\ BalancedRow(row)
  BY <1>1 DEF Reservation, ReservationStatuses, BalancedRow, reservationStatus
<1>9. /\ g \in Funds
      /\ g.bal = f1.bal
      /\ g.res[o.id] = row
      /\ \A p \in OrderIds \ {o.id} : g.res[p] = f.res[p]
  BY <1>2, <1>6, <1>7, <1>8 DEF Funds
<1>10. f.res[o.id].remaining = 0
  <2>1. f.res[o.id].status = "none" /\ BalancedRow(f.res[o.id])
    BY <1>2, <1>6, <1>7 DEF RowsBalanced
  <2>2. f.res[o.id].amount = 0
    BY <2>1 DEF BalancedRow, reservationStatus
  <2> QED  BY <1>3, <2>1, <2>2 DEF BalancedRow, Reservation
<1>11. OrderEffect(f, g, o.id, k)
  <2>1. row.account = k /\ row.remaining = x
    OBVIOUS
  <2>2. f.res[o.id].remaining - g.res[o.id].remaining
           = f.bal[k].locked - g.bal[k].locked
    BY <1>3, <1>6, <1>9, <1>10, <2>1 DEF Balance
  <2> HIDE DEF row
  <2> QED  BY <1>6, <1>8, <1>9, <2>1, <2>2 DEF OrderEffect
<1>12. RowsBalanced(g)
  <2> HIDE DEF row
  <2> QED  BY <1>8, <1>9 DEF RowsBalanced
<1> QED  BY <1>1, <1>9, <1>10, <1>11, <1>12

\* ReleaseOrderFunds gives back what it takes out of the reservation.
LEMMA ReleaseEffect ==
    ASSUME NEW f \in Funds, NEW o, IsOrder(o), RowsBalanced(f),
           f.res[o.id].status # "none",
           f.res[o.id].account = reserveAccount(o),
           NEW g, g = ReleaseOrderFunds(f, o), g.ok
    PROVE  /\ g \in Funds
           /\ OrderEffect(f, g, o.id, reserveAccount(o))
           /\ RowsBalanced(g)
<1>1. PICK k \in AccountKeys, y \in Nat :
         k = reserveAccount(o) /\ y = orderReserveAmount(o)
  BY ReserveType, Zenon
<1>2. o.id \in OrderIds
  BY DEF IsOrder
<1>3. f.bal[k].locked \in Nat /\ f.res[o.id].remaining \in Nat
  BY <1>2 DEF Funds, Balance, Reservation
<1>4. PICK x \in Nat : x = clampedReleaseAmount(f, o, y)
  BY <1>1, <1>3 DEF clampedReleaseAmount
<1>5. CASE ~f.ok \/ y <= 0 \/ x <= 0
  <2>1. g = f
    BY <1>1, <1>4, <1>5 DEF ReleaseOrderFunds
  <2> QED  BY <1>1, <1>2, <1>3, <2>1 DEF OrderEffect, Funds
<1>6. CASE f.ok /\ y > 0 /\ x > 0
  <2>1. PICK f1 : f1 = debitLocked(f, k, x)
    OBVIOUS
  <2>2. PICK f2 : f2 = addAvailableBalance(f1, k, x)
    OBVIOUS
  <2>3. g = applyReservationDelta(f2, o.id, x, "release")
    <3>1. ~(y <= 0) /\ ~(x <= 0)
      BY <1>6
    <3> QED  BY <1>1, <1>4, <1>6, <2>1, <2>2, <3>1, Zenon
                DEF ReleaseOrderFunds, releaseReservation, moveLockedToAvailable
  <2>4. /\ f1 \in Funds
        /\ f1.ok => f1.res = f.res /\ f1.bal = [f.bal EXCEPT ![k].locked = @ - x]
    BY <2>1, DebitLocked
  <2>5. /\ f2 \in Funds
        /\ f2.ok => /\ f1.ok
                    /\ f2.res = f1.res
                    /\ f2.bal = [f1.bal EXCEPT ![k].available = @ + x]
    BY <2>2, <2>4, AddAvailable
  <2>6. f2.ok
    BY <2>3, <2>5 DEF applyReservationDelta, Fail, Funds
  <2>7. f2.res = f.res
    BY <2>4, <2>5, <2>6
  <2>8. /\ g \in Funds
        /\ g.bal = f2.bal
        /\ \A p \in OrderIds \ {o.id} : g.res[p] = f.res[p]
        /\ g.res[o.id].account = k
        /\ g.res[o.id].remaining = f.res[o.id].remaining - x
        /\ g.res[o.id].status # "none"
        /\ BalancedRow(g.res[o.id])
    <3>1. f2.res[o.id].status # "none" /\ BalancedRow(f2.res[o.id])
      BY <1>2, <2>7 DEF RowsBalanced
    <3> QED  BY <1>1, <1>2, <1>6, <2>3, <2>5, <2>7, <3>1, ReservationDelta
  <2>9. /\ f2.bal[k].locked = f.bal[k].locked - x
        /\ \A q \in AccountKeys \ {k} : f2.bal[q].locked = f.bal[q].locked
    <3>1. /\ f1.bal[k].locked = f.bal[k].locked - x
          /\ \A q \in AccountKeys \ {k} : f1.bal[q].locked = f.bal[q].locked
      BY <2>4, <2>5, <2>6 DEF Funds, Balance
    <3>2. \A q \in AccountKeys : f2.bal[q].locked = f1.bal[q].locked
      BY <2>4, <2>5, <2>6 DEF Funds, Balance
    <3> QED  BY <3>1, <3>2
  <2>10. f.res[o.id].remaining - g.res[o.id].remaining
            = f.bal[k].locked - g.bal[k].locked
    <3>1. g.bal[k].locked = f.bal[k].locked - x
      BY <2>8, <2>9
    <3> QED  BY <1>3, <2>8, <3>1
  <2>11. OrderEffect(f, g, o.id, k)
    BY <2>8, <2>9, <2>10 DEF OrderEffect
  <2>12. RowsBalanced(g)
    BY <2>8 DEF RowsBalanced
  <2> QED  BY <1>1, <2>8, <2>11, <2>12
<1> QED  BY <1>3, <1>5, <1>6

\* A credit changes neither a locked balance nor a reservation.
LEMMA CreditKeepsLocks ==
    ASSUME NEW f \in Funds, NEW k \in AccountKeys, NEW x \in Nat,
           NEW g, g = addAvailableBalance(f, k, x)
    PROVE  /\ g \in Funds
           /\ g.ok => /\ f.ok
                      /\ g.res = f.res
                      /\ \A q \in AccountKeys : g.bal[q].locked = f.bal[q].locked
<1>1. /\ g \in Funds
      /\ g.ok => /\ f.ok
                 /\ g.res = f.res
                 /\ g.bal = [f.bal EXCEPT ![k].available = @ + x]
  BY AddAvailable
<1> QED  BY <1>1 DEF Funds, Balance

\* A debit of the locked balance that the reservation is charged with, and a
\* credit to some account: the seller's half of a settlement.
LEMMA DebitConsumeCredit ==
    ASSUME NEW f \in Funds, RowsBalanced(f), NEW id \in OrderIds,
           NEW k \in AccountKeys, NEW q \in AccountKeys,
           NEW qty \in Nat, NEW quote \in Nat, qty > 0,
           f.res[id].status # "none", f.res[id].account = k
    PROVE  \A g : g = addAvailableBalance(
                         applyReservationDelta(debitLocked(f, k, qty), id, qty,
                                               "consume"), q, quote) =>
              /\ g \in Funds
              /\ g.ok => f.ok /\ OrderEffect(f, g, id, k) /\ RowsBalanced(g)
<1> TAKE g
<1>0. HAVE g = addAvailableBalance(
                  applyReservationDelta(debitLocked(f, k, qty), id, qty,
                                        "consume"), q, quote)
<1>3. PICK f1 : f1 = debitLocked(f, k, qty)
  OBVIOUS
<1>4. PICK f2 : f2 = applyReservationDelta(f1, id, qty, "consume")
  OBVIOUS
<1>5. g = addAvailableBalance(f2, q, quote)
  BY <1>0, <1>3, <1>4
<1>6. /\ f1 \in Funds
      /\ f1.ok => /\ f.ok
                  /\ f1.res = f.res
                  /\ f1.bal = [f.bal EXCEPT ![k].locked = @ - qty]
  BY <1>3, DebitLocked
<1>7. CASE ~f1.ok
  <2>1. f2 = f1
    BY <1>4, <1>7 DEF applyReservationDelta
  <2> QED  BY <1>5, <1>6, <1>7, <2>1, CreditKeepsLocks
<1>8. CASE f1.ok
  <2>1. f1.res[id].status # "none" /\ BalancedRow(f1.res[id])
    BY <1>6, <1>8 DEF RowsBalanced
  <2>2. f2 \in Funds
    BY <1>4, <1>6, <2>1, ReservationDelta
  <2>3. /\ g \in Funds
        /\ g.ok => /\ f2.ok
                   /\ g.res = f2.res
                   /\ \A p \in AccountKeys : g.bal[p].locked = f2.bal[p].locked
    BY <1>5, <2>2, CreditKeepsLocks
  <2> SUFFICES ASSUME g.ok
               PROVE  /\ OrderEffect(f, g, id, k)
                      /\ RowsBalanced(g)
    BY <1>6, <1>8, <2>3
  <2>4. /\ f2.bal = f1.bal
        /\ \A p \in OrderIds \ {id} : f2.res[p] = f1.res[p]
        /\ f2.res[id].account = f1.res[id].account
        /\ f2.res[id].remaining = f1.res[id].remaining - qty
        /\ f2.res[id].status # "none"
        /\ BalancedRow(f2.res[id])
    <3>1. f2.ok
      BY <2>3
    <3> QED  BY <1>4, <1>6, <2>1, <3>1, ReservationDelta
  <2>5. /\ f1.bal[k].locked = f.bal[k].locked - qty
        /\ \A p \in AccountKeys \ {k} : f1.bal[p].locked = f.bal[p].locked
    BY <1>6, <1>8 DEF Funds, Balance
  <2>6. /\ \A p \in OrderIds \ {id} : g.res[p] = f.res[p]
        /\ g.res[id].account = k
        /\ g.res[id].remaining = f.res[id].remaining - qty
        /\ g.res[id].status # "none"
        /\ BalancedRow(g.res[id])
    BY <1>6, <1>8, <2>3, <2>4
  <2>7. /\ g.bal[k].locked = f.bal[k].locked - qty
        /\ \A p \in AccountKeys \ {k} : g.bal[p].locked = f.bal[p].locked
    BY <2>3, <2>4, <2>5
  <2>8. f.bal[k].locked \in Nat /\ f.res[id].remaining \in Nat
    BY DEF Funds, Balance, Reservation
  <2>9. f.res[id].remaining - g.res[id].remaining
           = f.bal[k].locked - g.bal[k].locked
    BY <2>6, <2>7, <2>8
  <2>10. OrderEffect(f, g, id, k)
    BY <2>6, <2>7, <2>9 DEF OrderEffect
  <2> QED  BY <2>6, <2>10 DEF RowsBalanced
<1> QED  BY <1>7, <1>8

\* The same with a lock that is partly consumed and partly given back: the
\* buyer's half.
LEMMA DebitConsumeReleaseCredit ==
    ASSUME NEW f \in Funds, RowsBalanced(f), NEW id \in OrderIds,
           NEW k \in AccountKeys, NEW q \in AccountKeys,
           NEW qty \in Nat, NEW quote \in Nat, NEW lock \in Nat, NEW better \in Nat,
           quote > 0, lock = quote + better,
           f.res[id].status # "none", f.res[id].account = k,
           NEW f1, NEW f2, NEW f3, NEW f4, NEW g
    PROVE  /\ f1 = debitLocked(f, k, lock)
           /\ f2 = applyReservationDelta(f1, id, quote, "consume")
           /\ f3 = addAvailableBalance(f2, k, better)
           /\ f4 = IF better > 0
                   THEN applyReservationDelta(f3, id, better, "release")
                   ELSE f2
           /\ g = addAvailableBalance(f4, q, qty)
           => /\ g \in Funds
              /\ g.ok => f.ok /\ OrderEffect(f, g, id, k) /\ RowsBalanced(g)
<1>0. SUFFICES ASSUME /\ f1 = debitLocked(f, k, lock)
                      /\ f2 = applyReservationDelta(f1, id, quote, "consume")
                      /\ f3 = addAvailableBalance(f2, k, better)
                      /\ f4 = IF better > 0
                              THEN applyReservationDelta(f3, id, better, "release")
                              ELSE f2
                      /\ g = addAvailableBalance(f4, q, qty)
               PROVE  /\ g \in Funds
                      /\ g.ok => f.ok /\ OrderEffect(f, g, id, k) /\ RowsBalanced(g)
  OBVIOUS
<1>1. f1 = debitLocked(f, k, lock)
  BY <1>0
<1>2. f2 = applyReservationDelta(f1, id, quote, "consume")
  BY <1>0
<1>3. f3 = addAvailableBalance(f2, k, better)
  BY <1>0
<1>4. /\ better > 0 => f4 = applyReservationDelta(f3, id, better, "release")
      /\ better = 0 => f4 = f2
  BY <1>0
<1>5. g = addAvailableBalance(f4, q, qty)
  BY <1>0
<1>6. /\ f1 \in Funds
      /\ f1.ok => /\ f.ok
                  /\ f1.res = f.res
                  /\ f1.bal = [f.bal EXCEPT ![k].locked = @ - lock]
  BY <1>1, DebitLocked
<1>7. CASE ~f1.ok
  <2>1. f2 = f1 /\ f3 = f1 /\ f4 = f1
    BY <1>2, <1>3, <1>4, <1>7 DEF applyReservationDelta, addAvailableBalance
  <2>2. f4 \in Funds /\ ~f4.ok
    BY <1>6, <1>7, <2>1
  <2>3. g \in Funds /\ (g.ok => f4.ok)
    BY <1>5, <2>2, CreditKeepsLocks
  <2> QED  BY <2>2, <2>3
<1>8. CASE f1.ok
  <2>1. f1.res[id].status # "none" /\ BalancedRow(f1.res[id])
    BY <1>6, <1>8 DEF RowsBalanced
  <2>2. /\ f2 \in Funds
        /\ f2.ok => /\ f2.bal = f1.bal
                    /\ \A p \in OrderIds \ {id} : f2.res[p] = f1.res[p]
                    /\ f2.res[id].account = f1.res[id].account
                    /\ f2.res[id].remaining = f1.res[id].remaining - quote
                    /\ f2.res[id].status # "none"
                    /\ BalancedRow(f2.res[id])
    BY <1>2, <1>6, <2>1, ReservationDelta
  <2>3. /\ f3 \in Funds
        /\ f3.ok => /\ f2.ok
                    /\ f3.res = f2.res
                    /\ \A p \in AccountKeys : f3.bal[p].locked = f2.bal[p].locked
    <3>1. f2 \in Funds
      BY <2>2
    <3> QED  BY <1>3, <3>1, CreditKeepsLocks
  <2>4. /\ f4 \in Funds
        /\ f4.ok => /\ f2.ok
                    /\ \A p \in AccountKeys : f4.bal[p].locked = f2.bal[p].locked
                    /\ \A p \in OrderIds \ {id} : f4.res[p] = f2.res[p]
                    /\ f4.res[id].account = f2.res[id].account
                    /\ f4.res[id].remaining = f2.res[id].remaining - better
                    /\ f4.res[id].status # "none"
                    /\ BalancedRow(f4.res[id])
    <3>1. CASE better = 0
      <4>1. f4 = f2
        BY <1>4, <3>1
      <4>2. f2.res[id].remaining - 0 = f2.res[id].remaining
        BY <2>2 DEF Funds, Reservation
      <4> QED  BY <2>2, <3>1, <4>1, <4>2
    <3>2. CASE better > 0
      <4>1. f4 = applyReservationDelta(f3, id, better, "release")
        BY <1>4, <3>2
      <4>2. CASE ~f3.ok
        <5>1. f4 = f3
          BY <4>1, <4>2 DEF applyReservationDelta
        <5> QED  BY <2>3, <4>2, <5>1
      <4>3. CASE f3.ok
        <5>1. f3.res[id].status # "none" /\ BalancedRow(f3.res[id])
          BY <2>2, <2>3, <4>3
        <5>2. /\ f4 \in Funds
              /\ f4.ok => /\ f4.bal = f3.bal
                          /\ \A p \in OrderIds \ {id} : f4.res[p] = f3.res[p]
                          /\ f4.res[id].account = f3.res[id].account
                          /\ f4.res[id].remaining = f3.res[id].remaining - better
                          /\ f4.res[id].status # "none"
                          /\ BalancedRow(f4.res[id])
          <6>1. f3 \in Funds
            BY <2>3
          <6> QED  BY <3>2, <4>1, <5>1, <6>1, ReservationDelta
        <5> QED  BY <2>3, <4>3, <5>2
      <4> QED  BY <4>2, <4>3
    <3> QED  BY <3>1, <3>2
  <2>5. /\ g \in Funds
        /\ g.ok => /\ f4.ok
                   /\ g.res = f4.res
                   /\ \A p \in AccountKeys : g.bal[p].locked = f4.bal[p].locked
    <3>1. f4 \in Funds
      BY <2>4
    <3>2. g \in Funds
      BY <1>5, <3>1, CreditKeepsLocks
    <3>3. g.ok => f4.ok /\ g.res = f4.res
      BY <1>5, <3>1, CreditKeepsLocks
    <3>4. ASSUME g.ok, NEW p \in AccountKeys
          PROVE  g.bal[p].locked = f4.bal[p].locked
      BY <1>5, <3>1, <3>4, CreditKeepsLocks
    <3> QED  BY <3>2, <3>3, <3>4
  <2> SUFFICES ASSUME g.ok
               PROVE  /\ OrderEffect(f, g, id, k)
                      /\ RowsBalanced(g)
    BY <1>6, <1>8, <2>5
  <2>6. /\ f1.bal[k].locked = f.bal[k].locked - lock
        /\ \A p \in AccountKeys \ {k} : f1.bal[p].locked = f.bal[p].locked
    BY <1>6, <1>8 DEF Funds, Balance
  <2>7. /\ \A p \in OrderIds \ {id} : g.res[p] = f.res[p]
        /\ g.res[id].account = k
        /\ g.res[id].status # "none"
        /\ BalancedRow(g.res[id])
    BY <1>6, <1>8, <2>2, <2>4, <2>5
  <2>8. g.res[id].remaining = f.res[id].remaining - quote - better
    BY <1>6, <1>8, <2>2, <2>4, <2>5
  <2>9. /\ g.bal[k].locked = f.bal[k].locked - lock
        /\ \A p \in AccountKeys \ {k} : g.bal[p].locked = f.bal[p].locked
    BY <2>2, <2>4, <2>5, <2>6
  <2>10. f.bal[k].locked \in Nat /\ f.res[id].remaining \in Nat
    BY DEF Funds, Balance, Reservation
  <2>11. f.res[id].remaining - g.res[id].remaining
            = f.bal[k].locked - g.bal[k].locked
    BY <2>8, <2>9, <2>10
  <2>12. OrderEffect(f, g, id, k)
    BY <2>7, <2>9, <2>11 DEF OrderEffect
  <2> QED  BY <2>7, <2>12 DEF RowsBalanced
<1> QED  BY <1>7, <1>8

\* A settled trade is an order effect of the buyer's order followed by one of
\* the seller's.
LEMMA SettleTradeEffect ==
    ASSUME NEW f \in Funds, RowsBalanced(f),
           NEW b, IsOrder(b), b.side = "buy",
           NEW s, IsOrder(s), s.side = "sell",
           b.id # s.id,
           NEW t, t.qty \in Nat, t.quote \in Nat,
           f.res[b.id].status # "none", f.res[b.id].account = reserveAccount(b),
           f.res[s.id].status # "none", f.res[s.id].account = reserveAccount(s),
           settleTrade(f, t, b, s).ok
    PROVE  /\ settleTrade(f, t, b, s) \in Funds
           /\ RowsBalanced(settleTrade(f, t, b, s))
           /\ \E m \in Funds :
                 /\ OrderEffect(f, m, b.id, reserveAccount(b))
                 /\ OrderEffect(m, settleTrade(f, t, b, s), s.id, reserveAccount(s))
<1>1. f.ok /\ validSettlement(t, b)
  BY DEF settleTrade, Fail, Funds
<1>2. PICK m : m = settleBuyer(f, t, b)
  OBVIOUS
<1>3. PICK g : g = settleSeller(m, t, s)
  OBVIOUS
<1>4. settleTrade(f, t, b, s) = g
  BY <1>1, <1>2, <1>3 DEF settleTrade
<1>5. PICK qty \in Nat, quote \in Nat, lock \in Nat :
         qty = t.qty /\ quote = t.quote /\ lock = buyerLockedQuote(t, b)
  BY MulType DEF buyerLockedQuote, IsOrder
<1>6. qty > 0 /\ quote > 0 /\ quote <= lock
  BY <1>1, <1>5 DEF validSettlement
<1>7. PICK better \in Nat : lock = quote + better /\ SubFloorZero(lock, quote) = better
  BY <1>6 DEF SubFloorZero
<1>8. PICK kb \in AccountKeys, qb \in AccountKeys, ks \in AccountKeys, qs \in AccountKeys :
         /\ kb = <<b.user, Quote>> /\ qb = <<b.user, Base>>
         /\ ks = <<s.user, Base>> /\ qs = <<s.user, Quote>>
  BY DEF IsOrder, AccountKeys, Assets
<1>9. reserveAccount(b) = kb /\ reserveAccount(s) = ks
  BY <1>8 DEF reserveAccount
<1>10. PICK ib \in OrderIds, is \in OrderIds : ib = b.id /\ is = s.id
  BY DEF IsOrder
<1>11. m \in Funds /\ (m.ok => OrderEffect(f, m, ib, kb) /\ RowsBalanced(m))
  <2>1. PICK f1 : f1 = debitLocked(f, kb, lock)
    OBVIOUS
  <2>2. PICK f2 : f2 = applyReservationDelta(f1, ib, quote, "consume")
    OBVIOUS
  <2>3. PICK f3 : f3 = addAvailableBalance(f2, kb, better)
    OBVIOUS
  <2>4. PICK f4 : f4 = IF better > 0
                       THEN applyReservationDelta(f3, ib, better, "release")
                       ELSE f2
    OBVIOUS
  <2>5. m = addAvailableBalance(f4, qb, qty)
    BY <1>2, <1>5, <1>7, <1>8, <1>10, <2>1, <2>2, <2>3, <2>4
       DEF settleBuyer, consumeReservation, releaseReservation
  <2>6. f.res[ib].status # "none" /\ f.res[ib].account = kb
    BY <1>9, <1>10
  <2> QED  BY <1>6, <1>7, <2>1, <2>2, <2>3, <2>4, <2>5, <2>6,
              DebitConsumeReleaseCredit
<1>12. g = addAvailableBalance(
              applyReservationDelta(debitLocked(m, ks, qty), is, qty, "consume"),
              qs, quote)
  BY <1>3, <1>5, <1>8, <1>10 DEF settleSeller, consumeReservation
<1>13. m.ok
  <2>1. PICK m1 : m1 = debitLocked(m, ks, qty)
    OBVIOUS
  <2>2. PICK m2 : m2 = applyReservationDelta(m1, is, qty, "consume")
    OBVIOUS
  <2>3. g = addAvailableBalance(m2, qs, quote)
    BY <1>12, <2>1, <2>2
  <2>4. m1 \in Funds /\ (m1.ok => m.ok)
    BY <1>11, <2>1, DebitLocked
  <2>5. ~m1.ok => ~g.ok
    BY <2>2, <2>3 DEF applyReservationDelta, addAvailableBalance
  <2> QED  BY <1>4, <2>4, <2>5
<1>14. m.res[is].status # "none" /\ m.res[is].account = ks
  BY <1>9, <1>10, <1>11, <1>13 DEF OrderEffect
<1>15. g \in Funds /\ OrderEffect(m, g, is, ks) /\ RowsBalanced(g)
  BY <1>4, <1>6, <1>11, <1>12, <1>13, <1>14, DebitConsumeCredit
<1> QED  BY <1>4, <1>9, <1>10, <1>11, <1>13, <1>15

-----------------------------------------------------------------------------
(* The deposit and withdrawal operations leave locks and reservations      *)
(* alone.                                                                  *)

KeepsLocks(f, g) ==
    /\ g \in Funds
    /\ g.ok => /\ f.ok
               /\ g.res = f.res
               /\ \A q \in AccountKeys : g.bal[q].locked = f.bal[q].locked

\* An update of one balance row that leaves the locked amount.
LEMMA RowKeepsLocks ==
    ASSUME NEW f \in Funds, NEW k \in AccountKeys, NEW a \in Nat, NEW p \in Nat
    PROVE  KeepsLocks(f, [f EXCEPT !.bal[k] = Row(a, f.bal[k].locked, p)])
<1> DEFINE r == Row(a, f.bal[k].locked, p)
<1>1. r \in Balance /\ r.locked = f.bal[k].locked
  BY DEF Row, Funds, Balance
<1> HIDE DEF r
<1>2. KeepsLocks(f, [f EXCEPT !.bal[k] = r])
  BY <1>1 DEF KeepsLocks, Funds
<1> QED  BY <1>2 DEF r

\* A rolled back transaction and an unchanged one.
LEMMA FailKeepsLocks ==
    ASSUME NEW f \in Funds
    PROVE  KeepsLocks(f, Fail(f)) /\ KeepsLocks(f, f)
BY DEF KeepsLocks, Fail, Funds

\* MarkDepositPending.
LEMMA MarkKeepsLocks ==
    ASSUME NEW f \in Funds, NEW k \in AccountKeys, NEW x \in Nat
    PROVE  KeepsLocks(f, MarkDepositPending(f, k, x))
BY DEF MarkDepositPending, KeepsLocks, Funds, Balance

\* SettleDeposit, RequestWithdrawal's hold and finalizeWithdrawal's end of it.
LEMMA PendingKeepsLocks ==
    ASSUME NEW f \in Funds, NEW k \in AccountKeys, NEW x \in Nat, NEW canceled
    PROVE  /\ KeepsLocks(f, SettleDeposit(f, k, x))
           /\ KeepsLocks(f, HoldWithdrawal(f, k, x))
           /\ KeepsLocks(f, FinalizeHold(f, k, x, canceled))
<1>1. PICK a \in Nat, p \in Nat : a = f.bal[k].available /\ p = f.bal[k].pending
  BY DEF Funds, Balance
<1>2. /\ a + x \in Nat
      /\ p + x \in Nat
      /\ SubFloorZero(a, x) \in Nat
      /\ SubFloorZero(p, x) \in Nat
  BY DEF SubFloorZero
<1>3. /\ KeepsLocks(f, [f EXCEPT !.bal[k] = Row(a + x, f.bal[k].locked, SubFloorZero(p, x))])
      /\ KeepsLocks(f, [f EXCEPT !.bal[k] = Row(a, f.bal[k].locked, SubFloorZero(p, x))])
      /\ KeepsLocks(f, [f EXCEPT !.bal[k] = Row(SubFloorZero(a, x), f.bal[k].locked, p + x)])
  BY <1>2, RowKeepsLocks
<1>4. KeepsLocks(f, Fail(f))
  BY FailKeepsLocks
<1>5. KeepsLocks(f, SettleDeposit(f, k, x))
  BY <1>1, <1>3, <1>4 DEF SettleDeposit
<1>6. KeepsLocks(f, HoldWithdrawal(f, k, x))
  BY <1>1, <1>3, <1>4 DEF HoldWithdrawal
<1>7. KeepsLocks(f, FinalizeHold(f, k, x, canceled))
  BY <1>1, <1>3, <1>4 DEF FinalizeHold
<1> QED  BY <1>5, <1>6, <1>7

-----------------------------------------------------------------------------
(* Conservation.  Every operation of the ledger is followed by what it does *)
(* to the users' total of each asset; the debits and credits of a           *)
(* transaction then have to add up to zero.                                 *)

worth(r) == r.available + r.locked + r.pending

\* From bs to cs the users' total of asset a grows by d.
Gains(bs, cs, a, d) ==
    \A v \in Nat : TotalIs(holding(bs, a), NumUsers, v)
                      => v + d \in Nat /\ TotalIs(holding(cs, a), NumUsers, v + d)

\* From f to g, if g is committed, the total of asset a grows by D[a].
Effect(f, g, D) ==
    /\ g \in Funds
    /\ g.ok => f.ok /\ \A a \in Assets : Gains(f.bal, g.bal, a, D[a])

At(k, d) == [a \in Assets |-> IF a = k[2] THEN d ELSE 0]
Nothing == [a \in Assets |-> 0]

\* What a row is worth is a natural number, and the users' holdings of an asset
\* are the worths of their rows.
LEMMA HoldingType ==
    ASSUME NEW bs \in [AccountKeys -> Balance], NEW a \in Assets
    PROVE  /\ holding(bs, a) \in [1..NumUsers -> Nat]
           /\ \A u \in Users : /\ <<u, a>> \in AccountKeys
                               /\ holding(bs, a)[u] = worth(bs[<<u, a>>])
<1>1. \A u \in Users : <<u, a>> \in AccountKeys
  BY DEF AccountKeys
<1>2. \A u \in Users : /\ bs[<<u, a>>].available \in Nat
                       /\ bs[<<u, a>>].locked \in Nat
                       /\ bs[<<u, a>>].pending \in Nat
  BY <1>1 DEF Balance
<1>3. \A u \in Users : worth(bs[<<u, a>>]) \in Nat
  BY <1>2 DEF worth
<1>4. holding(bs, a) = [u \in Users |-> worth(bs[<<u, a>>])]
  BY DEF holding, worth
<1> QED  BY <1>1, <1>3, <1>4 DEF Users

\* One row's change is its asset's gain.
LEMMA RowGains ==
    ASSUME NEW bs \in [AccountKeys -> Balance], NEW cs \in [AccountKeys -> Balance],
           NEW k \in AccountKeys, NEW d \in Int,
           \A q \in AccountKeys \ {k} : worth(cs[q]) = worth(bs[q]),
           worth(cs[k]) = worth(bs[k]) + d,
           NEW a \in Assets
    PROVE  Gains(bs, cs, a, At(k, d)[a])
<1> SUFFICES ASSUME NEW v \in Nat, TotalIs(holding(bs, a), NumUsers, v)
             PROVE  /\ v + At(k, d)[a] \in Nat
                    /\ TotalIs(holding(cs, a), NumUsers, v + At(k, d)[a])
  BY DEF Gains
<1> DEFINE F == holding(bs, a)
           H == holding(cs, a)
<1>1. /\ F \in [1..NumUsers -> Nat]
      /\ H \in [1..NumUsers -> Nat]
      /\ \A u \in Users : /\ <<u, a>> \in AccountKeys
                          /\ F[u] = worth(bs[<<u, a>>])
                          /\ H[u] = worth(cs[<<u, a>>])
  BY HoldingType
<1>2. PICK j \in Users, b \in Assets : k = <<j, b>>
  BY DEF AccountKeys
<1>3. k[1] = j /\ k[2] = b
  BY <1>2
<1>4. NumUsers \in Nat /\ j \in 1..NumUsers
  BY LedgerAssumption DEF Users
<1>5. CASE a = b
  <2>1. At(k, d)[a] = d
    BY <1>3, <1>5 DEF At
  <2>2. H[j] = F[j] + d
    BY <1>1, <1>2, <1>5
  <2>3. \A i \in 1..NumUsers : i # j => H[i] = F[i]
    <3> SUFFICES ASSUME NEW i \in Users, i # j PROVE H[i] = F[i]
      BY DEF Users
    <3>1. <<i, a>> # k
      BY <1>2
    <3> QED  BY <1>1, <3>1
  <2> HIDE DEF F, H
  <2>4. F[j] <= v /\ TotalIs(H, NumUsers, v - F[j] + H[j])
    BY <1>1, <1>4, <2>3, TotalUpdate DEF F
  <2>5. F[j] \in Nat /\ H[j] \in Nat
    BY <1>1, <1>4
  <2>6. v - F[j] + H[j] = v + d /\ v + d \in Nat
    BY <2>2, <2>4, <2>5
  <2> QED  BY <2>1, <2>4, <2>6 DEF H
<1>6. CASE a # b
  <2>1. At(k, d)[a] = 0
    BY <1>3, <1>6 DEF At
  <2>2. \A i \in 1..NumUsers : H[i] = F[i]
    <3> SUFFICES ASSUME NEW i \in Users PROVE H[i] = F[i]
      BY DEF Users
    <3>1. <<i, a>> # k
      BY <1>2, <1>6
    <3> QED  BY <1>1, <3>1
  <2> HIDE DEF F, H
  <2>3. TotalIs(H, NumUsers, v)
    BY <1>4, <2>2, TotalSame DEF F
  <2> QED  BY <2>1, <2>3 DEF H
<1> QED  BY <1>5, <1>6

\* Unchanged balances gain nothing, and gains add up.
LEMMA GainsNothing ==
    ASSUME NEW bs, NEW a
    PROVE  Gains(bs, bs, a, 0)
BY DEF Gains

\* Gains over successive tables add up.
LEMMA GainsAdd ==
    ASSUME NEW bs, NEW cs, NEW ds, NEW a, NEW d \in Int, NEW e \in Int,
           Gains(bs, cs, a, d), Gains(cs, ds, a, e)
    PROVE  Gains(bs, ds, a, d + e)
<1> SUFFICES ASSUME NEW v \in Nat, TotalIs(holding(bs, a), NumUsers, v)
             PROVE  /\ v + (d + e) \in Nat
                    /\ TotalIs(holding(ds, a), NumUsers, v + (d + e))
  BY DEF Gains
<1>1. v + d \in Nat /\ TotalIs(holding(cs, a), NumUsers, v + d)
  BY DEF Gains
<1>2. (v + d) + e \in Nat /\ TotalIs(holding(ds, a), NumUsers, (v + d) + e)
  BY <1>1 DEF Gains
<1>3. (v + d) + e = v + (d + e)
  OBVIOUS
<1> QED  BY <1>2, <1>3

\* The effects of successive operations add up.
LEMMA EffectsAdd ==
    ASSUME NEW f, NEW g, NEW h, NEW D \in [Assets -> Int], NEW E \in [Assets -> Int],
           Effect(f, g, D), Effect(g, h, E)
    PROVE  Effect(f, h, [a \in Assets |-> D[a] + E[a]])
<1>1. h \in Funds /\ (h.ok => f.ok)
  BY DEF Effect
<1>2. ASSUME h.ok, NEW a \in Assets
      PROVE  Gains(f.bal, h.bal, a, D[a] + E[a])
  <2>1. Gains(f.bal, g.bal, a, D[a]) /\ Gains(g.bal, h.bal, a, E[a])
    BY <1>2 DEF Effect
  <2>2. D[a] \in Int /\ E[a] \in Int
    BY <1>2
  <2> QED  BY <2>1, <2>2, GainsAdd
<1> QED  BY <1>1, <1>2 DEF Effect

\* An operation that leaves the balances has no effect on a total.
LEMMA NoEffect ==
    ASSUME NEW f, NEW g \in Funds, g.ok => f.ok /\ g.bal = f.bal
    PROVE  Effect(f, g, Nothing)
BY GainsNothing DEF Effect, Nothing

\* A transaction that is rolled back has whatever effect.
LEMMA FailEffect ==
    ASSUME NEW f \in Funds, NEW D
    PROVE  Fail(f) \in Funds /\ Effect(f, Fail(f), D)
BY DEF Effect, Fail, Funds

\* An update of one row.
LEMMA RowEffect ==
    ASSUME NEW f \in Funds, f.ok, NEW k \in AccountKeys, NEW r \in Balance,
           NEW d \in Int, worth(r) = worth(f.bal[k]) + d
    PROVE  Effect(f, [f EXCEPT !.bal[k] = r], At(k, d))
<1>1. PICK g : g = [f EXCEPT !.bal[k] = r]
  OBVIOUS
<1>2. /\ g \in Funds
      /\ g.bal \in [AccountKeys -> Balance]
      /\ f.bal \in [AccountKeys -> Balance]
      /\ g.bal[k] = r
      /\ \A q \in AccountKeys \ {k} : g.bal[q] = f.bal[q]
  BY <1>1 DEF Funds
<1>3. \A a \in Assets : Gains(f.bal, g.bal, a, At(k, d)[a])
  BY <1>2, RowGains
<1> QED  BY <1>1, <1>2, <1>3 DEF Effect

\* The repository's operations on a balance row.
LEMMA DebitEffect ==
    ASSUME NEW f \in Funds, NEW k \in AccountKeys, NEW x \in Nat
    PROVE  Effect(f, debitLocked(f, k, x), At(k, 0 - x))
<1>1. CASE f.ok /\ f.bal[k].locked >= x
  <2>1. PICK r : r = [f.bal[k] EXCEPT !.locked = SubFloorZero(@, x)]
    OBVIOUS
  <2>2. f.bal[k] \in Balance
    BY DEF Funds
  <2>3. r \in Balance /\ worth(r) = worth(f.bal[k]) + (0 - x)
    BY <1>1, <2>1, <2>2 DEF Balance, worth, SubFloorZero
  <2>4. debitLocked(f, k, x) = [f EXCEPT !.bal[k] = r]
    BY <1>1, <2>1 DEF debitLocked, Funds
  <2> QED  BY <1>1, <2>3, <2>4, RowEffect
<1>2. CASE ~(f.ok /\ f.bal[k].locked >= x)
  BY <1>2, FailEffect DEF debitLocked
<1> QED  BY <1>1, <1>2

\* addAvailableBalance adds the amount to the total.
LEMMA CreditEffect ==
    ASSUME NEW f \in Funds, NEW k \in AccountKeys, NEW x \in Nat
    PROVE  Effect(f, addAvailableBalance(f, k, x), At(k, x))
<1>1. CASE f.ok
  <2>1. PICK r : r = [f.bal[k] EXCEPT !.available = @ + x]
    OBVIOUS
  <2>2. f.bal[k] \in Balance
    BY DEF Funds
  <2>3. r \in Balance /\ worth(r) = worth(f.bal[k]) + x
    BY <2>1, <2>2 DEF Balance, worth
  <2>4. addAvailableBalance(f, k, x) = [f EXCEPT !.bal[k] = r]
    BY <1>1, <2>1 DEF addAvailableBalance, Funds
  <2> QED  BY <1>1, <2>3, <2>4, RowEffect
<1>2. CASE ~f.ok
  BY <1>2 DEF addAvailableBalance, Effect
<1> QED  BY <1>1, <1>2

\* MarkDepositPending adds the amount to the total.
LEMMA MarkEffect ==
    ASSUME NEW f \in Funds, NEW k \in AccountKeys, NEW x \in Nat
    PROVE  Effect(f, MarkDepositPending(f, k, x), At(k, x))
<1>1. CASE f.ok
  <2>1. PICK r : r = [f.bal[k] EXCEPT !.pending = @ + x]
    OBVIOUS
  <2>2. f.bal[k] \in Balance
    BY DEF Funds
  <2>3. r \in Balance /\ worth(r) = worth(f.bal[k]) + x
    BY <2>1, <2>2 DEF Balance, worth
  <2>4. MarkDepositPending(f, k, x) = [f EXCEPT !.bal[k] = r]
    BY <1>1, <2>1 DEF MarkDepositPending, Funds
  <2> QED  BY <1>1, <2>3, <2>4, RowEffect
<1>2. CASE ~f.ok
  BY <1>2 DEF MarkDepositPending, Effect
<1> QED  BY <1>1, <1>2

\* SettleDeposit moves funds within one row.
LEMMA SettleEffect ==
    ASSUME NEW f \in Funds, NEW k \in AccountKeys, NEW x \in Nat
    PROVE  Effect(f, SettleDeposit(f, k, x), At(k, 0))
<1>1. CASE f.ok /\ f.bal[k].pending >= x
  <2>1. PICK r : r = Row(f.bal[k].available + x, f.bal[k].locked,
                         SubFloorZero(f.bal[k].pending, x))
    OBVIOUS
  <2>2. f.bal[k] \in Balance
    BY DEF Funds
  <2>0. PICK d \in Int : d = 0
    OBVIOUS
  <2>3. r \in Balance /\ worth(r) = worth(f.bal[k]) + d
    BY <1>1, <2>0, <2>1, <2>2 DEF Balance, worth, SubFloorZero, Row
  <2>4. SettleDeposit(f, k, x) = [f EXCEPT !.bal[k] = r]
    BY <1>1, <2>1 DEF SettleDeposit, Funds
  <2>5. Effect(f, SettleDeposit(f, k, x), At(k, d))
    BY <1>1, <2>3, <2>4, RowEffect
  <2> QED  BY <2>0, <2>5
<1>2. CASE ~(f.ok /\ f.bal[k].pending >= x)
  BY <1>2, FailEffect DEF SettleDeposit
<1> QED  BY <1>1, <1>2

\* The hold of RequestWithdrawal moves funds within one row.
LEMMA HoldEffect ==
    ASSUME NEW f \in Funds, NEW k \in AccountKeys, NEW x \in Nat
    PROVE  Effect(f, HoldWithdrawal(f, k, x), At(k, 0))
<1>1. CASE f.ok /\ f.bal[k].available >= x
  <2>1. PICK r : r = Row(SubFloorZero(f.bal[k].available, x), f.bal[k].locked,
                         f.bal[k].pending + x)
    OBVIOUS
  <2>2. f.bal[k] \in Balance
    BY DEF Funds
  <2>0. PICK d \in Int : d = 0
    OBVIOUS
  <2>3. r \in Balance /\ worth(r) = worth(f.bal[k]) + d
    BY <1>1, <2>0, <2>1, <2>2 DEF Balance, worth, SubFloorZero, Row
  <2>4. HoldWithdrawal(f, k, x) = [f EXCEPT !.bal[k] = r]
    BY <1>1, <2>1 DEF HoldWithdrawal, Funds
  <2>5. Effect(f, HoldWithdrawal(f, k, x), At(k, d))
    BY <1>1, <2>3, <2>4, RowEffect
  <2> QED  BY <2>0, <2>5
<1>2. CASE ~(f.ok /\ f.bal[k].available >= x)
  BY <1>2, FailEffect DEF HoldWithdrawal
<1> QED  BY <1>1, <1>2

\* finalizeWithdrawal takes a completed withdrawal out of the total and
\* keeps a canceled one in it.
LEMMA FinalizeEffect ==
    ASSUME NEW f \in Funds, NEW k \in AccountKeys, NEW x \in Nat
    PROVE  /\ Effect(f, FinalizeHold(f, k, x, TRUE), At(k, 0))
           /\ Effect(f, FinalizeHold(f, k, x, FALSE), At(k, 0 - x))
<1>1. CASE f.ok /\ f.bal[k].pending >= x
  <2>1. PICK r, c : /\ r = Row(f.bal[k].available, f.bal[k].locked,
                               SubFloorZero(f.bal[k].pending, x))
                    /\ c = Row(f.bal[k].available + x, f.bal[k].locked,
                               SubFloorZero(f.bal[k].pending, x))
    OBVIOUS
  <2>2. f.bal[k] \in Balance
    BY DEF Funds
  <2>3. PICK d \in Int, e \in Int : d = 0 - x /\ e = 0
    OBVIOUS
  <2>4. SubFloorZero(f.bal[k].pending, x) = f.bal[k].pending - x
    BY <1>1 DEF SubFloorZero
  <2>5. r \in Balance /\ worth(r) = worth(f.bal[k]) + d
    BY <1>1, <2>1, <2>2, <2>3, <2>4 DEF Balance, worth, Row
  <2>6. c \in Balance /\ worth(c) = worth(f.bal[k]) + e
    BY <1>1, <2>1, <2>2, <2>3, <2>4 DEF Balance, worth, Row
  <2>7. FinalizeHold(f, k, x, FALSE) = [f EXCEPT !.bal[k] = r]
    BY <1>1, <2>1 DEF FinalizeHold, Funds
  <2>8. FinalizeHold(f, k, x, TRUE) = [f EXCEPT !.bal[k] = c]
    BY <1>1, <2>1 DEF FinalizeHold, Funds
  <2>9. /\ Effect(f, [f EXCEPT !.bal[k] = r], At(k, d))
        /\ Effect(f, [f EXCEPT !.bal[k] = c], At(k, e))
    BY <1>1, <2>5, <2>6, RowEffect
  <2> QED  BY <2>3, <2>7, <2>8, <2>9, Zenon
<1>2. CASE ~(f.ok /\ f.bal[k].pending >= x)
  BY <1>2, FailEffect DEF FinalizeHold
<1> QED  BY <1>1, <1>2

\* A reservation is charged without touching a balance.
LEMMA ChargeEffect ==
    ASSUME NEW f \in Funds, NEW id \in OrderIds, NEW x \in Nat, NEW kind
    PROVE  Effect(f, applyReservationDelta(f, id, x, kind), Nothing)
<1>1. PICK g : g = applyReservationDelta(f, id, x, kind)
  OBVIOUS
<1>2. CASE x > 0 /\ f.res[id].status # "none"
  <2>1. g \in Funds /\ (g.ok => f.ok /\ g.bal = f.bal)
    BY <1>1, <1>2, ReservationDelta
  <2> QED  BY <1>1, <2>1, NoEffect
<1>3. CASE ~(x > 0 /\ f.res[id].status # "none")
  <2>1. g = f
    BY <1>1, <1>3 DEF applyReservationDelta
  <2> QED  BY <1>1, <2>1, NoEffect
<1> QED  BY <1>2, <1>3

\* The types of the effects above.
LEMMA EffectTypes ==
    /\ Nothing \in [Assets -> Int]
    /\ \A k \in AccountKeys, d \in Int : At(k, d) \in [Assets -> Int]
BY DEF Nothing, At

\* Two operations on tables, one after the other.
LEMMA TwoEffects ==
    ASSUME NEW f, NEW g, NEW h, NEW D \in [Assets -> Int], NEW E \in [Assets -> Int],
           NEW C, \A a \in Assets : C[a] = D[a] + E[a],
           Effect(f, g, D), Effect(g, h, E)
    PROVE  Effect(f, h, C)
<1>1. PICK S : S = [a \in Assets |-> D[a] + E[a]]
  OBVIOUS
<1>2. Effect(f, h, S) /\ \A a \in Assets : S[a] = C[a]
  BY <1>1, EffectsAdd
<1> QED  BY <1>2 DEF Effect

\* A reservation at placement moves funds within one row.
LEMMA ReserveOrderEffect ==
    ASSUME NEW f \in Funds, RowsBalanced(f), NEW o, IsOrder(o),
           NEW g, g = ReserveOrderFunds(f, o), g.ok
    PROVE  Effect(f, g, Nothing)
<1>1. PICK k \in AccountKeys, x \in Nat :
         k = reserveAccount(o) /\ x = orderReserveAmount(o)
  BY ReserveType, Zenon
<1>2. CASE x = 0
  <2>1. g = f
    BY <1>1, <1>2 DEF ReserveOrderFunds
  <2> QED  BY <2>1, NoEffect
<1>3. CASE x > 0
  <2>1. g \in Funds
    BY <1>1, <1>3, ReserveEffect
  <2>2. f.bal[k] \in Balance
    BY DEF Funds
  <2>3. ~(f.bal[k].available < x) /\ f.ok
    <3>1. CASE ~f.ok
      BY <3>1 DEF ReserveOrderFunds
    <3>2. CASE f.ok /\ f.bal[k].available < x
      <4>1. g = Fail(f)
        BY <1>1, <1>3, <3>2 DEF ReserveOrderFunds
      <4> QED  BY <4>1 DEF Fail, Funds
    <3> QED  BY <3>1, <3>2
  <2>4. PICK r : r = Row(SubFloorZero(f.bal[k].available, x), f.bal[k].locked + x,
                         f.bal[k].pending)
    OBVIOUS
  <2>5. PICK m : m = [f EXCEPT !.bal[k] = r]
    OBVIOUS
  <2>6. PICK d \in Int : d = 0
    OBVIOUS
  <2>7. r \in Balance /\ worth(r) = worth(f.bal[k]) + d
    <3>1. SubFloorZero(f.bal[k].available, x) = f.bal[k].available - x
      BY <2>2, <2>3 DEF SubFloorZero, Balance
    <3>2. f.bal[k].available - x \in Nat
      BY <2>2, <2>3 DEF Balance
    <3> QED  BY <2>2, <2>4, <2>6, <3>1, <3>2 DEF Balance, worth, Row
  <2>8. Effect(f, m, At(k, d))
    BY <2>3, <2>5, <2>7, RowEffect
  <2>9. g = createReservation(m, o.id, k, x)
    <3>1. ~(x <= 0)
      BY <1>3
    <3> QED  BY <1>1, <2>3, <2>4, <2>5, <3>1, Zenon DEF ReserveOrderFunds
  <2>10. m \in Funds
    BY <2>8 DEF Effect
  <2>11. m.ok /\ g.bal = m.bal
    BY <2>9, <2>10 DEF createReservation, Fail, Funds
  <2>12. Effect(m, g, Nothing)
    BY <2>1, <2>11, NoEffect
  <2>13. \A a \in Assets : Nothing[a] = At(k, d)[a] + Nothing[a]
    BY <2>6 DEF Nothing, At
  <2> QED  BY <2>8, <2>12, <2>13, EffectTypes, TwoEffects
<1> QED  BY <1>2, <1>3

\* A release gives back what it takes out of the lock.
LEMMA ReleaseOrderEffect ==
    ASSUME NEW f \in Funds, NEW o, IsOrder(o), NEW g, g = ReleaseOrderFunds(f, o)
    PROVE  Effect(f, g, Nothing)
<1>1. PICK k \in AccountKeys, y \in Nat :
         k = reserveAccount(o) /\ y = orderReserveAmount(o)
  BY ReserveType, Zenon
<1>2. PICK id \in OrderIds : id = o.id
  BY DEF IsOrder
<1>3. f.bal[k].locked \in Nat /\ f.res[id].remaining \in Nat
  BY DEF Funds, Balance, Reservation
<1>4. PICK x \in Nat : x = clampedReleaseAmount(f, o, y)
  BY <1>1, <1>2, <1>3 DEF clampedReleaseAmount
<1>5. CASE ~f.ok \/ y <= 0 \/ x <= 0
  <2>1. g = f
    BY <1>1, <1>4, <1>5 DEF ReleaseOrderFunds
  <2> QED  BY <2>1, NoEffect
<1>6. CASE f.ok /\ y > 0 /\ x > 0
  <2>1. PICK f1 : f1 = debitLocked(f, k, x)
    OBVIOUS
  <2>2. PICK f2 : f2 = addAvailableBalance(f1, k, x)
    OBVIOUS
  <2>3. g = applyReservationDelta(f2, id, x, "release")
    <3>1. ~(y <= 0) /\ ~(x <= 0)
      BY <1>6
    <3> QED  BY <1>1, <1>2, <1>4, <1>6, <2>1, <2>2, <3>1, Zenon
                DEF ReleaseOrderFunds, releaseReservation, moveLockedToAvailable
  <2>4. Effect(f, f1, At(k, 0 - x)) /\ f1 \in Funds
    BY <2>1, DebitEffect DEF Effect
  <2>5. Effect(f1, f2, At(k, x)) /\ f2 \in Funds
    BY <2>2, <2>4, CreditEffect DEF Effect
  <2>6. Effect(f2, g, Nothing)
    BY <2>3, <2>5, ChargeEffect
  <2>7. /\ \A a \in Assets : Nothing[a] = At(k, 0 - x)[a] + At(k, x)[a]
        /\ \A a \in Assets : Nothing[a] = Nothing[a] + Nothing[a]
        /\ x \in Int /\ 0 - x \in Int
    BY DEF Nothing, At
  <2>8. /\ At(k, 0 - x) \in [Assets -> Int]
        /\ At(k, x) \in [Assets -> Int]
        /\ Nothing \in [Assets -> Int]
    BY <2>7, EffectTypes
  <2>9. Effect(f, f2, Nothing)
    BY <2>4, <2>5, <2>7, <2>8, TwoEffects
  <2> QED  BY <2>6, <2>7, <2>8, <2>9, TwoEffects
<1> QED  BY <1>3, <1>5, <1>6

\* A trade: the buyer's lock pays the seller and gives back the improvement, the
\* seller's lock pays the buyer.
LEMMA SettleTradeKeepsTotals ==
    ASSUME NEW f \in Funds, NEW b, IsOrder(b), NEW s, IsOrder(s),
           NEW t, t.qty \in Nat, t.quote \in Nat,
           settleTrade(f, t, b, s).ok
    PROVE  Effect(f, settleTrade(f, t, b, s), Nothing)
<1>1. f.ok /\ validSettlement(t, b)
  BY DEF settleTrade, Fail, Funds
<1>2. PICK g : g = settleSeller(settleBuyer(f, t, b), t, s)
  OBVIOUS
<1>3. settleTrade(f, t, b, s) = g
  BY <1>1, <1>2 DEF settleTrade
<1>4. PICK qty \in Nat, quote \in Nat, lock \in Nat :
         qty = t.qty /\ quote = t.quote /\ lock = buyerLockedQuote(t, b)
  BY MulType DEF buyerLockedQuote, IsOrder
<1>5. PICK better \in Nat : lock = quote + better /\ SubFloorZero(lock, quote) = better
  BY <1>1, <1>4 DEF SubFloorZero, validSettlement
<1>6. PICK kb \in AccountKeys, qb \in AccountKeys, ks \in AccountKeys, qs \in AccountKeys :
         /\ kb = <<b.user, Quote>> /\ qb = <<b.user, Base>>
         /\ ks = <<s.user, Base>> /\ qs = <<s.user, Quote>>
  BY DEF IsOrder, AccountKeys, Assets
<1>7. PICK ib \in OrderIds, is \in OrderIds : ib = b.id /\ is = s.id
  BY DEF IsOrder
<1>8. PICK f1 : f1 = debitLocked(f, kb, lock)
  OBVIOUS
<1>9. PICK f2 : f2 = applyReservationDelta(f1, ib, quote, "consume")
  OBVIOUS
<1>10. PICK f3 : f3 = addAvailableBalance(f2, kb, better)
  OBVIOUS
<1>11. PICK f4 : f4 = IF better > 0
                      THEN applyReservationDelta(f3, ib, better, "release")
                      ELSE f2
  OBVIOUS
<1>12. PICK f5 : f5 = addAvailableBalance(f4, qb, qty)
  OBVIOUS
<1>13. PICK f6 : f6 = debitLocked(f5, ks, qty)
  OBVIOUS
<1>14. PICK f7 : f7 = applyReservationDelta(f6, is, qty, "consume")
  OBVIOUS
<1>15. f5 = settleBuyer(f, t, b)
  BY <1>4, <1>5, <1>6, <1>7, <1>8, <1>9, <1>10, <1>11, <1>12
     DEF settleBuyer, consumeReservation, releaseReservation
<1>16. g = addAvailableBalance(f7, qs, quote)
  BY <1>2, <1>4, <1>6, <1>7, <1>13, <1>14, <1>15 DEF settleSeller, consumeReservation
<1>17. PICK pay \in Int, back \in Int, give \in Int :
          pay = 0 - lock /\ back = better /\ give = 0 - qty
  OBVIOUS
<1>18. Effect(f, f1, At(kb, pay)) /\ f1 \in Funds
  BY <1>8, <1>17, DebitEffect DEF Effect
<1>19. Effect(f1, f2, Nothing) /\ f2 \in Funds
  BY <1>9, <1>18, ChargeEffect DEF Effect
<1>20. Effect(f2, f4, At(kb, back)) /\ f4 \in Funds
  <2>1. CASE better = 0
    <3>1. f4 = f2 /\ \A a \in Assets : At(kb, back)[a] = 0
      BY <1>11, <1>17, <2>1 DEF At
    <3> QED  BY <1>19, <3>1, GainsNothing DEF Effect
  <2>2. CASE better > 0
    <3>1. Effect(f2, f3, At(kb, back)) /\ f3 \in Funds
      BY <1>10, <1>17, <1>19, CreditEffect DEF Effect
    <3>2. Effect(f3, f4, Nothing)
      BY <1>11, <2>2, <3>1, ChargeEffect
    <3>3. \A a \in Assets : At(kb, back)[a] = At(kb, back)[a] + Nothing[a]
      BY DEF At, Nothing
    <3>4. At(kb, back) \in [Assets -> Int] /\ Nothing \in [Assets -> Int]
      BY EffectTypes
    <3>5. Effect(f2, f4, At(kb, back))
      BY <3>1, <3>2, <3>3, <3>4, TwoEffects
    <3> QED  BY <3>5 DEF Effect
  <2> QED  BY <2>1, <2>2
<1>21. Effect(f4, f5, At(qb, qty)) /\ f5 \in Funds
  BY <1>12, <1>20, CreditEffect DEF Effect
<1>22. Effect(f5, f6, At(ks, give)) /\ f6 \in Funds
  BY <1>13, <1>17, <1>21, DebitEffect DEF Effect
<1>23. Effect(f6, f7, Nothing) /\ f7 \in Funds
  BY <1>14, <1>22, ChargeEffect DEF Effect
<1>24. Effect(f7, g, At(qs, quote))
  BY <1>16, <1>23, CreditEffect
<1> DEFINE E2 == [a \in Assets |-> At(kb, pay)[a] + Nothing[a]]
           E4 == [a \in Assets |-> E2[a] + At(kb, back)[a]]
           E5 == [a \in Assets |-> E4[a] + At(qb, qty)[a]]
           E6 == [a \in Assets |-> E5[a] + At(ks, give)[a]]
           E7 == [a \in Assets |-> E6[a] + Nothing[a]]
<1>25. /\ E2 \in [Assets -> Int] /\ E4 \in [Assets -> Int] /\ E5 \in [Assets -> Int]
       /\ E6 \in [Assets -> Int] /\ E7 \in [Assets -> Int]
  BY DEF At, Nothing
<1>26. \A a \in Assets : Nothing[a] = E7[a] + At(qs, quote)[a]
  <2>1. kb[2] = Quote /\ qb[2] = Base /\ ks[2] = Base /\ qs[2] = Quote
    BY <1>6
  <2>2. Base # Quote
    BY LedgerAssumption
  <2>3. Nothing[Base] = E7[Base] + At(qs, quote)[Base]
    BY <1>17, <2>1, <2>2 DEF Assets, At, Nothing
  <2>4. Nothing[Quote] = E7[Quote] + At(qs, quote)[Quote]
    BY <1>5, <1>17, <2>1, <2>2 DEF Assets, At, Nothing
  <2> QED  BY <2>3, <2>4 DEF Assets
<1>27. At(kb, pay) \in [Assets -> Int] /\ At(kb, back) \in [Assets -> Int]
       /\ At(qb, qty) \in [Assets -> Int] /\ At(ks, give) \in [Assets -> Int]
       /\ At(qs, quote) \in [Assets -> Int] /\ Nothing \in [Assets -> Int]
  BY EffectTypes
<1>28. Effect(f, f2, E2)
  BY <1>18, <1>19, <1>27, EffectsAdd
<1> HIDE DEF E2
<1>29. Effect(f, f4, E4)
  BY <1>20, <1>25, <1>27, <1>28, EffectsAdd
<1> HIDE DEF E4
<1>30. Effect(f, f5, E5)
  BY <1>21, <1>25, <1>27, <1>29, EffectsAdd
<1> HIDE DEF E5
<1>31. Effect(f, f6, E6)
  BY <1>22, <1>25, <1>27, <1>30, EffectsAdd
<1> HIDE DEF E6
<1>32. Effect(f, f7, E7)
  BY <1>23, <1>25, <1>27, <1>31, EffectsAdd
<1> HIDE DEF E7
<1>33. Effect(f, g, Nothing)
  BY <1>24, <1>25, <1>26, <1>27, <1>32, TwoEffects
<1> QED  BY <1>3, <1>33

=============================================================================
