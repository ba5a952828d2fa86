---------------------------- MODULE OrdersProofs ----------------------------
(***************************************************************************)
(* The order service: one order per client order id, published levels that *)
(* are the book, sound accounts, and, of transactions that run one after   *)
(* another, as in Orders, a book that is never left crossed and fills in   *)
(* price-time order, for any requests, users, amounts and candidate limit. *)
(* The transactions of Orders are folds; FoldLemmas gives the induction    *)
(* over each of them.                                                      *)
(*                                                                         *)
(* The second half follows a match from the inside out.  The candidates    *)
(* come in priority order and without a gap (LineInOrder).  MatchLimit     *)
(* takes them in that order and goes on to the next one when one is used   *)
(* up, or stops because the taker is (MatchLimitFills).  A round that      *)
(* trades uses up the taker or an order the taker faces                    *)
(* (RoundFillsInOrder), so the rounds are enough: what is left of the      *)
(* taker faces nobody (MatchFills).  The stops a transaction activates are *)
(* such matches one after the other, and none of them was in the book      *)
(* (StopsTidy).  Every transaction then leaves an uncrossed book from an   *)
(* uncrossed book; that the book was uncrossed is also why a match job     *)
(* that runs again fills nothing (RematchIsIdle).                          *)
(***************************************************************************)
EXTENDS Orders, LedgerProofs, FiniteSetTheorems, WellFoundedInduction

-----------------------------------------------------------------------------
(* Ranks.                                                                  *)

StrictOrder(R, S) ==
    /\ \A x \in S : <<x, x>> \notin R
    /\ \A x, y \in S : x # y => <<x, y>> \in R \/ <<y, x>> \in R
    /\ \A x, y, z \in S : <<x, y>> \in R /\ <<y, z>> \in R => <<x, z>> \in R

Below(R, S, x) == {y \in S : <<y, x>> \in R}

\* In a finite set with a strict total order there is, for every place, an element
\* with that many elements before it: the CHOOSE of firstInLine and of inSequence
\* has something to choose.
LEMMA RankExists ==
    ASSUME NEW S, IsFiniteSet(S), NEW R, StrictOrder(R, S),
           NEW i \in 1..Cardinality(S)
    PROVE  \E c \in S : Cardinality(Below(R, S, c)) = i - 1
<1>1. PICK n \in Nat : n = Cardinality(S)
  BY FS_CardinalityType
<1>2. \A c \in S : /\ IsFiniteSet(Below(R, S, c))
                   /\ Cardinality(Below(R, S, c)) \in 0..(n - 1)
  <2> SUFFICES ASSUME NEW c \in S
               PROVE  /\ IsFiniteSet(Below(R, S, c))
                      /\ Cardinality(Below(R, S, c)) \in 0..(n - 1)
    OBVIOUS
  <2>1. Below(R, S, c) \in SUBSET S /\ c \notin Below(R, S, c)
    BY DEF Below, StrictOrder
  <2>2. /\ IsFiniteSet(Below(R, S, c))
        /\ Cardinality(Below(R, S, c)) <= Cardinality(S)
        /\ Cardinality(S) = Cardinality(Below(R, S, c)) => S = Below(R, S, c)
    BY <2>1, FS_Subset
  <2>3. Cardinality(Below(R, S, c)) \in Nat
    BY <2>2, FS_CardinalityType
  <2> QED  BY <1>1, <2>1, <2>2, <2>3
<1>3. \A c, d \in S : <<c, d>> \in R =>
        Cardinality(Below(R, S, c)) # Cardinality(Below(R, S, d))
  <2> SUFFICES ASSUME NEW c \in S, NEW d \in S, <<c, d>> \in R
               PROVE  Cardinality(Below(R, S, c)) # Cardinality(Below(R, S, d))
    OBVIOUS
  <2>1. Below(R, S, c) \in SUBSET Below(R, S, d)
    BY DEF Below, StrictOrder
  <2>2. c \in Below(R, S, d) /\ c \notin Below(R, S, c)
    BY DEF Below, StrictOrder
  <2>3. Cardinality(Below(R, S, d)) = Cardinality(Below(R, S, c))
          => Below(R, S, d) = Below(R, S, c)
    BY <1>2, <2>1, FS_Subset
  <2> QED  BY <2>2, <2>3
<1> DEFINE rank == [c \in S |-> Cardinality(Below(R, S, c))]
<1>4. rank \in Injection(S, 0..(n - 1))
  <2>1. rank \in [S -> 0..(n - 1)]
    BY <1>2
  <2>2. ASSUME NEW c \in S, NEW d \in S, rank[c] = rank[d] PROVE c = d
    <3>1. Cardinality(Below(R, S, c)) = Cardinality(Below(R, S, d))
      BY <2>2
    <3> QED  BY <1>3, <3>1 DEF StrictOrder
  <2>3. DOMAIN rank = S
    OBVIOUS
  <2> HIDE DEF rank
  <2>4. IsInjective(rank)
    BY <2>2, <2>3 DEF IsInjective
  <2> QED  BY <2>1, <2>4 DEF Injection
<1>5. IsFiniteSet(0..(n - 1)) /\ Cardinality(0..(n - 1)) = n
  <2>1. 0 \in Int /\ n - 1 \in Int
    OBVIOUS
  <2>2. /\ IsFiniteSet(0..(n - 1))
        /\ Cardinality(0..(n - 1)) = IF 0 > n - 1 THEN 0 ELSE (n - 1) - 0 + 1
    BY <2>1, FS_Interval
  <2> QED  BY <2>2
<1> HIDE DEF rank
<1>6. rank \in Surjection(S, 0..(n - 1))
  BY <1>1, <1>4, <1>5, FS_Injection
<1>7. i - 1 \in 0..(n - 1)
  BY <1>1
<1>8. PICK c \in S : rank[c] = i - 1
  BY <1>6, <1>7 DEF Surjection
<1>9. rank[c] = Cardinality(Below(R, S, c))
  BY DEF rank
<1> QED  BY <1>8, <1>9

\* Sets of order ids are finite.
LEMMA IdsFinite ==
    ASSUME NEW ids \in SUBSET OrderIds
    PROVE  IsFiniteSet(ids) /\ \A o \in ids : o \in Nat
<1>1. PICK n \in Nat : n = MaxOrders
  BY LedgerAssumption
<1>2. IsFiniteSet(1..n)
  <2>1. 1 \in Int /\ n \in Int
    OBVIOUS
  <2> QED  BY <2>1, FS_Interval
<1>3. ids \in SUBSET (1..n)
  BY <1>1 DEF OrderIds
<1>4. IsFiniteSet(ids)
  BY <1>2, <1>3, FS_Subset
<1>5. \A o \in ids : o \in Nat
  BY <1>3
<1> QED  BY <1>4, <1>5

\* The pending stops come in the order of their sequence ids.
LEMMA InSequence ==
    ASSUME NEW ids \in SUBSET OrderIds
    PROVE  \E n \in Nat : /\ DOMAIN inSequence(ids) = 1..n
                          /\ \A i \in 1..n : inSequence(ids)[i] \in ids
<1>1. IsFiniteSet(ids)
  BY IdsFinite
<1>2. PICK n \in Nat : n = Cardinality(ids)
  BY <1>1, FS_CardinalityType
<1>3. PICK R : R = {p \in ids \X ids : p[1] < p[2]}
  OBVIOUS
<1>4. \A x, y \in ids : <<x, y>> \in R <=> x < y
  BY <1>3
<1>5. StrictOrder(R, ids)
  <2>1. \A x \in ids : x \in Nat
    BY IdsFinite
  <2>2. \A x \in ids : <<x, x>> \notin R
    BY <1>4, <2>1
  <2>3. \A x, y \in ids : x # y => <<x, y>> \in R \/ <<y, x>> \in R
    BY <1>4, <2>1
  <2>4. \A x, y, z \in ids : <<x, y>> \in R /\ <<y, z>> \in R => <<x, z>> \in R
    BY <1>4, <2>1
  <2> QED  BY <2>2, <2>3, <2>4 DEF StrictOrder
<1>6. ASSUME NEW i \in 1..n PROVE inSequence(ids)[i] \in ids
  <2>1. PICK o \in ids : Cardinality(Below(R, ids, o)) = i - 1
    BY <1>1, <1>2, <1>5, RankExists
  <2>2. Below(R, ids, o) = {x \in ids : x < o}
    BY <1>4 DEF Below
  <2>3. \E x \in ids : Cardinality({y \in ids : y < x}) = i - 1
    BY <2>1, <2>2
  <2>4. inSequence(ids)[i] = CHOOSE x \in ids : Cardinality({y \in ids : y < x}) = i - 1
    BY <1>2 DEF inSequence
  <2> QED  BY <2>3, <2>4
<1>7. DOMAIN inSequence(ids) = 1..n
  BY <1>2 DEF inSequence
<1> QED  BY <1>6, <1>7

\* The candidates come in priority order; what matters here is that each of them is
\* one of the orders found.
LEMMA FirstInLine ==
    ASSUME NEW found, IsFiniteSet(found),
           \A c \in found : c.id \in Nat /\ c.price \in Nat,
           \A c, d \in found : c.side = d.side /\ (c.id = d.id => c = d)
    PROVE  \E n \in Nat : /\ DOMAIN firstInLine(found) = 1..n
                          /\ \A i \in 1..n : firstInLine(found)[i] \in found
<1>1. PICK k \in Nat : k = Cardinality(found)
  BY FS_CardinalityType
<1>2. PICK n \in Nat : n = Min({Cardinality(found), CandidateLimit}) /\ n <= k
  <2>1. PICK l \in Nat : l = CandidateLimit
    BY OrdersAssumption
  <2>2. \E x \in {k, l} : \A y \in {k, l} : x <= y
    OBVIOUS
  <2>3. Min({k, l}) \in {k, l} /\ \A y \in {k, l} : Min({k, l}) <= y
    BY <2>2 DEF Min
  <2> QED  BY <1>1, <2>1, <2>3
<1>3. PICK R : R = {p \in found \X found : better(p[1], p[2])}
  OBVIOUS
<1>4. \A x, y \in found : <<x, y>> \in R <=> better(x, y)
  BY <1>3
<1>5. StrictOrder(R, found)
  <2>2. \A x \in found : ~better(x, x)
    BY DEF better
  <2>3. \A x, y \in found : x # y => better(x, y) \/ better(y, x)
    BY DEF better
  <2>4. \A x, y, z \in found : better(x, y) /\ better(y, z) => better(x, z)
    BY DEF better
  <2> QED  BY <1>4, <2>2, <2>3, <2>4 DEF StrictOrder
<1>6. ASSUME NEW i \in 1..n PROVE firstInLine(found)[i] \in found
  <2>1. i \in 1..Cardinality(found)
    BY <1>1, <1>2
  <2>2. PICK c \in found : Cardinality(Below(R, found, c)) = i - 1
    BY <1>5, <2>1, RankExists
  <2>3. Below(R, found, c) = {d \in found : better(d, c)}
    BY <1>4 DEF Below
  <2>4. \E x \in found : Cardinality({d \in found : better(d, x)}) = i - 1
    BY <2>2, <2>3
  <2>5. firstInLine(found)[i]
          = CHOOSE x \in found : Cardinality({d \in found : better(d, x)}) = i - 1
    BY <1>2 DEF firstInLine
  <2> QED  BY <2>4, <2>5
<1>7. DOMAIN firstInLine(found) = 1..n
  BY <1>2 DEF firstInLine
<1> QED  BY <1>6, <1>7

\* The orders of a working copy, each under its own id.
OrderBook(os) == os \in [OrderIds -> Order] /\ \A o \in OrderIds : os[o].id = o

\* The orders of a list are in the book, on the other side of the taker.
FromBook(os, taker, l) ==
    \E n \in Nat :
        /\ DOMAIN l = 1..n
        /\ \A i \in 1..n : \E o \in activeOrders(os) \ {taker.id} :
               l[i] = os[o] /\ os[o].side = oppositeSide(taker.side)

\* Every candidate is an order of the other side that is in the book.
LEMMA Candidates ==
    ASSUME NEW os, OrderBook(os), NEW taker
    PROVE  FromBook(os, taker, ListMatchCandidates(os, taker))
<1> DEFINE ids == {x \in activeOrders(os) :
                     /\ x # taker.id
                     /\ os[x].side = oppositeSide(taker.side)
                     /\ IF taker.side = "buy" THEN os[x].price <= taker.price
                                              ELSE os[x].price >= taker.price}
           found == {os[o] : o \in ids}
<1>1. ids \in SUBSET OrderIds
  BY DEF activeOrders
<1>2. IsFiniteSet(ids) /\ \A o \in ids : o \in Nat
  BY <1>1, IdsFinite
<1>3. IsFiniteSet(found)
  <2>1. PICK h : h = [o \in ids |-> os[o]]
    OBVIOUS
  <2>2. h \in Surjection(ids, found)
    BY <2>1 DEF Surjection
  <2> QED  BY <1>2, <2>2, FS_Surjection
<1>4. \A o \in ids : /\ os[o].id = o /\ o \in Nat
                     /\ os[o].price \in Nat
                     /\ os[o].side = oppositeSide(taker.side)
  <2> SUFFICES ASSUME NEW o \in ids
               PROVE  /\ os[o].id = o /\ o \in Nat
                      /\ os[o].price \in Nat
                      /\ os[o].side = oppositeSide(taker.side)
    OBVIOUS
  <2>1. o \in OrderIds /\ o \in Nat
    BY <1>1, <1>2
  <2>2. os[o] \in Order /\ os[o].id = o
    BY <2>1 DEF OrderBook
  <2>3. os[o].price \in Nat
    BY <2>2 DEF Order
  <2> QED  BY <2>1, <2>2, <2>3
<1>5. \A c \in found : c.id \in Nat /\ c.price \in Nat
  BY <1>4
<1>6. \A c, d \in found : c.side = d.side /\ (c.id = d.id => c = d)
  BY <1>4
<1>7. ListMatchCandidates(os, taker) = firstInLine(found)
  BY DEF ListMatchCandidates
<1>8. \A c \in found : \E o \in activeOrders(os) \ {taker.id} :
         c = os[o] /\ os[o].side = oppositeSide(taker.side)
  OBVIOUS
<1> HIDE DEF found, ids
<1>9. \E n \in Nat : /\ DOMAIN firstInLine(found) = 1..n
                     /\ \A i \in 1..n : firstInLine(found)[i] \in found
  BY <1>3, <1>5, <1>6, FirstInLine
<1> QED  BY <1>7, <1>8, <1>9 DEF FromBook

-----------------------------------------------------------------------------
(* What a transaction does to orders and levels, from the working copy f   *)
(* to a later one g.                                                       *)

\* b is a later state of the order a.
SameOrder(a, b) ==
    /\ b.id = a.id
    /\ b.client = a.client
    /\ b.user = a.user
    /\ b.side = a.side
    /\ b.type = a.type
    /\ b.tif = a.tif
    /\ b.price = a.price
    /\ b.stop = a.stop
    /\ b.qty = a.qty
    /\ b.status = "none" <=> a.status = "none"

\* The fields of a working copy.
Copy(f) ==
    /\ f = [ok |-> f.ok, bal |-> f.bal, res |-> f.res, orders |-> f.orders,
            last |-> f.last, levels |-> f.levels, touched |-> f.touched]
    /\ f.ok \in BOOLEAN
    /\ OrderBook(f.orders)

levelKey(o) == <<o.side, o.price>>

\* No order becomes another, and whoever changes an order notes its price level.
Advances(f, g) ==
    /\ Copy(f) /\ Copy(g)
    /\ g.levels = f.levels
    /\ f.touched \subseteq g.touched
    /\ \A o \in OrderIds : SameOrder(f.orders[o], g.orders[o])
    /\ \A o \in OrderIds : \/ g.orders[o] = f.orders[o]
                            \/ levelKey(g.orders[o]) \in g.touched

\* The tables of the ledger in a working copy, and what an operation does that
\* changes nothing else.
ledgerOf(f) == [ok |-> f.ok, bal |-> f.bal, res |-> f.res]

LedgerOnly(f, g) ==
    /\ Copy(g)
    /\ g.orders = f.orders
    /\ g.levels = f.levels
    /\ g.touched = f.touched

\* Nothing but orders and touched levels.
BookOnly(f, g) ==
    /\ g.bal = f.bal
    /\ g.res = f.res
    /\ g.ok => f.ok

\* Being states of one order is an equivalence.
LEMMA SameOrderTrans ==
    /\ \A a : SameOrder(a, a)
    /\ \A a, b : SameOrder(a, b) => SameOrder(b, a)
    /\ \A a, b, c : SameOrder(a, b) /\ SameOrder(b, c) => SameOrder(a, c)
BY DEF SameOrder

\* So do working copies.
LEMMA AdvancesTrans ==
    /\ \A f : Copy(f) => Advances(f, f)
    /\ \A f, g, h : Advances(f, g) /\ Advances(g, h) => Advances(f, h)
<1>1. \A f : Copy(f) => Advances(f, f)
  BY SameOrderTrans DEF Advances
<1>2. ASSUME NEW f, NEW g, NEW h, Advances(f, g), Advances(g, h)
      PROVE  Advances(f, h)
  <2>1. \A o \in OrderIds : SameOrder(f.orders[o], h.orders[o])
    BY <1>2, SameOrderTrans DEF Advances
  <2>2. ASSUME NEW o \in OrderIds
        PROVE  h.orders[o] = f.orders[o] \/ levelKey(h.orders[o]) \in h.touched
    <3>1. levelKey(h.orders[o]) = levelKey(g.orders[o])
      BY <1>2 DEF Advances, SameOrder, levelKey
    <3> QED  BY <1>2, <3>1 DEF Advances
  <2> QED  BY <1>2, <2>1, <2>2 DEF Advances
<1> QED  BY <1>1, <1>2

\* A ledger operation leaves every order as it is.
LEMMA LedgerAdvances ==
    ASSUME NEW f, NEW g, Copy(f), LedgerOnly(f, g)
    PROVE  Advances(f, g)
BY SameOrderTrans DEF Advances, LedgerOnly

\* SaveOrder of a later state of an order whose level is noted.
LEMMA SaveAdvances ==
    ASSUME NEW f, Copy(f), NEW o \in Order, SameOrder(f.orders[o.id], o),
           levelKey(o) \in f.touched
    PROVE  Advances(f, SaveOrder(f, o)) /\ BookOnly(f, SaveOrder(f, o))
<1>1. PICK g : g = SaveOrder(f, o)
  OBVIOUS
<1>2. PICK id \in OrderIds : id = o.id
  BY DEF Order
<1>3. g = [f EXCEPT !.orders = [f.orders EXCEPT ![id] = o]]
  BY <1>1, <1>2 DEF SaveOrder
<1>4. PICK os : os = [f.orders EXCEPT ![id] = o]
  OBVIOUS
<1>5. OrderBook(os) /\ os[id] = o /\ \A x \in OrderIds \ {id} : os[x] = f.orders[x]
  BY <1>2, <1>4 DEF Copy, OrderBook
<1>6. /\ g = [ok |-> f.ok, bal |-> f.bal, res |-> f.res, orders |-> os,
               last |-> f.last, levels |-> f.levels, touched |-> f.touched]
  BY <1>3, <1>4 DEF Copy
<1>7. /\ g.ok = f.ok /\ g.bal = f.bal /\ g.res = f.res /\ g.orders = os
      /\ g.last = f.last /\ g.levels = f.levels /\ g.touched = f.touched
  BY <1>6
<1>8. Copy(g)
  BY <1>5, <1>6, <1>7 DEF Copy
<1>9. \A x \in OrderIds : SameOrder(f.orders[x], os[x])
  BY <1>2, <1>5, SameOrderTrans
<1>10. \A x \in OrderIds : os[x] = f.orders[x] \/ levelKey(os[x]) \in f.touched
  BY <1>5
<1>11. Advances(f, g)
  BY <1>7, <1>8, <1>9, <1>10 DEF Advances
<1> QED  BY <1>1, <1>7, <1>11 DEF BookOnly

\* touch notes a level and does nothing else.
LEMMA TouchAdvances ==
    ASSUME NEW f, Copy(f), NEW o
    PROVE  /\ Advances(f, touch(f, o)) /\ BookOnly(f, touch(f, o))
           /\ levelKey(o) \in touch(f, o).touched
           /\ touch(f, o).orders = f.orders
<1>1. PICK g : g = touch(f, o)
  OBVIOUS
<1>2. g = [ok |-> f.ok, bal |-> f.bal, res |-> f.res, orders |-> f.orders,
           last |-> f.last, levels |-> f.levels,
           touched |-> f.touched \cup {levelKey(o)}]
  BY <1>1 DEF touch, Copy, levelKey
<1>3. /\ g.ok = f.ok /\ g.bal = f.bal /\ g.res = f.res /\ g.orders = f.orders
      /\ g.last = f.last /\ g.levels = f.levels
      /\ g.touched = f.touched \cup {levelKey(o)}
  BY <1>2
<1>4. Copy(g)
  BY <1>2, <1>3 DEF Copy
<1>5. Advances(f, g)
  BY <1>3, <1>4, SameOrderTrans DEF Advances
<1> QED  BY <1>1, <1>3, <1>5 DEF BookOnly

-----------------------------------------------------------------------------
(* The operations of the ledger on a working copy are those on its ledger. *)

IsLedger(l) == l = [ok |-> l.ok, bal |-> l.bal, res |-> l.res] /\ l.ok \in BOOLEAN

With(f, l) == [ok |-> l.ok, bal |-> l.bal, res |-> l.res, orders |-> f.orders,
               last |-> f.last, levels |-> f.levels, touched |-> f.touched]

\* A working copy is its ledger and the rest.
LEMMA WithLedger ==
    ASSUME NEW f, Copy(f)
    PROVE  IsLedger(ledgerOf(f)) /\ With(f, ledgerOf(f)) = f
<1>1. IsLedger(ledgerOf(f))
  BY DEF IsLedger, ledgerOf, Copy
<1>2. With(f, ledgerOf(f)) = f
  BY DEF Copy, With, ledgerOf
<1> QED  BY <1>1, <1>2

\* A working copy with another ledger.
LEMMA WithOther ==
    ASSUME NEW f, Copy(f), NEW l, IsLedger(l), NEW g, g = With(f, l)
    PROVE  /\ LedgerOnly(f, g) /\ ledgerOf(g) = l
           /\ g.ok = l.ok /\ g.bal = l.bal /\ g.res = l.res
<1>1. /\ g.ok = l.ok /\ g.bal = l.bal /\ g.res = l.res /\ g.orders = f.orders
      /\ g.last = f.last /\ g.levels = f.levels /\ g.touched = f.touched
  BY DEF With
<1>2. g = [ok |-> g.ok, bal |-> g.bal, res |-> g.res, orders |-> g.orders,
           last |-> g.last, levels |-> g.levels, touched |-> g.touched]
  BY <1>1 DEF With
<1>3. LedgerOnly(f, g)
  BY <1>1, <1>2 DEF LedgerOnly, Copy, IsLedger
<1>4. ledgerOf(g) = l
  BY <1>1 DEF IsLedger, ledgerOf
<1> QED  BY <1>1, <1>3, <1>4

\* An error.
LEMMA FailWith ==
    ASSUME NEW f, NEW l, IsLedger(l)
    PROVE  Fail(With(f, l)) = With(f, Fail(l)) /\ IsLedger(Fail(l))
<1>1. PICK no : no = FALSE
  BY Zenon
<1>2. Fail(l) = [l EXCEPT !.ok = no] /\ Fail(With(f, l)) = [With(f, l) EXCEPT !.ok = no]
  BY <1>1, Zenon DEF Fail
<1>3. [l EXCEPT !.ok = no] = [ok |-> no, bal |-> l.bal, res |-> l.res]
  BY DEF IsLedger
<1>4. [With(f, l) EXCEPT !.ok = no] = With(f, [ok |-> no, bal |-> l.bal, res |-> l.res])
  BY DEF With
<1>5. IsLedger([ok |-> no, bal |-> l.bal, res |-> l.res])
  <2>1. no \in BOOLEAN
    BY <1>1, Zenon
  <2> QED  BY <2>1 DEF IsLedger
<1> QED  BY <1>2, <1>3, <1>4, <1>5

\* debitLocked.
LEMMA DebitWith ==
    ASSUME NEW f, NEW l, IsLedger(l), NEW k, NEW x
    PROVE  /\ debitLocked(With(f, l), k, x) = With(f, debitLocked(l, k, x))
           /\ IsLedger(debitLocked(l, k, x))
<1>1. PICK bs : bs = [l.bal EXCEPT ![k].locked = SubFloorZero(@, x)]
  OBVIOUS
<1>2. [l EXCEPT !.bal[k].locked = SubFloorZero(@, x)] = [ok |-> l.ok, bal |-> bs, res |-> l.res]
  BY <1>1 DEF IsLedger
<1>3. [With(f, l) EXCEPT !.bal[k].locked = SubFloorZero(@, x)]
        = With(f, [ok |-> l.ok, bal |-> bs, res |-> l.res])
  BY <1>1 DEF With
<1>4. With(f, l).ok = l.ok /\ With(f, l).bal = l.bal
  BY DEF With
<1>5. IsLedger([ok |-> l.ok, bal |-> bs, res |-> l.res])
  BY DEF IsLedger
<1> QED  BY <1>2, <1>3, <1>4, <1>5, FailWith DEF debitLocked

\* addAvailableBalance.
LEMMA CreditWith ==
    ASSUME NEW f, NEW l, IsLedger(l), NEW k, NEW x
    PROVE  /\ addAvailableBalance(With(f, l), k, x) = With(f, addAvailableBalance(l, k, x))
           /\ IsLedger(addAvailableBalance(l, k, x))
<1>1. PICK bs : bs = [l.bal EXCEPT ![k].available = @ + x]
  OBVIOUS
<1>2. [l EXCEPT !.bal[k].available = @ + x] = [ok |-> l.ok, bal |-> bs, res |-> l.res]
  BY <1>1 DEF IsLedger
<1>3. [With(f, l) EXCEPT !.bal[k].available = @ + x]
        = With(f, [ok |-> l.ok, bal |-> bs, res |-> l.res])
  BY <1>1 DEF With
<1>4. With(f, l).ok = l.ok /\ With(f, l).bal = l.bal
  BY DEF With
<1>5. IsLedger([ok |-> l.ok, bal |-> bs, res |-> l.res])
  BY DEF IsLedger
<1> QED  BY <1>2, <1>3, <1>4, <1>5 DEF addAvailableBalance

\* applyReservationDelta.
LEMMA ChargeWith ==
    ASSUME NEW f, NEW l, IsLedger(l), NEW id, NEW x, NEW kind
    PROVE  /\ applyReservationDelta(With(f, l), id, x, kind)
                = With(f, applyReservationDelta(l, id, x, kind))
           /\ IsLedger(applyReservationDelta(l, id, x, kind))
<1>1. PICK rs : rs = [l.res EXCEPT ![id] = chargedRow(@, x, kind)]
  OBVIOUS
<1>2. [l EXCEPT !.res[id] = chargedRow(@, x, kind)] = [ok |-> l.ok, bal |-> l.bal, res |-> rs]
  BY <1>1 DEF IsLedger
<1>3. [With(f, l) EXCEPT !.res[id] = chargedRow(@, x, kind)]
        = With(f, [ok |-> l.ok, bal |-> l.bal, res |-> rs])
  BY <1>1 DEF With
<1>4. With(f, l).ok = l.ok /\ With(f, l).res = l.res
  BY DEF With
<1>5. IsLedger([ok |-> l.ok, bal |-> l.bal, res |-> rs])
  BY DEF IsLedger
<1> QED  BY <1>2, <1>3, <1>4, <1>5, FailWith DEF applyReservationDelta

\* ReserveOrderFunds.
LEMMA ReserveWith ==
    ASSUME NEW f, NEW l, IsLedger(l), NEW o
    PROVE  /\ ReserveOrderFunds(With(f, l), o) = With(f, ReserveOrderFunds(l, o))
           /\ IsLedger(ReserveOrderFunds(l, o))
<1>1. PICK k, x : k = reserveAccount(o) /\ x = orderReserveAmount(o)
  OBVIOUS
<1>2. PICK bs : bs = [l.bal EXCEPT ![k] = Row(SubFloorZero(@.available, x), @.locked + x, @.pending)]
  OBVIOUS
<1>3. PICK m : m = [ok |-> l.ok, bal |-> bs, res |-> l.res]
  OBVIOUS
<1>4. [l EXCEPT !.bal[k] = Row(SubFloorZero(@.available, x), @.locked + x, @.pending)] = m
  BY <1>2, <1>3 DEF IsLedger
<1>5. [With(f, l) EXCEPT !.bal[k] = Row(SubFloorZero(@.available, x), @.locked + x, @.pending)]
        = With(f, m)
  BY <1>2, <1>3 DEF With
<1>6. IsLedger(m) /\ m.ok = l.ok /\ m.bal = bs /\ m.res = l.res
  BY <1>3 DEF IsLedger
<1>7. /\ createReservation(With(f, m), o.id, k, x) = With(f, createReservation(m, o.id, k, x))
      /\ IsLedger(createReservation(m, o.id, k, x))
  <2>1. PICK r : r = [account |-> k, amount |-> x, consumed |-> 0, released |-> 0,
                      remaining |-> x, status |-> "active"]
    OBVIOUS
  <2>2. PICK rs : rs = [m.res EXCEPT ![o.id] = r]
    OBVIOUS
  <2>3. [m EXCEPT !.res[o.id] = r] = [ok |-> m.ok, bal |-> m.bal, res |-> rs]
    BY <1>6, <2>2 DEF IsLedger
  <2>4. [With(f, m) EXCEPT !.res[o.id] = r] = With(f, [ok |-> m.ok, bal |-> m.bal, res |-> rs])
    BY <2>2 DEF With
  <2>5. With(f, m).ok = m.ok /\ With(f, m).res = m.res
    BY DEF With
  <2>6. IsLedger([ok |-> m.ok, bal |-> m.bal, res |-> rs])
    BY <1>6 DEF IsLedger
  <2> QED  BY <1>6, <2>1, <2>3, <2>4, <2>5, <2>6, FailWith DEF createReservation
<1>8. With(f, l).ok = l.ok /\ With(f, l).bal = l.bal
  BY DEF With
<1> QED  BY <1>1, <1>4, <1>5, <1>7, <1>8, FailWith DEF ReserveOrderFunds

\* ReleaseOrderFunds.
LEMMA ReleaseWith ==
    ASSUME NEW f, NEW l, IsLedger(l), NEW o
    PROVE  /\ ReleaseOrderFunds(With(f, l), o) = With(f, ReleaseOrderFunds(l, o))
           /\ IsLedger(ReleaseOrderFunds(l, o))
<1>1. PICK k, x : k = reserveAccount(o) /\ x = clampedReleaseAmount(l, o, orderReserveAmount(o))
  OBVIOUS
<1>2. With(f, l).ok = l.ok /\ With(f, l).bal = l.bal /\ With(f, l).res = l.res
  BY DEF With
<1>3. clampedReleaseAmount(With(f, l), o, orderReserveAmount(o)) = x
  BY <1>1, <1>2 DEF clampedReleaseAmount
<1>4. PICK d : d = debitLocked(l, k, x)
  OBVIOUS
<1>5. debitLocked(With(f, l), k, x) = With(f, d) /\ IsLedger(d)
  BY <1>4, DebitWith
<1>6. PICK c : c = addAvailableBalance(d, k, x)
  OBVIOUS
<1>7. addAvailableBalance(With(f, d), k, x) = With(f, c) /\ IsLedger(c)
  BY <1>5, <1>6, CreditWith
<1>8. /\ moveLockedToAvailable(With(f, l), k, x) = With(f, c)
      /\ moveLockedToAvailable(l, k, x) = c
  BY <1>4, <1>5, <1>6, <1>7 DEF moveLockedToAvailable
<1>9. /\ releaseReservation(With(f, c), o.id, x) = With(f, releaseReservation(c, o.id, x))
      /\ IsLedger(releaseReservation(c, o.id, x))
  BY <1>7, ChargeWith DEF releaseReservation
<1> QED  BY <1>1, <1>2, <1>3, <1>8, <1>9 DEF ReleaseOrderFunds

\* The buyer's half of a settlement.
LEMMA BuyerWith ==
    ASSUME NEW f, NEW l, IsLedger(l), NEW t, NEW b
    PROVE  settleBuyer(With(f, l), t, b) = With(f, settleBuyer(l, t, b))
           /\ IsLedger(settleBuyer(l, t, b))
<1>1. PICK k, q, x, y : /\ k = <<b.user, Quote>> /\ q = <<b.user, Base>>
                        /\ x = buyerLockedQuote(t, b) /\ y = SubFloorZero(x, t.quote)
  OBVIOUS
<1>2. PICK d : d = debitLocked(l, k, x)
  OBVIOUS
<1>3. debitLocked(With(f, l), k, x) = With(f, d) /\ IsLedger(d)
  BY <1>2, DebitWith
<1>4. PICK p : p = consumeReservation(d, b.id, t.quote)
  OBVIOUS
<1>5. consumeReservation(With(f, d), b.id, t.quote) = With(f, p) /\ IsLedger(p)
  BY <1>3, <1>4, ChargeWith DEF consumeReservation
<1>6. PICK c : c = addAvailableBalance(p, k, y)
  OBVIOUS
<1>7. addAvailableBalance(With(f, p), k, y) = With(f, c) /\ IsLedger(c)
  BY <1>5, <1>6, CreditWith
<1>8. PICK r : r = releaseReservation(c, b.id, y)
  OBVIOUS
<1>9. releaseReservation(With(f, c), b.id, y) = With(f, r) /\ IsLedger(r)
  BY <1>7, <1>8, ChargeWith DEF releaseReservation
<1>10. PICK e : e = IF y > 0 THEN r ELSE p
  OBVIOUS
<1>11. (IF y > 0 THEN With(f, r) ELSE With(f, p)) = With(f, e) /\ IsLedger(e)
  BY <1>5, <1>9, <1>10
<1>12. addAvailableBalance(With(f, e), q, t.qty) = With(f, addAvailableBalance(e, q, t.qty))
       /\ IsLedger(addAvailableBalance(e, q, t.qty))
  BY <1>11, CreditWith
<1>13. settleBuyer(l, t, b) = addAvailableBalance(e, q, t.qty)
  BY <1>1, <1>2, <1>4, <1>6, <1>8, <1>10 DEF settleBuyer
<1>14. settleBuyer(With(f, l), t, b) = addAvailableBalance(With(f, e), q, t.qty)
  BY <1>1, <1>3, <1>5, <1>7, <1>9, <1>11 DEF settleBuyer
<1> QED  BY <1>12, <1>13, <1>14

\* The seller's half.
LEMMA SellerWith ==
    ASSUME NEW f, NEW l, IsLedger(l), NEW t, NEW s
    PROVE  settleSeller(With(f, l), t, s) = With(f, settleSeller(l, t, s))
           /\ IsLedger(settleSeller(l, t, s))
<1>1. PICK k, q : k = <<s.user, Base>> /\ q = <<s.user, Quote>>
  OBVIOUS
<1>2. PICK d : d = debitLocked(l, k, t.qty)
  OBVIOUS
<1>3. debitLocked(With(f, l), k, t.qty) = With(f, d) /\ IsLedger(d)
  BY <1>2, DebitWith
<1>4. PICK p : p = consumeReservation(d, s.id, t.qty)
  OBVIOUS
<1>5. consumeReservation(With(f, d), s.id, t.qty) = With(f, p) /\ IsLedger(p)
  BY <1>3, <1>4, ChargeWith DEF consumeReservation
<1>6. addAvailableBalance(With(f, p), q, t.quote) = With(f, addAvailableBalance(p, q, t.quote))
      /\ IsLedger(addAvailableBalance(p, q, t.quote))
  BY <1>5, CreditWith
<1>7. settleSeller(l, t, s) = addAvailableBalance(p, q, t.quote)
  BY <1>1, <1>2, <1>4 DEF settleSeller
<1>8. settleSeller(With(f, l), t, s) = addAvailableBalance(With(f, p), q, t.quote)
  BY <1>1, <1>3, <1>5 DEF settleSeller
<1> QED  BY <1>6, <1>7, <1>8

\* settleTrade.
LEMMA SettleWith ==
    ASSUME NEW f, NEW l, IsLedger(l), NEW t, NEW b, NEW s
    PROVE  settleTrade(With(f, l), t, b, s) = With(f, settleTrade(l, t, b, s))
           /\ IsLedger(settleTrade(l, t, b, s))
<1>1. PICK m : m = settleBuyer(l, t, b)
  OBVIOUS
<1>2. settleBuyer(With(f, l), t, b) = With(f, m) /\ IsLedger(m)
  BY <1>1, BuyerWith
<1>3. settleSeller(With(f, m), t, s) = With(f, settleSeller(m, t, s))
      /\ IsLedger(settleSeller(m, t, s))
  BY <1>2, SellerWith
<1>4. With(f, l).ok = l.ok
  BY DEF With
<1> QED  BY <1>1, <1>2, <1>3, <1>4, FailWith DEF settleTrade

-----------------------------------------------------------------------------
(* What a transaction does to the funds.                                   *)

\* Every order has the reservation it was placed with, on the account it draws on.
OrdersReserved(f) ==
    \A o \in OrderIds : f.orders[o].status # "none" =>
        /\ f.res[o].status # "none"
        /\ f.res[o].account = reserveAccount(f.orders[o])

FundsSound(f) ==
    /\ f.bal \in [AccountKeys -> Balance]
    /\ f.res \in [OrderIds -> Reservation]
    /\ RowsBalanced(f)
    /\ LockedCovered(f.bal, f.res)
    /\ OrdersReserved(f)

\* If the transaction is committed, sound funds stay sound and the users own as much
\* of each asset as before.
Conserves(f, g) ==
    g.ok => /\ f.ok
            /\ FundsSound(f) => /\ FundsSound(g)
                                /\ \A a \in Assets : Gains(f.bal, g.bal, a, 0)

\* A transaction that conserves the funds step by step conserves them.
LEMMA ConservesTrans ==
    ASSUME NEW f, NEW g, NEW h, Conserves(f, g), Conserves(g, h)
    PROVE  Conserves(f, h)
<1> SUFFICES ASSUME h.ok, FundsSound(f)
             PROVE  f.ok /\ FundsSound(h) /\ \A a \in Assets : Gains(f.bal, h.bal, a, 0)
  BY DEF Conserves
<1>1. g.ok /\ f.ok /\ FundsSound(g) /\ FundsSound(h)
  BY DEF Conserves
<1>2. ASSUME NEW a \in Assets PROVE Gains(f.bal, h.bal, a, 0)
  <2>1. Gains(f.bal, g.bal, a, 0) /\ Gains(g.bal, h.bal, a, 0)
    BY <1>1 DEF Conserves
  <2>2. Gains(f.bal, h.bal, a, 0 + 0)
    <3>1. PICK d \in Int : d = 0
      OBVIOUS
    <3>2. Gains(f.bal, h.bal, a, d + d)
      BY <2>1, <3>1, GainsAdd
    <3> QED  BY <3>1, <3>2
  <2>3. 0 + 0 = 0
    OBVIOUS
  <2> QED  BY <2>2, <2>3
<1> QED  BY <1>1, <1>2

\* Saving orders does nothing to the funds.
LEMMA BookConserves ==
    ASSUME NEW f, NEW g, Advances(f, g), BookOnly(f, g)
    PROVE  Conserves(f, g)
<1> SUFFICES ASSUME g.ok, FundsSound(f)
             PROVE  f.ok /\ FundsSound(g) /\ \A a \in Assets : Gains(f.bal, g.bal, a, 0)
  <2>1. g.ok => f.ok
    BY DEF BookOnly
  <2> QED  BY <2>1 DEF Conserves
<1>1. g.bal = f.bal /\ g.res = f.res /\ f.ok
  BY DEF BookOnly
<1>2. \A a \in Assets : Gains(f.bal, g.bal, a, 0)
  BY <1>1, GainsNothing
<1>3. \A o \in OrderIds : /\ g.orders[o].status = "none" <=> f.orders[o].status = "none"
                          /\ reserveAccount(g.orders[o]) = reserveAccount(f.orders[o])
  BY DEF Advances, SameOrder, reserveAccount
<1>4. OrdersReserved(g)
  BY <1>1, <1>3 DEF OrdersReserved, FundsSound
<1>5. FundsSound(g)
  BY <1>1, <1>4 DEF FundsSound, RowsBalanced
<1> QED  BY <1>1, <1>2, <1>5

\* An operation of the ledger whose locks and reservations agree.
LEMMA LedgerConserves ==
    ASSUME NEW f, Copy(f), NEW g, LedgerOnly(f, g), g.ok => f.ok,
           g.ok /\ FundsSound(f) =>
              /\ ledgerOf(g) \in Funds
              /\ Effect(ledgerOf(f), ledgerOf(g), Nothing)
              /\ RowsBalanced(ledgerOf(g))
              /\ LockedCovered(g.bal, g.res)
              /\ \A o \in OrderIds : f.res[o].status # "none" =>
                    g.res[o].status # "none" /\ g.res[o].account = f.res[o].account
    PROVE  Conserves(f, g)
<1> SUFFICES ASSUME g.ok, FundsSound(f)
             PROVE  FundsSound(g) /\ \A a \in Assets : Gains(f.bal, g.bal, a, 0)
  BY DEF Conserves
<1>1. /\ ledgerOf(g).bal = g.bal /\ ledgerOf(g).res = g.res /\ ledgerOf(g).ok = g.ok
      /\ ledgerOf(f).bal = f.bal /\ ledgerOf(f).res = f.res
  BY DEF ledgerOf
<1>2. g.bal \in [AccountKeys -> Balance] /\ g.res \in [OrderIds -> Reservation]
  BY <1>1 DEF Funds
<1>3. RowsBalanced(g)
  BY <1>1 DEF RowsBalanced
<1>4. OrdersReserved(g)
  BY DEF OrdersReserved, LedgerOnly, FundsSound
<1>5. FundsSound(g)
  BY <1>2, <1>3, <1>4 DEF FundsSound
<1>6. ASSUME NEW a \in Assets PROVE Gains(f.bal, g.bal, a, 0)
  <2>1. Gains(f.bal, g.bal, a, Nothing[a])
    BY <1>1 DEF Effect
  <2>2. Nothing[a] = 0
    BY DEF Nothing
  <2> QED  BY <2>1, <2>2
<1> QED  BY <1>5, <1>6

\* The ledger of a working copy with sound funds.
LEMMA LedgerSound ==
    ASSUME NEW f, Copy(f), FundsSound(f)
    PROVE  /\ ledgerOf(f) \in Funds
           /\ RowsBalanced(ledgerOf(f))
           /\ LockedCovered(ledgerOf(f).bal, ledgerOf(f).res)
           /\ ledgerOf(f).res = f.res /\ ledgerOf(f).bal = f.bal
BY DEF FundsSound, Copy, ledgerOf, Funds, RowsBalanced

\* An order in its table, as the ledger sees it.
LEMMA OrderInBook ==
    ASSUME NEW o \in Order
    PROVE  IsOrder(o)
BY DEF Order, IsOrder, Sides

\* The release of what an order has left.
LEMMA ReleaseConserves ==
    ASSUME NEW f, Copy(f), NEW o \in Order, SameOrder(f.orders[o.id], o),
           o.status # "none"
    PROVE  /\ LedgerOnly(f, ReleaseOrderFunds(f, o))
           /\ Conserves(f, ReleaseOrderFunds(f, o))
<1>1. PICK l : l = ledgerOf(f)
  OBVIOUS
<1>2. IsLedger(l) /\ With(f, l) = f
  BY <1>1, WithLedger
<1>3. PICK m : m = ReleaseOrderFunds(l, o)
  OBVIOUS
<1>4. PICK g : g = ReleaseOrderFunds(f, o)
  OBVIOUS
<1>5. g = With(f, m) /\ IsLedger(m)
  BY <1>2, <1>3, <1>4, ReleaseWith
<1>6. /\ LedgerOnly(f, g) /\ ledgerOf(g) = m
      /\ g.ok = m.ok /\ g.bal = m.bal /\ g.res = m.res
  BY <1>5, WithOther
<1>7. l.ok = f.ok /\ l.bal = f.bal /\ l.res = f.res
  BY <1>1 DEF ledgerOf
<1>8. m.ok => l.ok
  BY <1>3, <1>2 DEF ReleaseOrderFunds, releaseReservation, applyReservationDelta, moveLockedToAvailable,
     addAvailableBalance, debitLocked, Fail, IsLedger
<1>9. ASSUME m.ok, FundsSound(f)
      PROVE  /\ m \in Funds
             /\ Effect(l, m, Nothing)
             /\ RowsBalanced(m)
             /\ LockedCovered(m.bal, m.res)
             /\ \A x \in OrderIds : f.res[x].status # "none" =>
                   m.res[x].status # "none" /\ m.res[x].account = f.res[x].account
  <2>1. l \in Funds /\ RowsBalanced(l) /\ LockedCovered(l.bal, l.res)
    BY <1>1, <1>9, LedgerSound
  <2>2. PICK id \in OrderIds : id = o.id
    BY DEF Order
  <2>3. IsOrder(o)
    BY OrderInBook
  <2>4. l.res[o.id].status # "none" /\ l.res[o.id].account = reserveAccount(o)
    <3>1. f.orders[id].status # "none" /\ reserveAccount(f.orders[id]) = reserveAccount(o)
      BY <2>2 DEF SameOrder, reserveAccount
    <3>2. f.res[id].status # "none" /\ f.res[id].account = reserveAccount(f.orders[id])
      BY <1>9, <3>1 DEF FundsSound, OrdersReserved
    <3> QED  BY <1>7, <2>2, <3>1, <3>2
  <2>5. m \in Funds /\ OrderEffect(l, m, o.id, reserveAccount(o)) /\ RowsBalanced(m)
    BY <1>3, <1>9, <2>1, <2>3, <2>4, ReleaseEffect
  <2>6. Effect(l, m, Nothing)
    BY <1>3, <2>1, <2>3, ReleaseOrderEffect
  <2>7. PICK k \in AccountKeys : k = reserveAccount(o)
    BY <2>3, ReserveType
  <2>8. LockedCovered(m.bal, m.res)
    BY <2>1, <2>2, <2>4, <2>5, <2>7, OrderEffectCovers
  <2>9. \A x \in OrderIds : f.res[x].status # "none" =>
                   m.res[x].status # "none" /\ m.res[x].account = f.res[x].account
    BY <1>7, <2>2, <2>4, <2>5 DEF OrderEffect
  <2> QED  BY <2>5, <2>6, <2>8, <2>9
<1>10. Conserves(f, g)
  BY <1>1, <1>6, <1>7, <1>8, <1>9, LedgerConserves
<1> QED  BY <1>4, <1>6, <1>10

\* A settled trade between two orders of the book.
LEMMA SettleConserves ==
    ASSUME NEW f, Copy(f), NEW b \in OrderIds, NEW s \in OrderIds, b # s,
           f.orders[b].side = "buy", f.orders[s].side = "sell",
           f.orders[b].status # "none", f.orders[s].status # "none",
           NEW t, t.qty \in Nat, t.quote \in Nat,
           NEW g, g = settleTrade(f, t, f.orders[b], f.orders[s])
    PROVE  LedgerOnly(f, g) /\ Conserves(f, g)
<1>1. PICK l : l = ledgerOf(f)
  OBVIOUS
<1>2. IsLedger(l) /\ With(f, l) = f
  BY <1>1, WithLedger
<1>3. PICK buyer, seller : buyer = f.orders[b] /\ seller = f.orders[s]
  OBVIOUS
<1>4. PICK m : m = settleTrade(l, t, buyer, seller)
  OBVIOUS
<1>5. g = With(f, m) /\ IsLedger(m)
  BY <1>2, <1>3, <1>4, SettleWith
<1>6. /\ LedgerOnly(f, g) /\ ledgerOf(g) = m
      /\ g.ok = m.ok /\ g.bal = m.bal /\ g.res = m.res
  BY <1>5, WithOther
<1>7. l.ok = f.ok /\ l.bal = f.bal /\ l.res = f.res
  BY <1>1 DEF ledgerOf
<1>8. m.ok => l.ok
  BY <1>4, <1>2 DEF settleTrade, Fail, IsLedger
<1>9. ASSUME m.ok, FundsSound(f)
      PROVE  /\ m \in Funds
             /\ Effect(l, m, Nothing)
             /\ RowsBalanced(m)
             /\ LockedCovered(m.bal, m.res)
             /\ \A x \in OrderIds : f.res[x].status # "none" =>
                   m.res[x].status # "none" /\ m.res[x].account = f.res[x].account
  <2>1. l \in Funds /\ RowsBalanced(l) /\ LockedCovered(l.bal, l.res)
    BY <1>1, <1>9, LedgerSound
  <2>2. /\ IsOrder(buyer) /\ buyer.id = b /\ buyer.side = "buy"
        /\ IsOrder(seller) /\ seller.id = s /\ seller.side = "sell"
    BY <1>3, OrderInBook DEF Copy, OrderBook
  <2>3. PICK kb \in AccountKeys, ks \in AccountKeys :
          kb = reserveAccount(buyer) /\ ks = reserveAccount(seller)
    BY <2>2, ReserveType
  <2>4. /\ l.res[b].status # "none" /\ l.res[b].account = kb
        /\ l.res[s].status # "none" /\ l.res[s].account = ks
    BY <1>3, <1>7, <1>9, <2>3 DEF FundsSound, OrdersReserved
  <2>5. /\ m \in Funds
        /\ RowsBalanced(m)
        /\ \E x \in Funds : OrderEffect(l, x, b, kb) /\ OrderEffect(x, m, s, ks)
    BY <1>4, <1>9, <2>1, <2>2, <2>3, <2>4, SettleTradeEffect
  <2>6. Effect(l, m, Nothing)
    BY <1>4, <1>9, <2>1, <2>2, SettleTradeKeepsTotals
  <2>7. PICK x \in Funds : OrderEffect(l, x, b, kb) /\ OrderEffect(x, m, s, ks)
    BY <2>5
  <2>8. LockedCovered(x.bal, x.res)
    BY <2>1, <2>4, <2>7, OrderEffectCovers
  <2>9. x.res[s] = l.res[s]
    BY <2>7 DEF OrderEffect
  <2>10. LockedCovered(m.bal, m.res)
    BY <2>4, <2>5, <2>7, <2>8, <2>9, OrderEffectCovers
  <2>11. ASSUME NEW y \in OrderIds, f.res[y].status # "none"
         PROVE  m.res[y].status # "none" /\ m.res[y].account = f.res[y].account
    <3>1. x.res[y].status # "none" /\ x.res[y].account = l.res[y].account
      BY <1>7, <2>4, <2>7, <2>11 DEF OrderEffect
    <3>2. m.res[y].status # "none" /\ m.res[y].account = x.res[y].account
      BY <2>4, <2>7, <2>9, <3>1 DEF OrderEffect
    <3> QED  BY <1>7, <3>1, <3>2
  <2> QED  BY <2>5, <2>6, <2>10, <2>11
<1>10. Conserves(f, g)
  BY <1>1, <1>6, <1>7, <1>8, <1>9, LedgerConserves
<1> QED  BY <1>6, <1>10

-----------------------------------------------------------------------------
(* MatchLimit: whatever it fills are later states of the taker and of the  *)
(* makers it was given, and its trades are between them.                   *)

TradeRecord == [maker : OrderIds, taker : OrderIds, price : Nat, qty : Nat, quote : Nat]

\* d has the taker and the n makers of a call.
laterMakers(d) == {x \in Order : \E i \in 1..d.n : SameOrder(d.makers[i], x)}

tradesAmong(d) ==
    {t \in TradeRecord :
        /\ t.taker = d.taker.id
        /\ t.maker # t.taker
        /\ \E i \in 1..d.n : d.makers[i].id = t.maker /\ d.makers[i].side # d.taker.side}

MatchSound(d, r) ==
    /\ r = [taker |-> r.taker, makers |-> r.makers, trades |-> r.trades,
            halted |-> r.halted, err |-> r.err]
    /\ r.taker \in Order /\ SameOrder(d.taker, r.taker)
    /\ r.makers \in Seq(laterMakers(d))
    /\ r.trades \in Seq(tradesAmong(d))

makerStep(d, r, maker) == matchMaker(r, maker)

Makers == INSTANCE FoldLemmas WITH step <- makerStep, Good <- MatchSound

\* A fill changes an order's quantities and status only.
LEMMA FilledBy ==
    ASSUME NEW o \in Order, o.status # "none", NEW qty \in Nat
    PROVE  filledBy(o, qty) \in Order /\ SameOrder(o, filledBy(o, qty))
<1>1. PICK left \in Nat : left = SubFloorZero(o.remaining, qty)
  BY DEF SubFloorZero, Order
<1>2. PICK st \in {"filled", "partially_filled"} : st = statusForRemaining(left)
  BY DEF statusForRemaining
<1>3. PICK sum \in Nat : sum = o.filled + qty
  BY DEF Order
<1>4. filledBy(o, qty) = [o EXCEPT !.filled = sum, !.remaining = left, !.status = st]
  BY <1>1, <1>2, <1>3 DEF filledBy
<1>5. [o EXCEPT !.filled = sum, !.remaining = left, !.status = st] \in Order
  BY DEF Order, Statuses
<1>6. SameOrder(o, [o EXCEPT !.filled = sum, !.remaining = left, !.status = st])
  BY DEF Order, SameOrder
<1> QED  BY <1>4, <1>5, <1>6

\* Another status than none makes no other order.
LEMMA NewStatus ==
    ASSUME NEW o \in Order, o.status # "none", NEW st \in Statuses, st # "none"
    PROVE  /\ [o EXCEPT !.status = st] \in Order
           /\ SameOrder(o, [o EXCEPT !.status = st])
           /\ [o EXCEPT !.status = st].status # "none"
BY DEF Order, SameOrder

\* One iteration of the loop.
LEMMA MakerStep ==
    ASSUME NEW d, d.taker \in Order, d.taker.status # "none", d.n \in Nat,
           NEW i \in 1..d.n, d.makers[i] \in Order, d.makers[i].status # "none",
           NEW r, MatchSound(d, r)
    PROVE  MatchSound(d, makerStep(d, r, d.makers[i]))
<1>1. PICK maker : maker = d.makers[i]
  OBVIOUS
<1>2. maker \in Order /\ maker.status # "none"
  BY <1>1
<1>3. r.taker \in Order /\ r.taker.status # "none" /\ r.taker.id = d.taker.id
      /\ r.taker.side = d.taker.side
  BY DEF MatchSound, SameOrder
<1>4. CASE eligibleMaker(r.taker, maker)
  <2>1. PICK qty \in Nat : qty = IF r.taker.remaining <= maker.remaining
                                 THEN r.taker.remaining ELSE maker.remaining
    BY <1>2, <1>3 DEF Order
  <2>2. PICK quote \in Nat : quote = Mul(qty, maker.price)
    BY <1>2, <2>1, MulType DEF Order
  <2>3. PICK trade : trade = [maker |-> maker.id, taker |-> r.taker.id,
                              price |-> maker.price, qty |-> qty, quote |-> quote]
    OBVIOUS
  <2>4. maker.id # r.taker.id /\ maker.side # r.taker.side
    BY <1>4 DEF eligibleMaker, crossesPrice
  <2>5. trade \in tradesAmong(d)
    <3>1. maker.id \in OrderIds /\ r.taker.id \in OrderIds /\ maker.price \in Nat
      BY <1>2, <1>3 DEF Order
    <3>2. trade \in TradeRecord
      BY <2>3, <3>1 DEF TradeRecord
    <3>3. trade.taker = d.taker.id /\ trade.maker = maker.id
      BY <1>3, <2>3
    <3>4. maker.side # d.taker.side /\ maker.id # d.taker.id
      BY <1>3, <2>4
    <3> QED  BY <1>1, <3>2, <3>3, <3>4 DEF tradesAmong
  <2>6. PICK t1 : t1 = filledBy(r.taker, qty)
    OBVIOUS
  <2>7. PICK m1 : m1 = filledBy(maker, qty)
    OBVIOUS
  <2>8. t1 \in Order /\ SameOrder(d.taker, t1)
    <3>1. t1 \in Order /\ SameOrder(r.taker, t1)
      BY <1>3, <2>6, FilledBy
    <3> QED  BY <3>1, SameOrderTrans DEF MatchSound
  <2>9. m1 \in laterMakers(d)
    <3>1. m1 \in Order /\ SameOrder(maker, m1)
      BY <1>2, <2>7, FilledBy
    <3> QED  BY <1>1, <3>1 DEF laterMakers
  <2>10. PICK yes : yes = TRUE
    BY Zenon
  <2>11. PICK g : g = [r EXCEPT !.taker = t1, !.makers = Append(@, m1), !.trades = Append(@, trade)]
    OBVIOUS
  <2>12. tradeWith(r, maker) = IF quote <= 0 THEN [r EXCEPT !.err = yes] ELSE g
    BY <2>1, <2>2, <2>3, <2>6, <2>7, <2>10, <2>11 DEF tradeWith
  <2>13. MatchSound(d, [r EXCEPT !.err = yes])
    BY DEF MatchSound
  <2>14. MatchSound(d, g)
    <3>1. g = [taker |-> t1, makers |-> Append(r.makers, m1), trades |-> Append(r.trades, trade),
               halted |-> r.halted, err |-> r.err]
      BY <2>11 DEF MatchSound
    <3>2. Append(r.makers, m1) \in Seq(laterMakers(d)) /\ Append(r.trades, trade) \in Seq(tradesAmong(d))
      BY <2>5, <2>9 DEF MatchSound
    <3> QED  BY <2>8, <3>1, <3>2 DEF MatchSound
  <2>15. MatchSound(d, tradeWith(r, maker))
    BY <2>12, <2>13, <2>14
  <2> QED  BY <1>1, <1>4, <2>15 DEF makerStep, matchMaker
<1>5. CASE ~eligibleMaker(r.taker, maker)
  <2>1. PICK yes : yes = TRUE
    BY Zenon
  <2>2. PICK t1 : t1 = [r.taker EXCEPT !.status = "expired"]
    OBVIOUS
  <2>3. t1 \in Order /\ SameOrder(d.taker, t1)
    <3>1. t1 \in Order /\ SameOrder(r.taker, t1)
      BY <1>3, <2>2, NewStatus DEF Statuses
    <3> QED  BY <3>1, SameOrderTrans DEF MatchSound
  <2>4. PICK g : g = [r EXCEPT !.taker.status = "expired", !.halted = yes]
    OBVIOUS
  <2>5. g = [taker |-> t1, makers |-> r.makers, trades |-> r.trades, halted |-> yes, err |-> r.err]
    BY <2>2, <2>4 DEF MatchSound
  <2>6. MatchSound(d, g)
    BY <2>3, <2>5 DEF MatchSound
  <2>7. matchMaker(r, maker) \in {r, g}
    BY <1>5, <2>1, <2>4 DEF matchMaker
  <2> QED  BY <1>1, <2>6, <2>7 DEF makerStep
<1> QED  BY <1>4, <1>5

\* The whole of MatchLimit.
LEMMA MatchLimitSound ==
    ASSUME NEW taker \in Order, taker.status # "none",
           NEW n \in Nat, NEW makers, DOMAIN makers = 1..n,
           \A i \in 1..n : makers[i] \in Order /\ makers[i].status # "none"
    PROVE  MatchSound([taker |-> taker, makers |-> makers, n |-> n], MatchLimit(taker, makers))
<1>1. PICK d : d = [taker |-> taker, makers |-> makers, n |-> n]
  OBVIOUS
<1>2. d.taker = taker /\ d.makers = makers /\ d.n = n
  BY <1>1
<1>3. PICK start : start = [taker |-> taker, makers |-> <<>>, trades |-> <<>>,
                            halted |-> FALSE, err |-> ~validTaker(taker)]
  OBVIOUS
<1>4. MatchSound(d, start)
  <2>1. start.taker = taker /\ start.makers = <<>> /\ start.trades = <<>>
    BY <1>3
  <2>2. <<>> \in Seq(laterMakers(d)) /\ <<>> \in Seq(tradesAmong(d))
    OBVIOUS
  <2>3. start = [taker |-> start.taker, makers |-> start.makers, trades |-> start.trades,
                 halted |-> start.halted, err |-> start.err]
    BY <1>3
  <2> QED  BY <1>2, <2>1, <2>2, <2>3, SameOrderTrans DEF MatchSound
<1>5. \A r : \A i \in 1..n : MatchSound(d, r) => MatchSound(d, makerStep(d, r, makers[i]))
  BY <1>2, MakerStep
<1>6. MatchSound(d, Makers!FoldFrom(d, start, makers))
  BY <1>4, <1>5, Makers!FoldKeeps
<1>7. PICK r : r = FoldLeft(matchMaker, start, makers)
  OBVIOUS
<1>8. r = Makers!FoldFrom(d, start, makers)
  BY <1>7 DEF Makers!FoldFrom, Makers!FoldLeft, Makers!MapThenFoldSet, Makers!Max,
     FoldLeft, MapThenFoldSet, Max, makerStep
<1>9. MatchLimit(taker, makers) = [r EXCEPT !.taker = restingTaker(@)]
  BY <1>3, <1>7 DEF MatchLimit
<1>10. r.taker \in Order /\ SameOrder(taker, r.taker) /\ r.taker.status # "none"
  BY <1>2, <1>6, <1>8 DEF MatchSound, SameOrder
<1>11. restingTaker(r.taker) \in Order /\ SameOrder(taker, restingTaker(r.taker))
  <2>1. /\ [r.taker EXCEPT !.status = "open"] \in Order
        /\ SameOrder(r.taker, [r.taker EXCEPT !.status = "open"])
    BY <1>10, NewStatus DEF Statuses
  <2>2. SameOrder(taker, [r.taker EXCEPT !.status = "open"])
    BY <1>10, <2>1, SameOrderTrans
  <2> QED  BY <1>10, <2>1, <2>2 DEF restingTaker
<1>12. MatchSound(d, MatchLimit(taker, makers))
  <2>1. PICK t1 : t1 = restingTaker(r.taker)
    OBVIOUS
  <2>2. MatchLimit(taker, makers) = [taker |-> t1, makers |-> r.makers, trades |-> r.trades,
                                     halted |-> r.halted, err |-> r.err]
    BY <1>6, <1>8, <1>9, <2>1 DEF MatchSound
  <2> QED  BY <1>2, <1>6, <1>8, <1>11, <2>1, <2>2 DEF MatchSound
<1> QED  BY <1>1, <1>12

-----------------------------------------------------------------------------
(* The rounds of a match.                                                  *)

Saved(f, g) == Advances(f, g) /\ BookOnly(f, g)

saveStep(c, f, o) == SaveOrder(touch(f, o), o)

Saves == INSTANCE FoldLemmas WITH step <- saveStep, Good <- Saved

\* What is saved after what is saved.
LEMMA SavedTrans ==
    /\ \A f : Copy(f) => Saved(f, f)
    /\ \A f, g, h : Saved(f, g) /\ Saved(g, h) => Saved(f, h)
BY AdvancesTrans DEF Saved, BookOnly

\* The makers of a round are saved, each at its level.
LEMMA SaveMakers ==
    ASSUME NEW f, Copy(f), NEW S,
           \A o \in S : o \in Order /\ SameOrder(f.orders[o.id], o),
           NEW makers \in Seq(S)
    PROVE  Saved(f, FoldLeft(LAMBDA x, o : SaveOrder(touch(x, o), o), f, makers))
<1>1. PICK n \in Nat : n = Len(makers) /\ DOMAIN makers = 1..n
  OBVIOUS
<1>2. \A i \in 1..n : makers[i] \in S
  BY <1>1
<1>3. ASSUME NEW x, Saved(f, x), NEW i \in 1..n
      PROVE  Saved(f, saveStep(f, x, makers[i]))
  <2>1. PICK o : o = makers[i]
    OBVIOUS
  <2>2. o \in Order /\ SameOrder(f.orders[o.id], o) /\ o.id \in OrderIds
    BY <1>2, <2>1 DEF Order
  <2>3. Copy(x)
    BY <1>3 DEF Saved, Advances
  <2>4. PICK y : y = touch(x, o)
    OBVIOUS
  <2>5. Saved(x, y) /\ levelKey(o) \in y.touched /\ y.orders = x.orders /\ Copy(y)
    BY <2>3, <2>4, TouchAdvances DEF Saved, Advances
  <2>6. SameOrder(y.orders[o.id], o)
    <3>1. SameOrder(f.orders[o.id], x.orders[o.id])
      BY <1>3, <2>2 DEF Saved, Advances
    <3> QED  BY <2>2, <2>5, <3>1, SameOrderTrans
  <2>7. Saved(y, SaveOrder(y, o))
    BY <2>2, <2>5, <2>6, SaveAdvances DEF Saved
  <2> QED  BY <1>3, <2>1, <2>4, <2>5, <2>7, SavedTrans DEF saveStep
<1>4. Saved(f, f)
  BY SavedTrans
<1>5. Saved(f, Saves!FoldFrom(f, f, makers))
  BY <1>1, <1>3, <1>4, Saves!FoldKeeps
<1>6. FoldLeft(LAMBDA x, o : SaveOrder(touch(x, o), o), f, makers)
        = Saves!FoldFrom(f, f, makers)
  BY DEF Saves!FoldFrom, Saves!FoldLeft, Saves!MapThenFoldSet, Saves!Max,
     FoldLeft, MapThenFoldSet, Max, saveStep
<1> QED  BY <1>5, <1>6

\* The trades of a taker with orders of the other side.
tradesWith(os, taker) ==
    {t \in TradeRecord :
        /\ t.taker = taker.id
        /\ t.maker # t.taker
        /\ os[t.maker].status # "none"
        /\ os[t.maker].side # taker.side}

\* d has the working copy and the taker at the start of the match.
RoundSound(d, m) ==
    /\ m = [f |-> m.f, taker |-> m.taker, trades |-> m.trades, done |-> m.done]
    /\ Saved(d.f, m.f)
    /\ m.taker \in Order /\ SameOrder(d.taker, m.taker)
    /\ m.trades \in Seq(tradesWith(d.f.orders, d.taker))

roundStep(d, m, i) == matchRound(m)

Rounds == INSTANCE FoldLemmas WITH step <- roundStep, Good <- RoundSound

\* A failed transaction has saved nothing.
LEMMA FailSaves ==
    ASSUME NEW f, Copy(f)
    PROVE  Saved(f, Fail(f))
<1>1. PICK no : no = FALSE /\ no \in BOOLEAN
  BY Zenon
<1>2. PICK g : g = Fail(f)
  OBVIOUS
<1>3. g = [f EXCEPT !.ok = no]
  BY <1>1, <1>2, Zenon DEF Fail
<1>4. g = [ok |-> no, bal |-> f.bal, res |-> f.res, orders |-> f.orders,
           last |-> f.last, levels |-> f.levels, touched |-> f.touched]
  BY <1>3 DEF Copy
<1>5. /\ g.ok = no /\ g.bal = f.bal /\ g.res = f.res /\ g.orders = f.orders
      /\ g.last = f.last /\ g.levels = f.levels /\ g.touched = f.touched
  BY <1>4
<1>6. Copy(g)
  BY <1>1, <1>4, <1>5 DEF Copy
<1>7. Advances(f, g)
  BY <1>5, <1>6, SameOrderTrans DEF Advances
<1>8. ~g.ok
  BY <1>1, <1>5
<1> QED  BY <1>2, <1>5, <1>7, <1>8 DEF Saved, BookOnly

\* The price at which a taker is matched is all that may differ from its own.
LEMMA EffectiveTaker ==
    ASSUME NEW o \in Order
    PROVE  /\ effectiveMatchTaker(o) \in Order
           /\ \A b \in Order : SameOrder(effectiveMatchTaker(o), b) =>
                 /\ [b EXCEPT !.price = o.price] \in Order
                 /\ SameOrder(o, [b EXCEPT !.price = o.price])
           /\ effectiveMatchTaker(o).id = o.id
           /\ effectiveMatchTaker(o).side = o.side
           /\ effectiveMatchTaker(o).status = o.status
<1>1. PICK e : e = effectiveMatchTaker(o)
  OBVIOUS
<1>2. PICK p \in Nat : e = [o EXCEPT !.price = p]
  <2>1. o = [o EXCEPT !.price = o.price] /\ o.price \in Nat
    BY DEF Order
  <2> QED  BY <1>1, <2>1 DEF effectiveMatchTaker
<1>3. e \in Order
  BY <1>2 DEF Order
<1>4. /\ e.id = o.id /\ e.client = o.client /\ e.user = o.user /\ e.side = o.side
      /\ e.type = o.type /\ e.tif = o.tif /\ e.stop = o.stop /\ e.qty = o.qty
      /\ e.status = o.status
  BY <1>2 DEF Order
<1>5. ASSUME NEW b \in Order, SameOrder(e, b)
      PROVE  /\ [b EXCEPT !.price = o.price] \in Order
             /\ SameOrder(o, [b EXCEPT !.price = o.price])
  <2>1. [b EXCEPT !.price = o.price] \in Order
    BY DEF Order
  <2>2. SameOrder(o, [b EXCEPT !.price = o.price])
    BY <1>4, <1>5 DEF Order, SameOrder
  <2> QED  BY <2>1, <2>2
<1> QED  BY <1>1, <1>3, <1>4, <1>5

\* One round.
LEMMA RoundStep ==
    ASSUME NEW d, d.taker.status # "none", NEW m, RoundSound(d, m)
    PROVE  RoundSound(d, matchRound(m))
<1>1. PICK eff : eff = effectiveMatchTaker(m.taker)
  OBVIOUS
<1>2. PICK makers : makers = ListMatchCandidates(m.f.orders, eff)
  OBVIOUS
<1>3. Copy(m.f) /\ OrderBook(m.f.orders)
  BY DEF RoundSound, Saved, Advances, Copy
<1>4. PICK n \in Nat :
        /\ DOMAIN makers = 1..n
        /\ \A i \in 1..n : \E o \in activeOrders(m.f.orders) \ {eff.id} :
              makers[i] = m.f.orders[o] /\ m.f.orders[o].side = oppositeSide(eff.side)
  <2>1. PICK os : os = m.f.orders
    OBVIOUS
  <2>2. FromBook(os, eff, ListMatchCandidates(os, eff))
    BY <1>3, <2>1, Candidates
  <2> QED  BY <1>2, <2>1, <2>2 DEF FromBook
<1>5. m.taker \in Order /\ m.taker.status # "none"
  BY DEF RoundSound, SameOrder
<1>6. eff \in Order /\ eff.status # "none" /\ eff.id = m.taker.id /\ eff.side = m.taker.side
  BY <1>1, <1>5, EffectiveTaker
<1>7. \A i \in 1..n : \E o \in OrderIds :
         /\ makers[i] = m.f.orders[o]
         /\ makers[i] \in Order
         /\ makers[i].id = o
         /\ makers[i].status # "none"
  BY <1>3, <1>4 DEF activeOrders, isBookableOrder, OpenStatuses, OrderBook
<1>8. PICK d2 : d2 = [taker |-> eff, makers |-> makers, n |-> n]
  OBVIOUS
<1>9. PICK result : result = MatchLimit(eff, makers)
  OBVIOUS
<1>10. MatchSound(d2, result)
  BY <1>4, <1>6, <1>7, <1>8, <1>9, MatchLimitSound
<1>11. d2.taker = eff /\ d2.makers = makers /\ d2.n = n
  BY <1>8
<1>12. PICK yes : yes = TRUE
  BY Zenon
<1>13. RoundSound(d, [m EXCEPT !.done = yes])
  BY DEF RoundSound
<1>14. RoundSound(d, [m EXCEPT !.f = Fail(@)])
  <2>1. PICK g : g = Fail(m.f)
    OBVIOUS
  <2>2. Saved(d.f, g)
    BY <1>3, <2>1, FailSaves, SavedTrans DEF RoundSound
  <2>3. [m EXCEPT !.f = Fail(@)] = [f |-> g, taker |-> m.taker, trades |-> m.trades, done |-> m.done]
    BY <2>1 DEF RoundSound
  <2> QED  BY <2>2, <2>3 DEF RoundSound
<1>15. PICK g : g = FoldLeft(LAMBDA f, o : SaveOrder(touch(f, o), o), m.f, result.makers)
  OBVIOUS
<1>16. Saved(d.f, g)
  <2>1. PICK S : S = laterMakers(d2)
    OBVIOUS
  <2>2. ASSUME NEW o \in S PROVE o \in Order /\ SameOrder(m.f.orders[o.id], o)
    <3>1. o \in Order
      BY <2>1 DEF laterMakers
    <3>2. PICK i \in 1..n : SameOrder(makers[i], o)
      BY <1>11, <2>1 DEF laterMakers
    <3>3. PICK x \in OrderIds : makers[i] = m.f.orders[x] /\ makers[i].id = x
      BY <1>7
    <3>4. o.id = x
      BY <3>2, <3>3 DEF SameOrder
    <3> QED  BY <3>1, <3>2, <3>3, <3>4
  <2>3. result.makers \in Seq(S)
    BY <1>10, <2>1 DEF MatchSound
  <2>4. Saved(m.f, g)
    BY <1>3, <1>15, <2>2, <2>3, SaveMakers
  <2> QED  BY <2>4, SavedTrans DEF RoundSound
<1>17. PICK t1 : t1 = IF result.trades # <<>> \/ result.taker.status = "expired"
                      THEN [result.taker EXCEPT !.price = m.taker.price] ELSE m.taker
  OBVIOUS
<1>18. t1 \in Order /\ SameOrder(d.taker, t1)
  <2>1. PICK b : b = [result.taker EXCEPT !.price = m.taker.price]
    OBVIOUS
  <2>2. result.taker \in Order /\ SameOrder(eff, result.taker)
    BY <1>10, <1>11 DEF MatchSound
  <2>3. b \in Order /\ SameOrder(m.taker, b)
    BY <1>1, <1>5, <2>1, <2>2, EffectiveTaker
  <2>4. SameOrder(d.taker, b) /\ SameOrder(d.taker, m.taker)
    BY <2>3, SameOrderTrans DEF RoundSound
  <2> QED  BY <1>5, <1>17, <2>1, <2>3, <2>4
<1>19. m.trades \o result.trades \in Seq(tradesWith(d.f.orders, d.taker))
  <2>1. PICK T : T = tradesWith(d.f.orders, d.taker)
    OBVIOUS
  <2>2. ASSUME NEW t \in tradesAmong(d2) PROVE t \in T
    <3>1. t \in TradeRecord /\ t.taker = eff.id /\ t.maker # t.taker
      BY <1>11 DEF tradesAmong
    <3>2. PICK i \in 1..n : makers[i].id = t.maker /\ makers[i].side # eff.side
      BY <1>11 DEF tradesAmong
    <3>3. PICK x \in OrderIds : /\ makers[i] = m.f.orders[x] /\ makers[i].id = x
                                /\ makers[i].status # "none"
      BY <1>7
    <3>4. SameOrder(d.f.orders[x], m.f.orders[x])
      BY DEF RoundSound, Saved, Advances
    <3>5. d.f.orders[x].status # "none" /\ d.f.orders[x].side = m.f.orders[x].side
      BY <3>3, <3>4 DEF SameOrder
    <3>6. d.taker.id = eff.id /\ d.taker.side = eff.side
      BY <1>6 DEF RoundSound, SameOrder
    <3> QED  BY <2>1, <3>1, <3>2, <3>3, <3>5, <3>6 DEF tradesWith
  <2>3. result.trades \in Seq(T)
    <3>1. PICK U : U = tradesAmong(d2)
      OBVIOUS
    <3>2. result.trades \in Seq(U) /\ \A t \in U : t \in T
      BY <1>10, <2>2, <3>1 DEF MatchSound
    <3> QED  BY <3>2
  <2>4. m.trades \in Seq(T)
    BY <2>1 DEF RoundSound
  <2> QED  BY <2>1, <2>3, <2>4
<1>20. PICK over : over = (result.trades = <<>>)
  BY Zenon
<1>21. RoundSound(d, [f |-> g, taker |-> t1, trades |-> m.trades \o result.trades, done |-> over])
  BY <1>16, <1>18, <1>19 DEF RoundSound
<1>22. applyRound(m, result) \in
         {[m EXCEPT !.f = Fail(@)],
          [f |-> g, taker |-> t1, trades |-> m.trades \o result.trades, done |-> over]}
  BY <1>15, <1>17, <1>20, Zenon DEF applyRound
<1>23. RoundSound(d, applyRound(m, result))
  BY <1>14, <1>21, <1>22
<1>24. matchAgainst(m, eff, makers) \in {[m EXCEPT !.done = yes], applyRound(m, result)}
  BY <1>9, <1>12, Zenon DEF matchAgainst
<1>25. matchRound(m) \in {m, matchAgainst(m, eff, makers)}
  BY <1>1, <1>2, Zenon DEF matchRound
<1> QED  BY <1>13, <1>23, <1>24, <1>25


\* What a match leaves: the taker in a later state, with its level noted, and trades with
\* orders of the other side.
MatchLeaves(f, taker, m) ==
    /\ Saved(f, m.f)
    /\ levelKey(taker) \in m.f.touched
    /\ m.taker \in Order /\ SameOrder(taker, m.taker)
    /\ m.trades \in Seq(tradesWith(f.orders, taker))

\* The whole match loop.
LEMMA MatchKeeps ==
    ASSUME NEW f, Copy(f), NEW taker \in Order, taker.status # "none"
    PROVE  MatchLeaves(f, taker, match(f, taker))
<1>1. PICK g : g = touch(f, taker)
  OBVIOUS
<1>2. Copy(g) /\ Saved(f, g) /\ levelKey(taker) \in g.touched /\ g.orders = f.orders
  BY <1>1, TouchAdvances DEF Saved, Advances
<1>3. PICK d : d = [f |-> g, taker |-> taker]
  OBVIOUS
<1>4. d.f = g /\ d.taker = taker
  BY <1>3
<1>5. PICK start : start = [f |-> g, taker |-> taker, trades |-> <<>>, done |-> FALSE]
  OBVIOUS
<1>6. RoundSound(d, start)
  <2>1. /\ start.f = g /\ start.taker = taker /\ start.trades = <<>>
        /\ start = [f |-> start.f, taker |-> start.taker, trades |-> start.trades,
                    done |-> start.done]
    BY <1>5
  <2>2. PICK T : T = tradesWith(d.f.orders, d.taker)
    OBVIOUS
  <2>3. <<>> \in Seq(T)
    OBVIOUS
  <2> QED  BY <1>2, <1>4, <2>1, <2>2, <2>3, SavedTrans, SameOrderTrans DEF RoundSound
<1>7. PICK n \in Nat : n = MaxOrders + 1
  BY LedgerAssumption
<1>8. PICK s : s = [i \in 1..n |-> i]
  OBVIOUS
<1>9. DOMAIN s = 1..n
  BY <1>8
<1>10. \A m : \A i \in 1..n : RoundSound(d, m) => RoundSound(d, roundStep(d, m, s[i]))
  BY <1>4, RoundStep DEF roundStep
<1>11. PICK m : m = Rounds!FoldFrom(d, start, s)
  OBVIOUS
<1>12. RoundSound(d, m)
  BY <1>6, <1>9, <1>10, <1>11, Rounds!FoldKeeps
<1>13. FoldLeft(LAMBDA x, i : matchRound(x), start, s) = m
  BY <1>11 DEF Rounds!FoldFrom, Rounds!FoldLeft, Rounds!MapThenFoldSet, Rounds!Max,
     FoldLeft, MapThenFoldSet, Max, roundStep
<1>14. match(f, taker) = [m EXCEPT !.taker = finishTaker(@)]
  BY <1>1, <1>5, <1>7, <1>8, <1>13 DEF match
<1>15. PICK t1 : t1 = finishTaker(m.taker)
  OBVIOUS
<1>16. PICK r : r = match(f, taker)
  OBVIOUS
<1>17. r = [f |-> m.f, taker |-> t1, trades |-> m.trades, done |-> m.done]
  BY <1>12, <1>14, <1>15, <1>16 DEF RoundSound
<1>18. r.f = m.f /\ r.taker = t1 /\ r.trades = m.trades
  BY <1>17
<1>19. m.taker \in Order /\ SameOrder(taker, m.taker) /\ m.taker.status # "none"
  BY <1>4, <1>12 DEF RoundSound, SameOrder
<1>20. t1 \in Order /\ SameOrder(taker, t1)
  <2>1. /\ [m.taker EXCEPT !.status = "open"] \in Order
        /\ SameOrder(m.taker, [m.taker EXCEPT !.status = "open"])
        /\ [m.taker EXCEPT !.status = "expired"] \in Order
        /\ SameOrder(m.taker, [m.taker EXCEPT !.status = "expired"])
    BY <1>19, NewStatus DEF Statuses
  <2>2. t1 \in {m.taker, [m.taker EXCEPT !.status = "open"], [m.taker EXCEPT !.status = "expired"]}
    BY <1>15 DEF finishTaker, restingTaker
  <2> QED  BY <1>19, <2>1, <2>2, SameOrderTrans
<1>21. Saved(f, m.f) /\ levelKey(taker) \in m.f.touched
  <2>1. Saved(g, m.f)
    BY <1>4, <1>12 DEF RoundSound
  <2> QED  BY <1>2, <2>1, SavedTrans DEF Saved, Advances
<1>22. m.trades \in Seq(tradesWith(f.orders, taker))
  BY <1>2, <1>4, <1>12 DEF RoundSound
<1> QED  BY <1>16, <1>18, <1>20, <1>21, <1>22 DEF MatchLeaves


-----------------------------------------------------------------------------
(* Settlement.                                                             *)

Settles(f, g) == LedgerOnly(f, g) /\ Conserves(f, g)

settleStep(c, x, t) == tradeOrders(x, t, x.orders[t.maker], x.orders[t.taker])

Settlement == INSTANCE FoldLemmas WITH step <- settleStep, Good <- Settles

\* Doing nothing, and settling on and on.
LEMMA SettlesTrans ==
    /\ \A f : Copy(f) => Settles(f, f)
    /\ \A f, g, h : Settles(f, g) /\ Settles(g, h) => Settles(f, h)
<1>1. ASSUME NEW f, Copy(f) PROVE Settles(f, f)
  <2>1. \A a \in Assets : Gains(f.bal, f.bal, a, 0)
    BY GainsNothing
  <2> QED  BY <1>1, <2>1 DEF Settles, LedgerOnly, Conserves
<1>2. ASSUME NEW f, NEW g, NEW h, Settles(f, g), Settles(g, h) PROVE Settles(f, h)
  <2>1. Conserves(f, h)
    BY <1>2, ConservesTrans DEF Settles
  <2> QED  BY <1>2, <2>1 DEF Settles, LedgerOnly
<1> QED  BY <1>1, <1>2

\* Settling the trades of a match.
LEMMA SettleTradesKeep ==
    ASSUME NEW os, NEW f, Copy(f), \A o \in OrderIds : SameOrder(os[o], f.orders[o]),
           NEW taker \in Order, taker.status # "none", SameOrder(taker, f.orders[taker.id]),
           NEW trades \in Seq(tradesWith(os, taker))
    PROVE  Settles(f, SettleTrades(f, trades))
<1>1. PICK T : T = tradesWith(os, taker)
  OBVIOUS
<1>2. PICK n \in Nat : n = Len(trades)
  OBVIOUS
<1>3. DOMAIN trades = 1..n /\ \A i \in 1..n : trades[i] \in T
  <2>1. trades \in Seq(T)
    BY <1>1
  <2> QED  BY <1>2, <2>1
<1>4. ASSUME NEW x, NEW i \in 1..n, Settles(f, x)
      PROVE  Settles(f, settleStep(f, x, trades[i]))
  <2>1. PICK t \in T : t = trades[i]
    BY <1>3
  <2>2. PICK m \in OrderIds, k \in OrderIds :
          /\ m = t.maker /\ k = t.taker
          /\ m # k
          /\ k = taker.id
          /\ t.qty \in Nat /\ t.quote \in Nat
          /\ os[m].status # "none" /\ os[m].side # taker.side
    BY <1>1, <2>1 DEF tradesWith, TradeRecord
  <2>3. x.orders = f.orders /\ Copy(x)
    BY <1>4 DEF Settles, LedgerOnly
  <2>4. /\ x.orders[m].status # "none" /\ x.orders[m].side # taker.side
        /\ x.orders[k].status # "none" /\ x.orders[k].side = taker.side
    BY <2>2, <2>3 DEF SameOrder
  <2>5. x.orders[m].side \in Sides /\ x.orders[k].side \in Sides
    BY <2>3 DEF Copy, OrderBook, Order
  <2>6. PICK g : g = settleStep(f, x, t)
    OBVIOUS
  <2>7. CASE x.orders[k].side = "buy"
    <3>1. g = settleTrade(x, t, x.orders[k], x.orders[m])
      BY <2>2, <2>6, <2>7 DEF settleStep, tradeOrders
    <3>2. x.orders[m].side = "sell"
      BY <2>4, <2>5, <2>7 DEF Sides
    <3>3. LedgerOnly(x, g) /\ Conserves(x, g)
      BY <2>2, <2>3, <2>4, <2>7, <3>1, <3>2, SettleConserves
    <3> QED  BY <1>4, <2>1, <2>6, <3>3, SettlesTrans DEF Settles
  <2>8. CASE x.orders[k].side # "buy"
    <3>1. g = settleTrade(x, t, x.orders[m], x.orders[k])
      BY <2>2, <2>6, <2>8 DEF settleStep, tradeOrders
    <3>2. x.orders[m].side = "buy" /\ x.orders[k].side = "sell"
      BY <2>4, <2>5, <2>8 DEF Sides
    <3>3. LedgerOnly(x, g) /\ Conserves(x, g)
      BY <2>2, <2>3, <2>4, <3>1, <3>2, SettleConserves
    <3> QED  BY <1>4, <2>1, <2>6, <3>3, SettlesTrans DEF Settles
  <2> QED  BY <2>7, <2>8
<1>5. Settles(f, f)
  BY SettlesTrans
<1>6. Settles(f, Settlement!FoldFrom(f, f, trades))
  BY <1>3, <1>4, <1>5, Settlement!FoldKeeps
<1>7. SettleTrades(f, trades) = Settlement!FoldFrom(f, f, trades)
  BY DEF SettleTrades, Settlement!FoldFrom, Settlement!FoldLeft, Settlement!MapThenFoldSet,
     Settlement!Max, FoldLeft, MapThenFoldSet, Max, settleStep
<1> QED  BY <1>6, <1>7

-----------------------------------------------------------------------------
(* From a match to the end of its transaction.                             *)

\* Orders advance, levels are noted, funds are conserved.
Moves(f, g) == Advances(f, g) /\ Conserves(f, g)

\* Doing nothing, and moving on and on.
LEMMA MovesTrans ==
    /\ \A f : Copy(f) => Moves(f, f)
    /\ \A f, g, h : Moves(f, g) /\ Moves(g, h) => Moves(f, h)
<1>1. ASSUME NEW f, Copy(f) PROVE Moves(f, f)
  BY <1>1, SettlesTrans, AdvancesTrans DEF Moves, Settles
<1>2. ASSUME NEW f, NEW g, NEW h, Moves(f, g), Moves(g, h) PROVE Moves(f, h)
  <2>1. Conserves(f, h)
    BY <1>2, ConservesTrans DEF Moves
  <2>2. Advances(f, h)
    BY <1>2, AdvancesTrans DEF Moves
  <2> QED  BY <2>1, <2>2 DEF Moves
<1> QED  BY <1>1, <1>2

\* The two kinds of moves so far.
LEMMA MovesOf ==
    ASSUME NEW f, Copy(f)
    PROVE  /\ \A g : Saved(f, g) => Moves(f, g)
           /\ \A g : Settles(f, g) => Moves(f, g)
<1>1. ASSUME NEW g, Saved(f, g) PROVE Moves(f, g)
  BY <1>1, BookConserves DEF Saved, Moves
<1>2. ASSUME NEW g, Settles(f, g) PROVE Moves(f, g)
  BY <1>2, LedgerAdvances DEF Settles, Moves
<1> QED  BY <1>1, <1>2

\* The result of a match is saved and its trades are settled.
LEMMA SettleMatchMoves ==
    ASSUME NEW f, Copy(f), NEW taker \in Order, taker.status # "none",
           SameOrder(f.orders[taker.id], taker),
           NEW m, MatchLeaves(f, taker, m)
    PROVE  /\ Moves(f, settleMatch(m))
           /\ settleMatch(m).orders[taker.id] = m.taker
           /\ levelKey(taker) \in settleMatch(m).touched
<1>1. PICK x : x = m.f
  OBVIOUS
<1>2. PICK o \in Order : o = m.taker
  BY DEF MatchLeaves
<1>3. PICK id \in OrderIds : id = taker.id
  BY DEF Order
<1>4. Copy(x) /\ SameOrder(taker, o) /\ o.status # "none" /\ o.id = id
      /\ levelKey(o) = levelKey(taker)
  BY <1>1, <1>2, <1>3 DEF MatchLeaves, Saved, Advances, SameOrder, levelKey
<1>5. SameOrder(x.orders[o.id], o)
  <2>1. SameOrder(f.orders[id], x.orders[id])
    BY <1>1 DEF MatchLeaves, Saved, Advances
  <2>2. SameOrder(f.orders[id], taker)
    BY <1>3
  <2> QED  BY <1>4, <2>1, <2>2, SameOrderTrans
<1>6. levelKey(o) \in x.touched
  BY <1>1, <1>4 DEF MatchLeaves
<1>7. PICK y : y = SaveOrder(x, o)
  OBVIOUS
<1>8. Saved(x, y)
  BY <1>4, <1>5, <1>6, <1>7, SaveAdvances DEF Saved
<1>9. Saved(f, x)
  BY <1>1 DEF MatchLeaves
<1>10. y.orders[id] = o
  <2>1. y.orders = [x.orders EXCEPT ![id] = o]
    BY <1>4, <1>7 DEF SaveOrder, Copy
  <2> QED  BY <1>4, <2>1 DEF Copy, OrderBook
<1>11. Saved(f, y) /\ Copy(y)
  BY <1>8, <1>9, SavedTrans DEF Saved, Advances
<1>12. PICK z : z = SettleTrades(y, m.trades)
  OBVIOUS
<1>13. Settles(y, z)
  <2>1. \A p \in OrderIds : SameOrder(f.orders[p], y.orders[p])
    BY <1>11 DEF Saved, Advances
  <2>2. SameOrder(taker, y.orders[taker.id])
    BY <1>3, <1>4, <1>10
  <2>3. m.trades \in Seq(tradesWith(f.orders, taker))
    BY DEF MatchLeaves
  <2> QED  BY <1>11, <1>12, <2>1, <2>2, <2>3, SettleTradesKeep
<1>14. Moves(f, y) /\ Moves(y, z)
  BY <1>11, <1>13, MovesOf
<1>15. Moves(f, z)
  BY <1>14, MovesTrans
<1>16. z.orders[id] = m.taker /\ z.touched = y.touched
  BY <1>2, <1>10, <1>13 DEF Settles, LedgerOnly
<1>17. levelKey(taker) \in y.touched
  BY <1>4, <1>6, <1>8 DEF Saved, Advances
<1>18. settleMatch(m) = z
  BY <1>1, <1>2, <1>7, <1>12 DEF settleMatch
<1> QED  BY <1>3, <1>15, <1>16, <1>17, <1>18


\* The price of the last trade is all that recording the trades changes.
LEMMA CreateTradesSaves ==
    ASSUME NEW f, Copy(f), NEW trades
    PROVE  Saved(f, CreateTrades(f, trades))
<1>1. PICK p : p = Last(trades).price
  OBVIOUS
<1>2. PICK g : g = [f EXCEPT !.last = p]
  OBVIOUS
<1>3. g = [ok |-> f.ok, bal |-> f.bal, res |-> f.res, orders |-> f.orders,
           last |-> p, levels |-> f.levels, touched |-> f.touched]
  BY <1>2 DEF Copy
<1>4. /\ g.ok = f.ok /\ g.bal = f.bal /\ g.res = f.res /\ g.orders = f.orders
      /\ g.last = p /\ g.levels = f.levels /\ g.touched = f.touched
  BY <1>3
<1>5. Copy(g)
  BY <1>3, <1>4 DEF Copy
<1>6. Saved(f, g)
  BY <1>4, <1>5, SameOrderTrans DEF Saved, BookOnly, Advances
<1>7. CreateTrades(f, trades) \in {f, g}
  BY <1>1, <1>2 DEF CreateTrades
<1> QED  BY <1>6, <1>7, SavedTrans

\* What follows the match of a new order, before the stops.
LEMMA NewOrderMoves ==
    ASSUME NEW f, Copy(f), NEW taker \in Order, taker.status # "none",
           SameOrder(f.orders[taker.id], taker),
           NEW m, MatchLeaves(f, taker, m),
           NEW g, g = CreateTrades(releaseUnfilled(settleMatch(m), m.taker), m.trades)
    PROVE  Moves(f, g) /\ levelKey(taker) \in g.touched
<1>1. PICK x : x = settleMatch(m)
  OBVIOUS
<1>2. /\ Moves(f, x)
      /\ x.orders[taker.id] = m.taker
      /\ levelKey(taker) \in x.touched
  BY <1>1, SettleMatchMoves
<1>3. Copy(x)
  BY <1>2 DEF Moves, Advances
<1>4. PICK o \in Order : o = m.taker
  BY DEF MatchLeaves
<1>5. o.id = taker.id /\ o.status # "none"
  BY <1>4 DEF MatchLeaves, SameOrder
<1>6. PICK y : y = releaseUnfilled(x, o)
  OBVIOUS
<1>7. Settles(x, y)
  <2>1. SameOrder(x.orders[o.id], o)
    BY <1>2, <1>4, <1>5, SameOrderTrans
  <2>2. Settles(x, ReleaseOrderFunds(x, o))
    BY <1>3, <1>5, <2>1, ReleaseConserves DEF Settles
  <2>3. y \in {x, ReleaseOrderFunds(x, o)}
    BY <1>6 DEF releaseUnfilled
  <2> QED  BY <1>3, <2>2, <2>3, SettlesTrans
<1>8. Copy(y) /\ y.touched = x.touched
  BY <1>7 DEF Settles, LedgerOnly
<1>9. Saved(y, CreateTrades(y, m.trades))
  BY <1>8, CreateTradesSaves
<1>10. g = CreateTrades(y, m.trades)
  BY <1>1, <1>4, <1>6
<1>11. Moves(f, g)
  BY <1>2, <1>3, <1>7, <1>8, <1>9, <1>10, MovesOf, MovesTrans
<1>12. levelKey(taker) \in g.touched
  BY <1>2, <1>8, <1>9, <1>10 DEF Saved, Advances
<1> QED  BY <1>11, <1>12

-----------------------------------------------------------------------------
(* Stop orders.                                                            *)

\* One pending stop.
LEMMA ActivateStopMoves ==
    ASSUME NEW f, Copy(f), NEW o \in OrderIds, f.orders[o].status # "none", NEW price
    PROVE  Moves(f, activateStop(f, o, price))
<1>1. PICK taker : taker = [f.orders[o] EXCEPT !.status = "open"]
  OBVIOUS
<1>2. f.orders[o] \in Order /\ f.orders[o].id = o
  BY DEF Copy, OrderBook
<1>3. taker \in Order /\ SameOrder(f.orders[o], taker) /\ taker.status # "none"
  BY <1>1, <1>2, NewStatus DEF Statuses
<1>4. taker.id = o
  BY <1>2, <1>3 DEF SameOrder
<1>5. PICK m : m = match(f, taker)
  OBVIOUS
<1>6. MatchLeaves(f, taker, m)
  BY <1>3, <1>5, MatchKeeps
<1>7. PICK x : x = settleMatch(m)
  OBVIOUS
<1>8. Moves(f, x)
  BY <1>3, <1>4, <1>6, <1>7, SettleMatchMoves
<1>9. Copy(x)
  BY <1>8 DEF Moves, Advances
<1>10. Moves(f, CreateTrades(x, m.trades))
  BY <1>8, <1>9, CreateTradesSaves, MovesOf, MovesTrans
<1>11. Moves(f, f) /\ Moves(f, Fail(f))
  BY FailSaves, MovesOf, MovesTrans
<1>12. recordStop(m) = CreateTrades(x, m.trades)
  BY <1>7 DEF recordStop
<1>13. activateStop(f, o, price) \in {f, Fail(f), recordStop(m)}
  BY <1>1, <1>5 DEF activateStop
<1> QED  BY <1>10, <1>11, <1>12, <1>13

stopStep(price, x, o) == activateStop(x, o, price)

Stops == INSTANCE FoldLemmas WITH step <- stopStep, Good <- Moves

\* All pending stops.
LEMMA StopsMove ==
    ASSUME NEW f, Copy(f), NEW price
    PROVE  Moves(f, activateTriggeredStops(f, price))
<1>1. PICK ids : ids = {o \in OrderIds : f.orders[o].status = "pending_stop"}
  OBVIOUS
<1>2. ids \in SUBSET OrderIds /\ \A o \in ids : f.orders[o].status # "none"
  BY <1>1
<1>3. PICK s : s = inSequence(ids)
  OBVIOUS
<1>4. PICK n \in Nat : DOMAIN s = 1..n /\ \A i \in 1..n : s[i] \in ids
  BY <1>2, <1>3, InSequence
<1>5. Moves(f, f)
  BY MovesTrans
<1>6. ASSUME NEW x, NEW i \in 1..n, Moves(f, x) PROVE Moves(f, stopStep(price, x, s[i]))
  <2>1. PICK o \in OrderIds : o = s[i] /\ f.orders[o].status # "none"
    BY <1>2, <1>4
  <2>2. Copy(x) /\ x.orders[o].status # "none"
    BY <1>6, <2>1 DEF Moves, Advances, SameOrder
  <2>3. Moves(x, activateStop(x, o, price))
    BY <2>2, ActivateStopMoves
  <2> QED  BY <1>6, <2>1, <2>3, MovesTrans DEF stopStep
<1>7. Moves(f, Stops!FoldFrom(price, f, s))
  BY <1>4, <1>5, <1>6, Stops!FoldKeeps
<1>8. FoldLeft(LAMBDA x, o : activateStop(x, o, price), f, s) = Stops!FoldFrom(price, f, s)
  BY DEF Stops!FoldFrom, Stops!FoldLeft, Stops!MapThenFoldSet, Stops!Max,
     FoldLeft, MapThenFoldSet, Max, stopStep
<1>9. ListPendingStops(f.orders) = s
  BY <1>1, <1>3 DEF ListPendingStops
<1> QED  BY <1>5, <1>7, <1>8, <1>9 DEF activateTriggeredStops


-----------------------------------------------------------------------------
(* The price levels.                                                       *)

\* The orders at a price level.
levelIds(os, k) == {o \in activeOrders(os) : os[o].side = k[1] /\ os[o].price = k[2]}

\* A level is what it was when every order that has changed is not at that level,
\* neither before nor after.
LEMMA SameLevel ==
    ASSUME NEW os, NEW ps, NEW k,
           \A o \in OrderIds : \/ ps[o] = os[o]
                               \/ o \notin levelIds(os, k) /\ o \notin levelIds(ps, k)
    PROVE  levelOf(ps, k) = levelOf(os, k)
<1>1. PICK at : at = levelIds(os, k)
  OBVIOUS
<1>2. at = levelIds(ps, k)
  BY <1>1 DEF levelIds, activeOrders
<1>3. \A o \in at : ps[o] = os[o]
  BY <1>1, <1>2 DEF levelIds, activeOrders
<1>4. PICK q : q = [o \in at |-> os[o].remaining]
  OBVIOUS
<1>5. [o \in at |-> ps[o].remaining] = q
  BY <1>3, <1>4
<1>6. levelSum(os, at) = levelSum(ps, at)
  BY <1>4, <1>5 DEF levelSum
<1> QED  BY <1>1, <1>2, <1>6 DEF levelOf, levelIds

\* A level that was not noted is as it was.
LEMMA LevelsKept ==
    ASSUME NEW f, NEW g, Advances(f, g), NEW k \in LevelKeys, k \notin g.touched
    PROVE  levelOf(g.orders, k) = levelOf(f.orders, k)
<1>1. ASSUME NEW o \in OrderIds, g.orders[o] # f.orders[o]
      PROVE  o \notin levelIds(f.orders, k) /\ o \notin levelIds(g.orders, k)
  <2>1. levelKey(g.orders[o]) \in g.touched
    BY <1>1 DEF Advances
  <2>2. levelKey(f.orders[o]) = levelKey(g.orders[o])
    BY DEF Advances, SameOrder, levelKey
  <2>3. k = <<k[1], k[2]>>
    BY DEF LevelKeys
  <2> QED  BY <2>1, <2>2, <2>3 DEF levelIds, levelKey
<1>2. PICK os, ps : os = f.orders /\ ps = g.orders
  OBVIOUS
<1>3. \A o \in OrderIds : \/ ps[o] = os[o]
                          \/ o \notin levelIds(os, k) /\ o \notin levelIds(ps, k)
  BY <1>1, <1>2
<1> QED  BY <1>2, <1>3, SameLevel

\* A transaction from the working copy f to its commit g; the levels noted include K.
Transaction(f, g, K) ==
    \E h : Moves(f, h) /\ K \subseteq h.touched /\ g = refreshBookProjection(h)

LevelsAre(f, k) == f.levels[k] = levelOf(f.orders, k)

\* What comes of a transaction: the orders are states of the orders before it, every
\* level is right that was right or has been noted, and the funds are conserved.
LEMMA TransactionOutcome ==
    ASSUME NEW f, NEW g, NEW K, Transaction(f, g, K)
    PROVE  /\ OrderBook(g.orders)
           /\ \A o \in OrderIds : SameOrder(f.orders[o], g.orders[o])
           /\ (\A k \in LevelKeys \ K : LevelsAre(f, k)) =>
                 \A k \in LevelKeys : LevelsAre(g, k)
           /\ Conserves(f, g)
<1>1. PICK h : Moves(f, h) /\ K \subseteq h.touched /\ g = refreshBookProjection(h)
  BY DEF Transaction
<1>2. Copy(h)
  BY <1>1 DEF Moves, Advances
<1>3. PICK ls : ls = [k \in LevelKeys |->
                         IF k \in h.touched \/ levelOf(h.orders, k).count = 0
                         THEN levelOf(h.orders, k) ELSE h.levels[k]]
  OBVIOUS
<1>4. g = [ok |-> h.ok, bal |-> h.bal, res |-> h.res, orders |-> h.orders,
           last |-> h.last, levels |-> ls, touched |-> h.touched]
  BY <1>1, <1>2, <1>3 DEF refreshBookProjection, Copy
<1>5. /\ g.ok = h.ok /\ g.bal = h.bal /\ g.res = h.res /\ g.orders = h.orders
      /\ g.levels = ls
  BY <1>4
<1>6. OrderBook(g.orders) /\ \A o \in OrderIds : SameOrder(f.orders[o], g.orders[o])
  BY <1>1, <1>2, <1>5 DEF Moves, Advances, Copy
<1>7. ASSUME \A k \in LevelKeys \ K : LevelsAre(f, k), NEW k \in LevelKeys
      PROVE  LevelsAre(g, k)
  <2>1. CASE k \in h.touched \/ levelOf(h.orders, k).count = 0
    <3>1. ls[k] = levelOf(h.orders, k)
      BY <1>3, <2>1
    <3> QED  BY <1>5, <3>1 DEF LevelsAre
  <2>2. CASE ~(k \in h.touched \/ levelOf(h.orders, k).count = 0)
    <3>1. ls[k] = h.levels[k] /\ h.levels = f.levels
      BY <1>1, <1>3, <2>2 DEF Moves, Advances
    <3>2. levelOf(h.orders, k) = levelOf(f.orders, k)
      BY <1>1, <2>2, LevelsKept DEF Moves
    <3>3. f.levels[k] = levelOf(f.orders, k)
      BY <1>1, <1>7, <2>2 DEF LevelsAre
    <3> QED  BY <1>5, <3>1, <3>2, <3>3 DEF LevelsAre
  <2> QED  BY <2>1, <2>2
<1>8. Conserves(f, g)
  <2>1. Conserves(f, h)
    BY <1>1 DEF Moves
  <2>2. FundsSound(h) <=> FundsSound(g)
    BY <1>5 DEF FundsSound, RowsBalanced, OrdersReserved
  <2> QED  BY <1>5, <2>1, <2>2 DEF Conserves
<1> QED  BY <1>6, <1>7, <1>8

-----------------------------------------------------------------------------
(* The transactions.                                                       *)

\* matchAndSettle, for a new order and for a match job.
LEMMA MatchTransaction ==
    ASSUME NEW f, Copy(f), NEW taker \in Order, taker.status # "none",
           SameOrder(f.orders[taker.id], taker)
    PROVE  Transaction(f, matchAndSettle(f, taker), {levelKey(taker)})
<1>1. PICK m : m = match(f, taker)
  OBVIOUS
<1>2. MatchLeaves(f, taker, m)
  BY <1>1, MatchKeeps
<1>3. PICK g : g = CreateTrades(releaseUnfilled(settleMatch(m), m.taker), m.trades)
  OBVIOUS
<1>4. Moves(f, g) /\ levelKey(taker) \in g.touched
  BY <1>2, <1>3, NewOrderMoves
<1>5. PICK p : p = lastTradePrice(m.trades)
  OBVIOUS
<1>6. PICK h : h = activateTriggeredStops(g, p)
  OBVIOUS
<1>7. Moves(g, h)
  BY <1>4, <1>6, StopsMove DEF Moves, Advances
<1>8. Moves(f, h) /\ {levelKey(taker)} \subseteq h.touched
  BY <1>4, <1>7, MovesTrans DEF Moves, Advances
<1>9. matchAndSettle(f, taker) = refreshBookProjection(h)
  BY <1>1, <1>3, <1>5, <1>6 DEF matchAndSettle, recordMatch
<1> QED  BY <1>8, <1>9 DEF Transaction

\* The stop trigger.
LEMMA StopsTransaction ==
    ASSUME NEW f, Copy(f), NEW price
    PROVE  Transaction(f, refreshBookProjection(activateTriggeredStops(f, price)), {})
BY StopsMove DEF Transaction

\* Cancel.
LEMMA CancelTransaction ==
    ASSUME NEW f, Copy(f), NEW o \in OrderIds, f.orders[o].status # "none",
           NEW canceled, canceled = [f.orders[o] EXCEPT !.status = "canceled", !.remaining = 0],
           NEW saved, saved = SaveOrder(touch(f, canceled), canceled)
    PROVE  Transaction(f, refreshBookProjection(ReleaseOrderFunds(saved, f.orders[o])), {})
<1>1. PICK old \in Order : old = f.orders[o] /\ old.id = o /\ old.status # "none"
  BY DEF Copy, OrderBook
<1>2. canceled \in Order /\ SameOrder(old, canceled)
  BY <1>1 DEF Order, Statuses, SameOrder
<1>3. PICK x : x = touch(f, canceled)
  OBVIOUS
<1>4. Saved(f, x) /\ Copy(x) /\ levelKey(canceled) \in x.touched /\ x.orders = f.orders
  BY <1>3, TouchAdvances DEF Saved, Advances
<1>5. SameOrder(x.orders[canceled.id], canceled)
  BY <1>1, <1>2, <1>4 DEF SameOrder
<1>6. Saved(x, saved)
  BY <1>2, <1>3, <1>4, <1>5, SaveAdvances DEF Saved
<1>7. Saved(f, saved) /\ Copy(saved)
  BY <1>4, <1>6, SavedTrans DEF Saved, Advances
<1>8. SameOrder(saved.orders[old.id], old)
  <2>1. SameOrder(f.orders[o], saved.orders[o])
    BY <1>7 DEF Saved, Advances
  <2> QED  BY <1>1, <2>1, SameOrderTrans
<1>9. PICK g : g = ReleaseOrderFunds(saved, old)
  OBVIOUS
<1>10. Settles(saved, g)
  BY <1>1, <1>7, <1>8, <1>9, ReleaseConserves DEF Settles
<1>11. Moves(f, g)
  BY <1>7, <1>10, MovesOf, MovesTrans
<1> QED  BY <1>1, <1>9, <1>11 DEF Transaction


\* What SaveOrder writes.
LEMMA SaveWrites ==
    ASSUME NEW f, Copy(f), NEW o \in Order,
           NEW g, g = SaveOrder(f, o)
    PROVE  /\ Copy(g)
           /\ g.orders[o.id] = o
           /\ \A x \in OrderIds \ {o.id} : g.orders[x] = f.orders[x]
           /\ g.ok = f.ok /\ g.bal = f.bal /\ g.res = f.res
           /\ g.levels = f.levels /\ g.touched = f.touched
<1>1. PICK id \in OrderIds : id = o.id
  BY DEF Order
<1>2. PICK os : os = [f.orders EXCEPT ![id] = o]
  OBVIOUS
<1>3. OrderBook(os) /\ os[id] = o /\ \A x \in OrderIds \ {id} : os[x] = f.orders[x]
  BY <1>1, <1>2 DEF Copy, OrderBook
<1>4. g = [ok |-> f.ok, bal |-> f.bal, res |-> f.res, orders |-> os,
           last |-> f.last, levels |-> f.levels, touched |-> f.touched]
  BY <1>1, <1>2 DEF SaveOrder, Copy
<1>5. /\ g.ok = f.ok /\ g.bal = f.bal /\ g.res = f.res /\ g.orders = os
      /\ g.last = f.last /\ g.levels = f.levels /\ g.touched = f.touched
  BY <1>4
<1>6. Copy(g)
  BY <1>3, <1>4, <1>5 DEF Copy
<1> QED  BY <1>1, <1>3, <1>5, <1>6

\* new is an order that can be placed in f: its sequence id is free, and it costs
\* something.
Placeable(f, new) ==
    /\ new \in Order
    /\ new.status \in {"open", "pending_stop"}
    /\ f.orders[new.id].status = "none"
    /\ orderReserveAmount(new) > 0

\* A new order is inserted and its funds are reserved.
LEMMA ReserveNew ==
    ASSUME NEW f, Copy(f), NEW new, Placeable(f, new),
           NEW g, g = ReserveOrderFunds(SaveOrder(f, new), new)
    PROVE  /\ Copy(g)
           /\ g.orders[new.id] = new
           /\ \A x \in OrderIds \ {new.id} : g.orders[x] = f.orders[x]
           /\ g.levels = f.levels /\ g.touched = f.touched
           /\ Conserves(f, g)
<1>1. PICK h : h = SaveOrder(f, new)
  OBVIOUS
<1>2. PICK id \in OrderIds : id = new.id
  BY DEF Placeable, Order
<1>3. /\ Copy(h)
      /\ h.orders[id] = new
      /\ \A x \in OrderIds \ {id} : h.orders[x] = f.orders[x]
      /\ h.ok = f.ok /\ h.bal = f.bal /\ h.res = f.res
      /\ h.levels = f.levels /\ h.touched = f.touched
  BY <1>1, <1>2, SaveWrites DEF Placeable
<1>4. PICK l : l = ledgerOf(h)
  OBVIOUS
<1>5. IsLedger(l) /\ With(h, l) = h
  BY <1>3, <1>4, WithLedger
<1>6. PICK m : m = ReserveOrderFunds(l, new)
  OBVIOUS
<1>7. g = With(h, m) /\ IsLedger(m)
  BY <1>1, <1>5, <1>6, ReserveWith
<1>8. /\ LedgerOnly(h, g) /\ ledgerOf(g) = m
      /\ g.ok = m.ok /\ g.bal = m.bal /\ g.res = m.res
  BY <1>3, <1>7, WithOther
<1>9. l.ok = f.ok /\ l.bal = f.bal /\ l.res = f.res
  BY <1>3, <1>4 DEF ledgerOf
<1>10. ASSUME m.ok, FundsSound(f)
       PROVE  f.ok /\ FundsSound(g) /\ \A a \in Assets : Gains(f.bal, g.bal, a, 0)
  <2>1. l \in Funds /\ RowsBalanced(l) /\ LockedCovered(l.bal, l.res)
    BY <1>5, <1>9, <1>10 DEF FundsSound, IsLedger, Funds, RowsBalanced
  <2>2. IsOrder(new)
    BY OrderInBook DEF Placeable
  <2>3. /\ m \in Funds
        /\ l.res[id].remaining = 0
        /\ OrderEffect(l, m, id, reserveAccount(new))
        /\ RowsBalanced(m)
    BY <1>2, <1>6, <1>10, <2>1, <2>2, ReserveEffect DEF Placeable
  <2>4. Effect(l, m, Nothing)
    BY <1>6, <1>10, <2>1, <2>2, ReserveOrderEffect
  <2>5. PICK k \in AccountKeys : k = reserveAccount(new)
    BY <2>2, ReserveType
  <2>6. LockedCovered(m.bal, m.res)
    BY <2>1, <2>3, <2>5, OrderEffectCovers
  <2>7. f.ok /\ \A a \in Assets : Gains(f.bal, g.bal, a, 0)
    <3>1. l.ok /\ \A a \in Assets : Gains(l.bal, m.bal, a, Nothing[a])
      BY <1>10, <2>4 DEF Effect
    <3>2. \A a \in Assets : Nothing[a] = 0
      BY DEF Nothing
    <3> QED  BY <1>8, <1>9, <3>1, <3>2
  <2>8. OrdersReserved(g)
    <3> SUFFICES ASSUME NEW o \in OrderIds, g.orders[o].status # "none"
                 PROVE  g.res[o].status # "none" /\ g.res[o].account = reserveAccount(g.orders[o])
      BY DEF OrdersReserved
    <3>1. CASE o = id
      BY <1>3, <1>8, <2>3, <3>1 DEF LedgerOnly, OrderEffect
    <3>2. CASE o # id
      <4>1. g.orders[o] = f.orders[o] /\ g.res[o] = f.res[o]
        BY <1>3, <1>8, <1>9, <2>3, <3>2 DEF LedgerOnly, OrderEffect
      <4> QED  BY <1>10, <4>1 DEF FundsSound, OrdersReserved
    <3> QED  BY <3>1, <3>2
  <2>9. FundsSound(g)
    BY <1>8, <2>3, <2>6, <2>8 DEF FundsSound, Funds, RowsBalanced
  <2> QED  BY <2>7, <2>9
<1>11. Conserves(f, g)
  <2>1. g.ok => f.ok
    <3>1. m.ok => l.ok
      BY <1>5, <1>6 DEF ReserveOrderFunds
    <3> QED  BY <1>8, <1>9, <3>1
  <2> QED  BY <1>8, <1>10, <2>1 DEF Conserves
<1> QED  BY <1>2, <1>3, <1>8, <1>11 DEF LedgerOnly

\* What a placement does.
PlaceOutcome(f, g, new) ==
    /\ OrderBook(g.orders)
    /\ SameOrder(new, g.orders[new.id])
    /\ \A o \in OrderIds \ {new.id} : SameOrder(f.orders[o], g.orders[o])
    /\ (\A k \in LevelKeys : LevelsAre(f, k)) => \A k \in LevelKeys : LevelsAre(g, k)
    /\ Conserves(f, g)

\* The whole of placeOrder, in either mode.
LEMMA PlaceKeeps ==
    ASSUME NEW f, Copy(f), NEW new, Placeable(f, new),
           NEW g, g = enterBook(ReserveOrderFunds(SaveOrder(f, new), new), new), g.ok
    PROVE  PlaceOutcome(f, g, new)
<1>1. PICK h : h = ReserveOrderFunds(SaveOrder(f, new), new)
  OBVIOUS
<1>2. /\ Copy(h)
      /\ h.orders[new.id] = new
      /\ \A x \in OrderIds \ {new.id} : h.orders[x] = f.orders[x]
      /\ h.levels = f.levels /\ h.touched = f.touched
      /\ Conserves(f, h)
  BY <1>1, ReserveNew
<1>3. PICK id \in OrderIds : id = new.id
  BY DEF Placeable, Order
<1>4. \A k \in LevelKeys : id \notin levelIds(f.orders, k)
  BY <1>3 DEF Placeable, levelIds, activeOrders, isBookableOrder, OpenStatuses
<1>5. ASSUME NEW x, Copy(x), \A o \in OrderIds \ {id} : x.orders[o] = f.orders[o],
             NEW k \in LevelKeys, id \notin levelIds(x.orders, k)
      PROVE  levelOf(x.orders, k) = levelOf(f.orders, k)
  <2>1. PICK os, ps : os = f.orders /\ ps = x.orders
    OBVIOUS
  <2>2. \A o \in OrderIds : \/ ps[o] = os[o]
                            \/ o \notin levelIds(os, k) /\ o \notin levelIds(ps, k)
    BY <1>4, <1>5, <2>1
  <2> QED  BY <2>1, <2>2, SameLevel
<1>6. \A o \in OrderIds \ {id} : SameOrder(f.orders[o], h.orders[o])
  BY <1>2, <1>3, SameOrderTrans
<1>7. CASE ~h.ok \/ new.status = "pending_stop"
  <2>1. g = h /\ h.ok
    BY <1>1, <1>7 DEF enterBook
  <2>2. new.status = "pending_stop"
    BY <1>7, <2>1
  <2>3. \A k \in LevelKeys : id \notin levelIds(h.orders, k)
    BY <1>2, <1>3, <2>2 DEF levelIds, activeOrders, isBookableOrder, OpenStatuses
  <2>4. \A k \in LevelKeys : levelOf(h.orders, k) = levelOf(f.orders, k)
    BY <1>2, <1>3, <1>5, <2>3
  <2>5. (\A k \in LevelKeys : LevelsAre(f, k)) => \A k \in LevelKeys : LevelsAre(h, k)
    BY <1>2, <2>4 DEF LevelsAre
  <2>6. SameOrder(new, h.orders[new.id])
    BY <1>2, SameOrderTrans
  <2> QED  BY <1>2, <1>3, <1>6, <2>1, <2>5, <2>6 DEF PlaceOutcome, Copy
<1>8. CASE ~(~h.ok \/ new.status = "pending_stop") /\ Mode = "async"
  <2>1. PICK o : o = [new EXCEPT !.status = "pending_match"]
    OBVIOUS
  <2>2. o \in Order /\ SameOrder(new, o) /\ o.status = "pending_match" /\ o.id = id
    <3>1. new \in Order /\ new.status # "none"
      BY DEF Placeable
    <3>2. o \in Order /\ SameOrder(new, o)
      BY <2>1, <3>1, NewStatus DEF Statuses
    <3>3. o.status = "pending_match"
      BY <2>1, <3>1 DEF Order
    <3> QED  BY <1>3, <3>2, <3>3 DEF SameOrder
  <2>3. g = SaveOrder(h, o)
    BY <1>1, <1>8, <2>1 DEF enterBook
  <2>4. /\ Copy(g)
        /\ g.orders[id] = o
        /\ \A x \in OrderIds \ {id} : g.orders[x] = h.orders[x]
        /\ g.ok = h.ok /\ g.bal = h.bal /\ g.res = h.res
        /\ g.levels = h.levels /\ g.touched = h.touched
    <3>1. Copy(h) /\ o \in Order
      BY <1>2, <2>2
    <3>2. PICK e : e = SaveOrder(h, o)
      OBVIOUS
    <3>3. /\ Copy(e)
          /\ e.orders[o.id] = o
          /\ \A x \in OrderIds \ {o.id} : e.orders[x] = h.orders[x]
          /\ e.ok = h.ok /\ e.bal = h.bal /\ e.res = h.res
          /\ e.levels = h.levels /\ e.touched = h.touched
      BY <3>1, <3>2, SaveWrites
    <3> QED  BY <2>2, <2>3, <3>2, <3>3
  <2>5. \A k \in LevelKeys : id \notin levelIds(g.orders, k)
    BY <2>2, <2>4 DEF levelIds, activeOrders, isBookableOrder, OpenStatuses
  <2>6. \A x \in OrderIds \ {id} : g.orders[x] = f.orders[x]
    BY <1>2, <1>3, <2>4
  <2>7. \A k \in LevelKeys : levelOf(g.orders, k) = levelOf(f.orders, k)
    BY <1>5, <2>4, <2>5, <2>6
  <2>8. (\A k \in LevelKeys : LevelsAre(f, k)) => \A k \in LevelKeys : LevelsAre(g, k)
    BY <1>2, <2>4, <2>7 DEF LevelsAre
  <2>9. FundsSound(h) => FundsSound(g)
    <3>1. ASSUME NEW x \in OrderIds
          PROVE  /\ g.orders[x].status = "none" <=> h.orders[x].status = "none"
                 /\ reserveAccount(g.orders[x]) = reserveAccount(h.orders[x])
      <4>1. SameOrder(h.orders[x], g.orders[x])
        BY <1>2, <1>3, <2>2, <2>4, SameOrderTrans
      <4> QED  BY <4>1 DEF SameOrder, reserveAccount
    <3> QED  BY <2>4, <3>1 DEF FundsSound, RowsBalanced, OrdersReserved
  <2>10. Conserves(f, g)
    BY <1>2, <2>4, <2>9 DEF Conserves
  <2>11. \A x \in OrderIds \ {id} : SameOrder(f.orders[x], g.orders[x])
    BY <2>6, SameOrderTrans
  <2> QED  BY <1>3, <2>2, <2>4, <2>8, <2>10, <2>11 DEF PlaceOutcome, Copy
<1>9. CASE ~(~h.ok \/ new.status = "pending_stop") /\ Mode # "async"
  <2>1. g = matchAndSettle(h, new)
    BY <1>1, <1>9 DEF enterBook
  <2>2. new \in Order /\ new.status # "none"
    BY DEF Placeable
  <2>3. SameOrder(h.orders[new.id], new)
    BY <1>2, SameOrderTrans
  <2>4. PICK K : K = {levelKey(new)}
    OBVIOUS
  <2>5. Transaction(h, g, K)
    BY <1>2, <2>1, <2>2, <2>3, <2>4, MatchTransaction
  <2>6. ASSUME \A k \in LevelKeys : LevelsAre(f, k), NEW k \in LevelKeys \ K
        PROVE  LevelsAre(h, k)
    <3>1. id \notin levelIds(h.orders, k)
      <4>1. k = <<k[1], k[2]>>
        BY DEF LevelKeys
      <4> QED  BY <1>2, <1>3, <2>4, <4>1 DEF levelIds, levelKey
    <3>2. levelOf(h.orders, k) = levelOf(f.orders, k)
      BY <1>2, <1>3, <1>5, <3>1
    <3> QED  BY <1>2, <2>6, <3>2 DEF LevelsAre
  <2>7. /\ OrderBook(g.orders)
        /\ \A o \in OrderIds : SameOrder(h.orders[o], g.orders[o])
        /\ (\A k \in LevelKeys \ K : LevelsAre(h, k)) => \A k \in LevelKeys : LevelsAre(g, k)
        /\ Conserves(h, g)
    BY <2>5, TransactionOutcome
  <2>8. (\A k \in LevelKeys : LevelsAre(f, k)) => \A k \in LevelKeys : LevelsAre(g, k)
    BY <2>6, <2>7
  <2>9. Conserves(f, g)
    BY <1>2, <2>7, ConservesTrans
  <2>10. SameOrder(new, g.orders[new.id])
    BY <1>2, <1>3, <2>7
  <2>11. \A o \in OrderIds \ {new.id} : SameOrder(f.orders[o], g.orders[o])
    BY <1>3, <1>6, <2>7, SameOrderTrans
  <2> QED  BY <2>7, <2>8, <2>9, <2>10, <2>11 DEF PlaceOutcome
<1> QED  BY <1>7, <1>8, <1>9


-----------------------------------------------------------------------------
(* The inductive invariant.                                                *)

TypesInv ==
    /\ OrderBook(orders)
    /\ DOMAIN cmds = CommandIds
    /\ pc \in [Requests -> {"idle", "absent", "locked"}]

\* The placed orders are the first ones.
SequenceInv ==
    \E n \in 0..MaxOrders : \A o \in OrderIds : orders[o].status # "none" <=> o <= n

\* At most one placement holds the command sequence row, and what it has found out
\* about the unique keys still holds.
LockInv ==
    /\ \A q, r \in Requests : pc[q] = "locked" /\ pc[r] = "locked" => q = r
    /\ \A r \in Requests : pc[r] = "locked" => uniqueKeysFree(r)

KeysInv == TypesInv /\ SequenceInv /\ LockInv /\ OneOrderPerClient

\* The users own what they had at the start.
FundsInv ==
    /\ FundsSound(Tables)
    /\ \A a \in Assets : TotalIs(holding(bal, a), NumUsers, NumUsers * Opening)

OrdersInv == KeysInv /\ LevelsMatchActive /\ FundsInv

\* The working copy a transaction starts from.
LEMMA TablesCopy ==
    ASSUME OrderBook(orders)
    PROVE  /\ Copy(Tables) /\ Tables.orders = orders /\ Tables.levels = levels
           /\ Tables.bal = bal /\ Tables.res = res
<1>1. PICK yes : yes = TRUE /\ yes \in BOOLEAN
  BY Zenon
<1>2. PICK f : f = [ok |-> yes, bal |-> bal, res |-> res, orders |-> orders,
                    last |-> last, levels |-> levels, touched |-> {}]
  OBVIOUS
<1>3. Tables = f
  BY <1>1, <1>2, Zenon DEF Tables
<1>4. /\ f.ok = yes /\ f.bal = bal /\ f.res = res /\ f.orders = orders
      /\ f.last = last /\ f.levels = levels /\ f.touched = {}
  BY <1>2
<1>5. Copy(f)
  BY <1>1, <1>2, <1>4 DEF Copy
<1> QED  BY <1>3, <1>4, <1>5

\* Keys, sequence and locks where the orders only advance.
LEMMA KeysKept ==
    ASSUME KeysInv, OrderBook(orders)', \A o \in OrderIds : SameOrder(orders[o], orders'[o]),
           UNCHANGED <<cmds, pc>>
    PROVE  KeysInv'
<1>1. TypesInv'
  BY DEF KeysInv, TypesInv
<1>2. SequenceInv'
  BY DEF KeysInv, SequenceInv, SameOrder
<1>3. placed(orders') = placed(orders)
  BY DEF placed, SameOrder
<1>4. \A o \in placed(orders) : /\ orders'[o].user = orders[o].user
                                /\ orders'[o].client = orders[o].client
  BY DEF placed, SameOrder
<1>5. LockInv'
  <2>1. \A r \in Requests : FindOrderByClientID(orders', r) = FindOrderByClientID(orders, r)
    BY <1>3, <1>4 DEF FindOrderByClientID
  <2>2. \A r \in Requests : uniqueKeysFree(r) => uniqueKeysFree(r)'
    BY <2>1 DEF uniqueKeysFree, commandExists
  <2> QED  BY <2>2 DEF KeysInv, LockInv
<1>6. OneOrderPerClient'
  BY <1>3, <1>4 DEF KeysInv, OneOrderPerClient
<1> QED  BY <1>1, <1>2, <1>5, <1>6 DEF KeysInv

\* The commit of a working copy with sound funds.
LEMMA FundsCommitted ==
    ASSUME FundsInv, OrderBook(orders), NEW g, Conserves(Tables, g), Commit(g)
    PROVE  FundsInv'
<1>1. /\ g.ok
      /\ bal' = g.bal /\ res' = g.res /\ orders' = g.orders
  BY DEF Commit
<1>2. FundsSound(g) /\ \A a \in Assets : Gains(Tables.bal, g.bal, a, 0)
  BY <1>1 DEF Conserves, FundsInv
<1>3. FundsSound(Tables)'
  BY <1>1, <1>2 DEF FundsSound, RowsBalanced, OrdersReserved, Tables
<1>4. ASSUME NEW a \in Assets PROVE TotalIs(holding(bal', a), NumUsers, NumUsers * Opening)
  <2>1. PICK v \in Nat : v = NumUsers * Opening
    BY LedgerAssumption, OrdersAssumption
  <2>2. TotalIs(holding(bal, a), NumUsers, v)
    BY <2>1 DEF FundsInv
  <2>3. Gains(bal, g.bal, a, 0)
    BY <1>2, TablesCopy
  <2>4. v + 0 = v
    OBVIOUS
  <2>5. TotalIs(holding(g.bal, a), NumUsers, v + 0)
    BY <2>2, <2>3 DEF Gains
  <2> QED  BY <1>1, <2>1, <2>4, <2>5
<1> QED  BY <1>3, <1>4 DEF FundsInv

\* A transaction that places no order.
LEMMA TransactionStep ==
    ASSUME OrdersInv, NEW K, NEW g, Transaction(Tables, g, K), Commit(g), UNCHANGED <<cmds, pc>>
    PROVE  OrdersInv'
<1>1. OrderBook(orders)
  BY DEF OrdersInv, KeysInv, TypesInv
<1>2. PICK f : f = Tables
  OBVIOUS
<1>3. Copy(f) /\ f.orders = orders /\ f.levels = levels
  BY <1>1, <1>2, TablesCopy
<1>4. /\ OrderBook(g.orders)
      /\ \A o \in OrderIds : SameOrder(f.orders[o], g.orders[o])
      /\ (\A k \in LevelKeys \ K : LevelsAre(f, k)) => \A k \in LevelKeys : LevelsAre(g, k)
      /\ Conserves(f, g)
  BY <1>2, TransactionOutcome
<1>5. orders' = g.orders /\ levels' = g.levels
  BY DEF Commit
<1>6. KeysInv'
  BY <1>3, <1>4, <1>5, KeysKept DEF OrdersInv
<1>7. LevelsMatchActive'
  BY <1>3, <1>4, <1>5 DEF OrdersInv, LevelsMatchActive, LevelsAre
<1>8. FundsInv'
  BY <1>1, <1>2, <1>4, FundsCommitted DEF OrdersInv
<1> QED  BY <1>6, <1>7, <1>8 DEF OrdersInv

\* Cancel.
LEMMA CancelStep ==
    ASSUME OrdersInv, NEW o \in OrderIds, Cancel(o)
    PROVE  OrdersInv'
<1>1. OrderBook(orders)
  BY DEF OrdersInv, KeysInv, TypesInv
<1>2. PICK f : f = Tables
  OBVIOUS
<1>3. Copy(f) /\ f.orders = orders
  BY <1>1, <1>2, TablesCopy
<1>4. PICK canceled : canceled = [orders[o] EXCEPT !.status = "canceled", !.remaining = 0]
  OBVIOUS
<1>5. PICK saved : saved = SaveOrder(touch(f, canceled), canceled)
  OBVIOUS
<1>6. PICK g : g = refreshBookProjection(ReleaseOrderFunds(saved, orders[o]))
  OBVIOUS
<1>7. f.orders[o].status # "none"
  BY <1>3 DEF Cancel, cancelable, Live
<1>8. Transaction(f, g, {})
  BY <1>3, <1>4, <1>5, <1>6, <1>7, CancelTransaction
<1>9. Commit(g) /\ UNCHANGED <<cmds, pc>>
  BY <1>2, <1>4, <1>5, <1>6 DEF Cancel
<1> QED  BY <1>2, <1>8, <1>9, TransactionStep

\* The stop trigger.
LEMMA TriggerStep ==
    ASSUME OrdersInv, NEW price, TriggerStops(price)
    PROVE  OrdersInv'
<1>1. Copy(Tables)
  BY TablesCopy DEF OrdersInv, KeysInv, TypesInv
<1>2. Transaction(Tables, refreshBookProjection(activateTriggeredStops(Tables, price)), {})
  BY <1>1, StopsTransaction
<1> QED  BY <1>2, TransactionStep DEF TriggerStops

\* A match job.
LEMMA MatchOrderStep ==
    ASSUME OrdersInv, NEW o \in OrderIds, MatchOrder(o)
    PROVE  OrdersInv'
<1>1. PICK f : f = Tables
  OBVIOUS
<1>2. Copy(f) /\ f.orders = orders
  BY <1>1, TablesCopy DEF OrdersInv, KeysInv, TypesInv
<1>3. orders[o] \in Order /\ orders[o].id = o
  BY <1>2 DEF Copy, OrderBook
<1>4. orders[o].status # "none"
  BY DEF MatchOrder
<1>5. PICK item : item = IF orders[o].status = "pending_match"
                         THEN [orders[o] EXCEPT !.status = "open"] ELSE orders[o]
  OBVIOUS
<1>6. item \in Order /\ SameOrder(orders[o], item)
  <2>1. /\ [orders[o] EXCEPT !.status = "open"] \in Order
        /\ SameOrder(orders[o], [orders[o] EXCEPT !.status = "open"])
    BY <1>3, <1>4, NewStatus DEF Statuses
  <2> QED  BY <1>3, <1>5, <2>1, SameOrderTrans
<1>7. item.status # "none" /\ item.id = o
  BY <1>3, <1>4, <1>6 DEF SameOrder
<1>8. Transaction(f, matchAndSettle(f, item), {levelKey(item)})
  BY <1>2, <1>6, <1>7, MatchTransaction
<1>9. Commit(matchAndSettle(f, item)) /\ UNCHANGED <<cmds, pc>>
  BY <1>1, <1>5 DEF MatchOrder
<1> QED  BY <1>1, <1>8, <1>9, TransactionStep

\* The steps of a placement before its commit, and its abort.
LEMMA PlaceSteps ==
    ASSUME OrdersInv, NEW r \in Requests, BeginPlace(r) \/ LockPlace(r) \/ AbortPlace(r)
    PROVE  OrdersInv'
<1>1. UNCHANGED <<bal, res, orders, cmds, last, levels>>
  BY DEF BeginPlace, LockPlace, AbortPlace
<1>2. PICK st \in {"absent", "locked", "idle"} : pc' = [pc EXCEPT ![r] = st]
  BY DEF BeginPlace, LockPlace, AbortPlace
<1>3. TypesInv' /\ SequenceInv' /\ OneOrderPerClient'
  BY <1>1, <1>2 DEF OrdersInv, KeysInv, TypesInv, SequenceInv, OneOrderPerClient
<1>4. LockInv'
  <2>1. \A q \in Requests : uniqueKeysFree(q)' <=> uniqueKeysFree(q)
    BY <1>1 DEF uniqueKeysFree, commandExists
  <2>2. CASE LockPlace(r)
    <3>1. \A q \in Requests : pc'[q] = "locked" => q = r
      BY <2>2 DEF LockPlace, sequenceRowFree, OrdersInv, KeysInv, TypesInv
    <3>2. uniqueKeysFree(r)
      BY <2>2 DEF LockPlace
    <3> QED  BY <2>1, <3>1, <3>2 DEF LockInv
  <2>3. CASE BeginPlace(r) \/ AbortPlace(r)
    <3>1. \A q \in Requests : pc'[q] = "locked" => pc[q] = "locked"
      BY <2>3 DEF BeginPlace, AbortPlace, OrdersInv, KeysInv, TypesInv
    <3> QED  BY <2>1, <3>1 DEF LockInv, OrdersInv, KeysInv
  <2> QED  BY <2>2, <2>3
<1>5. LevelsMatchActive'
  BY <1>1 DEF OrdersInv, LevelsMatchActive
<1>6. FundsInv'
  BY <1>1 DEF OrdersInv, FundsInv, FundsSound, RowsBalanced, OrdersReserved, Tables
<1> QED  BY <1>3, <1>4, <1>5, <1>6 DEF OrdersInv, KeysInv


\* The next sequence id is the first free one.
LEMMA NextFree ==
    ASSUME SequenceInv, NextOrderSequence(orders) \in OrderIds
    PROVE  \A o \in OrderIds : orders[o].status # "none" <=> o < NextOrderSequence(orders)
<1>1. PICK n \in 0..MaxOrders : \A o \in OrderIds : orders[o].status # "none" <=> o <= n
  BY DEF SequenceInv
<1>2. n \in Nat /\ MaxOrders \in Nat /\ n <= MaxOrders
  BY LedgerAssumption
<1>3. placed(orders) = 1..n
  BY <1>1, <1>2 DEF placed, OrderIds
<1>4. Cardinality(1..n) = n
  <2>1. 1 \in Int /\ n \in Int
    BY <1>2
  <2>2. Cardinality(1..n) = IF 1 > n THEN 0 ELSE n - 1 + 1
    BY <2>1, FS_Interval
  <2> QED  BY <1>2, <2>2
<1>5. NextOrderSequence(orders) = n + 1
  BY <1>3, <1>4 DEF NextOrderSequence
<1>6. \A o \in OrderIds : o \in Nat
  BY DEF OrderIds
<1> QED  BY <1>1, <1>2, <1>5, <1>6

\* The order of a valid request is complete and costs something.
LEMMA BuiltOrder ==
    ASSUME NEW r \in Requests, NEW n \in OrderIds
    PROVE  /\ buildOrder(r, n) \in Order
           /\ buildOrder(r, n).status \in {"open", "pending_stop"}
           /\ buildOrder(r, n).id = n
           /\ buildOrder(r, n).user = r.user /\ buildOrder(r, n).client = r.client
           /\ orderReserveAmount(buildOrder(r, n)) > 0
<1>1. r \in Request /\ validRequest(r)
  BY OrdersAssumption
<1>2. PICK st \in {"open", "pending_stop"} :
        st = IF r.type = "stop_limit" THEN "pending_stop" ELSE "open"
  OBVIOUS
<1>3. PICK o : o = [id |-> n, client |-> r.client, user |-> r.user, side |-> r.side,
                    type |-> r.type, tif |-> r.tif, status |-> st, price |-> r.price,
                    stop |-> r.stop, qty |-> r.qty, filled |-> 0, remaining |-> r.qty]
  OBVIOUS
<1>4. buildOrder(r, n) = o
  BY <1>2, <1>3 DEF buildOrder
<1>5. /\ r.client \in Nat /\ r.user \in Users /\ r.side \in Sides
      /\ r.type \in {"limit", "market", "stop_limit"} /\ r.tif \in {"gtc", "ioc"}
      /\ r.price \in Nat /\ r.stop \in Nat /\ r.qty \in Nat /\ r.qty > 0
  BY <1>1 DEF Request
<1>6. o \in Order
  BY <1>2, <1>3, <1>5 DEF Order, Statuses
<1>7. /\ o.status = st /\ o.id = n /\ o.user = r.user /\ o.client = r.client
      /\ o.price = r.price /\ o.remaining = r.qty
  BY <1>3
<1>8. Mul(r.price, r.qty) > 0
  BY <1>1 DEF validRequest
<1>9. orderReserveAmount(o) > 0
  BY <1>5, <1>7, <1>8 DEF orderReserveAmount
<1> QED  BY <1>2, <1>4, <1>6, <1>7, <1>9

\* The commit of a placement.
LEMMA CommitPlaceStep ==
    ASSUME OrdersInv, NEW r \in Requests, CommitPlace(r)
    PROVE  OrdersInv'
<1>1. PICK n \in OrderIds : n = NextOrderSequence(orders)
  BY DEF CommitPlace
<1>2. \A o \in OrderIds : orders[o].status # "none" <=> o < n
  BY <1>1, NextFree DEF OrdersInv, KeysInv
<1>3. \A o \in OrderIds : o \in Nat
  BY DEF OrderIds
<1>4. PICK new : new = buildOrder(r, n)
  OBVIOUS
<1>5. /\ new \in Order /\ new.status \in {"open", "pending_stop"} /\ new.id = n
      /\ new.user = r.user /\ new.client = r.client
      /\ orderReserveAmount(new) > 0
  BY <1>4, BuiltOrder
<1>6. OrderBook(orders)
  BY DEF OrdersInv, KeysInv, TypesInv
<1>7. PICK f : f = Tables
  OBVIOUS
<1>8. Copy(f) /\ f.orders = orders /\ f.levels = levels
  BY <1>6, <1>7, TablesCopy
<1>9. Placeable(f, new)
  BY <1>2, <1>3, <1>5, <1>8 DEF Placeable
<1>10. PICK g : g = enterBook(ReserveOrderFunds(SaveOrder(f, new), new), new)
  OBVIOUS
<1>11. placeOrder(new) = g
  BY <1>7, <1>10 DEF placeOrder
<1>12. Commit(g)
  BY <1>1, <1>4, <1>11 DEF CommitPlace
<1>13. g.ok /\ orders' = g.orders /\ levels' = g.levels
  BY <1>12 DEF Commit
<1>14. PlaceOutcome(f, g, new)
  BY <1>8, <1>9, <1>10, <1>13, PlaceKeeps
<1>15. /\ OrderBook(orders)'
       /\ SameOrder(new, orders'[n])
       /\ \A o \in OrderIds \ {n} : SameOrder(orders[o], orders'[o])
  BY <1>5, <1>8, <1>13, <1>14 DEF PlaceOutcome
<1>16. LevelsMatchActive'
  BY <1>8, <1>13, <1>14 DEF OrdersInv, LevelsMatchActive, PlaceOutcome, LevelsAre
<1>17. FundsInv'
  <2>1. Conserves(Tables, g)
    BY <1>7, <1>14 DEF PlaceOutcome
  <2> QED  BY <1>6, <1>12, <2>1, FundsCommitted DEF OrdersInv
<1>18. PICK c \in CommandIds : c = orderCommandID(r)
  BY DEF CommandIds
<1>19. PICK payload : payload = orderCommandPayload(r)
  OBVIOUS
<1>20. PICK row : row = [order |-> n, payload |-> payload]
  OBVIOUS
<1>21. /\ cmds' = [cmds EXCEPT ![c] = row]
       /\ pc' = [pc EXCEPT ![r] = "idle"]
       /\ pc[r] = "locked"
  BY <1>1, <1>18, <1>19, <1>20 DEF CommitPlace
<1>22. TypesInv'
  BY <1>15, <1>21 DEF OrdersInv, KeysInv, TypesInv
<1>23. \A o \in OrderIds : orders'[o].status # "none" <=> o <= n
  <2> SUFFICES ASSUME NEW o \in OrderIds PROVE orders'[o].status # "none" <=> o <= n
    OBVIOUS
  <2>1. CASE o = n
    BY <1>3, <1>5, <1>15, <2>1 DEF SameOrder
  <2>2. CASE o # n
    <3>1. orders'[o].status # "none" <=> orders[o].status # "none"
      BY <1>15, <2>2 DEF SameOrder
    <3> QED  BY <1>2, <1>3, <2>2, <3>1
  <2> QED  BY <2>1, <2>2
<1>24. SequenceInv'
  <2>1. n \in 0..MaxOrders
    BY LedgerAssumption DEF OrderIds
  <2> QED  BY <1>23, <2>1 DEF SequenceInv
<1>25. LockInv'
  <2>1. \A q \in Requests : pc'[q] # "locked"
    BY <1>21 DEF OrdersInv, KeysInv, LockInv, TypesInv
  <2> QED  BY <2>1 DEF LockInv
<1>26. uniqueKeysFree(r)
  BY <1>21 DEF OrdersInv, KeysInv, LockInv
<1>27. \A o \in placed(orders') : o = n \/ (o # n /\ o \in placed(orders))
  BY <1>15 DEF placed, SameOrder
<1>28. \A o \in OrderIds \ {n} : /\ orders'[o].user = orders[o].user
                                 /\ orders'[o].client = orders[o].client
  BY <1>15 DEF SameOrder
<1>29. orders'[n].user = r.user /\ orders'[n].client = r.client
  BY <1>5, <1>15 DEF SameOrder
<1>30. \A o \in placed(orders) : ~(orders[o].user = r.user /\ orders[o].client = r.client)
  BY <1>26 DEF uniqueKeysFree, FindOrderByClientID
<1>31. placed(orders) \subseteq OrderIds
  BY DEF placed
<1>32. ASSUME NEW o \in placed(orders'), NEW p \in placed(orders'),
              orders'[o].user = orders'[p].user, orders'[o].client = orders'[p].client
       PROVE  o = p
  <2>1. \A x, y \in placed(orders) :
          orders[x].user = orders[y].user /\ orders[x].client = orders[y].client => x = y
    BY DEF OrdersInv, KeysInv, OneOrderPerClient
  <2> QED  BY <1>27, <1>28, <1>29, <1>30, <1>31, <1>32, <2>1
<1>33. ASSUME NEW o \in placed(orders')
       PROVE  \E x \in CommandIds : /\ cmds'[x] # NoCommand
                                    /\ cmds'[x].order = o
                                    /\ cmds'[x].payload.client = orders'[o].client
  <2>1. CASE o = n
    <3>1. cmds'[c] = row
      BY <1>21 DEF OrdersInv, KeysInv, TypesInv
    <3>2. row.order = n /\ row.payload = payload /\ payload.client = r.client
      BY <1>19, <1>20 DEF orderCommandPayload
    <3>3. row # NoCommand
      <4>1. NoCommand.order = 0
        BY DEF NoCommand
      <4>2. n # 0
        BY DEF OrderIds
      <4> QED  BY <3>2, <4>1, <4>2
    <3> QED  BY <1>29, <2>1, <3>1, <3>2, <3>3
  <2>2. CASE o # n
    <3>1. o \in placed(orders)
      BY <1>27, <2>2
    <3>2. PICK x \in CommandIds : /\ cmds[x] # NoCommand
                                  /\ cmds[x].order = o
                                  /\ cmds[x].payload.client = orders[o].client
      BY <3>1 DEF OrdersInv, KeysInv, OneOrderPerClient
    <3>3. cmds[c] = NoCommand
      BY <1>18, <1>26 DEF uniqueKeysFree, commandExists
    <3>4. cmds'[x] = cmds[x]
      BY <1>21, <3>2, <3>3 DEF OrdersInv, KeysInv, TypesInv
    <3> QED  BY <1>28, <1>31, <2>2, <3>1, <3>2, <3>4
  <2> QED  BY <2>1, <2>2
<1>34. OneOrderPerClient'
  BY <1>32, <1>33 DEF OneOrderPerClient
<1> QED  BY <1>16, <1>17, <1>22, <1>24, <1>25, <1>34 DEF OrdersInv, KeysInv

-----------------------------------------------------------------------------
(* The initial states.                                                     *)

\* Nothing is placed, nothing is published and nothing is locked.
LEMMA InitSound == Init => OrdersInv
<1> SUFFICES ASSUME Init PROVE OrdersInv
  OBVIOUS
<1>1. \A o \in OrderIds : NoOrder(o) \in Order /\ NoOrder(o).id = o
                          /\ NoOrder(o).status = "none"
  BY LedgerAssumption DEF NoOrder, Order, Users, Sides, Statuses
<1>2. \A o \in OrderIds : orders[o].status = "none"
  BY <1>1 DEF Init
<1>3. TypesInv
  BY <1>1 DEF Init, TypesInv, OrderBook
<1>4. SequenceInv
  <2>1. 0 \in 0..MaxOrders /\ \A o \in OrderIds : ~(o <= 0)
    BY LedgerAssumption DEF OrderIds
  <2> QED  BY <1>2, <2>1 DEF SequenceInv
<1>5. placed(orders) = {}
  BY <1>2 DEF placed
<1>6. LockInv /\ OneOrderPerClient
  BY <1>5 DEF Init, LockInv, OneOrderPerClient
<1>7. LevelsMatchActive
  <2>1. activeOrders(orders) = {}
    BY <1>2 DEF activeOrders, isBookableOrder, OpenStatuses
  <2>2. \A k \in LevelKeys : levelOf(orders, k) = EmptyLevel
    BY <2>1 DEF levelOf, levelSum
  <2> QED  BY <2>2 DEF Init, LevelsMatchActive
<1>8. <<1, Base>> \in AccountKeys
  BY LedgerAssumption DEF AccountKeys, Users, Assets
<1>9. NoReservation \in Reservation /\ BalancedRow(NoReservation)
      /\ NoReservation.remaining = 0
  BY <1>8 DEF NoReservation, Reservation, ReservationStatuses, BalancedRow
<1>10. Row(Opening, 0, 0) \in Balance /\ Row(Opening, 0, 0).locked = 0
       /\ worth(Row(Opening, 0, 0)) = Opening
  BY OrdersAssumption DEF Row, Balance, worth
<1>11. /\ bal \in [AccountKeys -> Balance] /\ res \in [OrderIds -> Reservation]
       /\ \A k \in AccountKeys : bal[k] = Row(Opening, 0, 0)
       /\ \A o \in OrderIds : res[o] = NoReservation
  BY <1>9, <1>10 DEF Init
<1>12. LockedCovered(bal, res)
  <2> SUFFICES ASSUME NEW k \in AccountKeys
               PROVE  TotalIs(heldBy(res, k), MaxOrders, bal[k].locked)
    BY DEF LockedCovered
  <2>1. bal[k].locked = 0
    BY <1>10, <1>11
  <2>2. \A i \in 1..MaxOrders : heldBy(res, k)[i] = 0
    BY <1>9, <1>11 DEF heldBy, OrderIds
  <2>3. MaxOrders \in Nat /\ MaxOrders * 0 = 0
    BY LedgerAssumption
  <2>4. TotalIs(heldBy(res, k), MaxOrders, MaxOrders * 0)
    BY <2>2, <2>3, TotalConstant
  <2> QED  BY <2>1, <2>3, <2>4
<1>13. /\ Tables.bal = bal /\ Tables.res = res /\ Tables.orders = orders
  BY <1>3, TablesCopy DEF TypesInv
<1>14. FundsSound(Tables)
  BY <1>2, <1>9, <1>11, <1>12, <1>13 DEF FundsSound, RowsBalanced, OrdersReserved
<1>15. ASSUME NEW a \in Assets
       PROVE  TotalIs(holding(bal, a), NumUsers, NumUsers * Opening)
  <2>1. \A u \in Users : holding(bal, a)[u] = worth(bal[<<u, a>>]) /\ <<u, a>> \in AccountKeys
    BY <1>11, HoldingType
  <2>2. \A u \in 1..NumUsers : holding(bal, a)[u] = Opening
    BY <1>10, <1>11, <2>1 DEF Users
  <2>3. NumUsers \in Nat /\ Opening \in Nat
    BY LedgerAssumption, OrdersAssumption
  <2> QED  BY <2>2, <2>3, TotalConstant
<1> QED  BY <1>3, <1>4, <1>6, <1>7, <1>14, <1>15 DEF OrdersInv, KeysInv, FundsInv

-----------------------------------------------------------------------------
(* The theorems.                                                           *)

\* The invariant holds: complete orders numbered without gaps, one placement at a
\* time, sound accounts.
THEOREM OrdersInvariant == Spec => []OrdersInv
<1>1. Init => OrdersInv
  BY InitSound
<1>2. OrdersInv /\ [Next]_vars => OrdersInv'
  <2> SUFFICES ASSUME OrdersInv, [Next]_vars PROVE OrdersInv'
    OBVIOUS
  <2>1. CASE \E r \in Requests : BeginPlace(r) \/ LockPlace(r) \/ AbortPlace(r)
    BY <2>1, PlaceSteps
  <2>2. CASE \E r \in Requests : CommitPlace(r)
    BY <2>2, CommitPlaceStep
  <2>3. CASE \E o \in OrderIds : Cancel(o)
    BY <2>3, CancelStep
  <2>4. CASE \E o \in OrderIds : MatchOrder(o)
    BY <2>4, MatchOrderStep
  <2>5. CASE \E price \in TriggerPrices : TriggerStops(price)
    BY <2>5, TriggerStep
  <2>6. CASE UNCHANGED vars
    BY <2>6 DEF vars, OrdersInv, KeysInv, TypesInv, SequenceInv, LockInv, OneOrderPerClient,
       LevelsMatchActive, FundsInv, FundsSound, RowsBalanced, OrdersReserved, Tables,
       uniqueKeysFree, commandExists
  <2> QED  BY <2>1, <2>2, <2>3, <2>4, <2>5, <2>6 DEF Next
<1> QED  BY <1>1, <1>2, PTL DEF Spec

\* However often and however concurrently a request is sent, and whatever fills,
\* cancels or triggers orders meanwhile: a client order id names one order of its
\* user, and every order has the command that created it.
THEOREM ClientOrdersAreUnique == Spec => []OneOrderPerClient
<1>1. OrdersInv => OneOrderPerClient
  BY DEF OrdersInv, KeysInv
<1> QED  BY <1>1, OrdersInvariant, PTL

\* A transaction that refreshes only the levels it has noted leaves every level as
\* the sum over the active orders, in both modes and for any candidate limit.
THEOREM LevelsAreRight == Spec => []LevelsMatchActive
<1>1. OrdersInv => LevelsMatchActive
  BY DEF OrdersInv
<1> QED  BY <1>1, OrdersInvariant, PTL


-----------------------------------------------------------------------------
(* Sums.  SumFunction takes the summands in an arbitrary order, TotalIs by *)
(* their numbers; both come to the same.                                   *)

\* The summands of some of the places.
part(f, n, t) == [i \in 1..n |-> IF i \in t THEN f[i] ELSE 0]

\* Putting a place's summand in or taking it out.
LEMMA PartChange ==
    ASSUME NEW n \in Nat, NEW f \in [1..n -> Nat], NEW t \in SUBSET (1..n), NEW x \in t,
           NEW v \in Nat
    PROVE  /\ TotalIs(part(f, n, t \ {x}), n, v) => TotalIs(part(f, n, t), n, f[x] + v)
           /\ TotalIs(part(f, n, t), n, v) =>
                 /\ f[x] <= v
                 /\ TotalIs(part(f, n, t \ {x}), n, v - f[x])
<1>1. PICK P : P = part(f, n, t)
  OBVIOUS
<1>2. PICK Q : Q = part(f, n, t \ {x})
  OBVIOUS
<1>3. P \in [1..n -> Nat] /\ Q \in [1..n -> Nat] /\ x \in 1..n
  BY <1>1, <1>2 DEF part
<1>4. P[x] = f[x] /\ Q[x] = 0 /\ \A i \in 1..n : i # x => P[i] = Q[i]
  BY <1>1, <1>2 DEF part
<1>5. TotalIs(Q, n, v) => TotalIs(P, n, v - Q[x] + P[x])
  BY <1>3, <1>4, TotalUpdate
<1>6. TotalIs(P, n, v) => P[x] <= v /\ TotalIs(Q, n, v - P[x] + Q[x])
  BY <1>3, <1>4, TotalUpdate
<1>7. f[x] \in Nat
  BY <1>3
<1>8. v - Q[x] + P[x] = f[x] + v /\ v - P[x] + Q[x] = v - f[x]
  BY <1>4, <1>7
<1> QED  BY <1>1, <1>2, <1>4, <1>5, <1>6, <1>8

\* A claim about sets of places holds of all of them if it holds of a set whenever it
\* holds of what is left without any one place.
LEMMA SetInduction ==
    ASSUME NEW n \in Nat, NEW G,
           \A t \in SUBSET (1..n) : (\A x \in t : t \ {x} \in G) => t \in G
    PROVE  \A t \in SUBSET (1..n) : t \in G
<1>1. \A t \in SUBSET (1..n) : IsFiniteSet(t) /\ Cardinality(t) \in Nat
  <2>1. 1 \in Int /\ n \in Int
    OBVIOUS
  <2>2. IsFiniteSet(1..n)
    BY <2>1, FS_Interval
  <2> QED  BY <2>2, FS_Subset, FS_CardinalityType
<1> DEFINE Bad == {t \in SUBSET (1..n) : t \notin G}
           Sizes == {Cardinality(t) : t \in Bad}
<1>2. SUFFICES ASSUME Bad # {} PROVE FALSE
  OBVIOUS
<1>3. Sizes \in SUBSET Nat /\ Sizes # {}
  BY <1>1, <1>2
<1> HIDE DEF Sizes
<1>4. PICK m \in Sizes : \A k \in Sizes : m <= k
  BY <1>3, Saves!LeastNumber
<1>5. PICK t \in Bad : m = Cardinality(t)
  BY <1>4 DEF Sizes
<1>6. PICK x \in t : t \ {x} \notin G
  BY <1>5
<1>7. t \ {x} \in Bad
  BY <1>5, <1>6
<1>8. Cardinality(t \ {x}) = Cardinality(t) - 1
  BY <1>1, <1>5, FS_RemoveElement
<1>9. m <= Cardinality(t \ {x})
  BY <1>4, <1>7 DEF Sizes
<1> QED  BY <1>1, <1>5, <1>8, <1>9

\* Every such sum has a value.
LEMMA PartTotals ==
    ASSUME NEW n \in Nat, NEW f \in [1..n -> Nat]
    PROVE  \A t \in SUBSET (1..n) : \E v \in Nat : TotalIs(part(f, n, t), n, v)
<1>1. PICK G : G = {t \in SUBSET (1..n) : \E v \in Nat : TotalIs(part(f, n, t), n, v)}
  OBVIOUS
<1>2. {} \in G
  <2>1. \A i \in 1..n : part(f, n, {})[i] = 0
    BY DEF part
  <2>2. TotalIs(part(f, n, {}), n, n * 0)
    BY <2>1, TotalConstant
  <2>3. n * 0 \in Nat
    OBVIOUS
  <2> QED  BY <1>1, <2>2, <2>3
<1>3. ASSUME NEW t \in SUBSET (1..n), t # {}, \A x \in t : t \ {x} \in G PROVE t \in G
  <2> PICK x \in t : TRUE
    BY <1>3
  <2>1. PICK v \in Nat : TotalIs(part(f, n, t \ {x}), n, v)
    BY <1>1, <1>3
  <2>2. TotalIs(part(f, n, t), n, f[x] + v)
    BY <2>1, PartChange
  <2>3. f[x] + v \in Nat
    OBVIOUS
  <2> QED  BY <1>1, <2>2, <2>3
<1> QED  BY <1>1, <1>2, <1>3, SetInduction

\* A sum has one value.
LEMMA TotalUnique ==
    ASSUME NEW n \in Nat, NEW f \in [1..n -> Nat], NEW v \in Nat, NEW w \in Nat,
           TotalIs(f, n, v), TotalIs(f, n, w)
    PROVE  v = w
<1>1. PICK g \in [0..n -> 0..v] : RunningTotals(g, f, n) /\ g[n] = v
  BY DEF TotalIs
<1>2. PICK h \in [0..n -> 0..w] : RunningTotals(h, f, n) /\ h[n] = w
  BY DEF TotalIs
<1> DEFINE Bad == {i \in 0..n : g[i] # h[i]}
<1>3. SUFFICES ASSUME Bad # {} PROVE FALSE
  <2>1. n \in 0..n
    OBVIOUS
  <2> QED  BY <1>1, <1>2, <2>1
<1>4. PICK m \in Bad : \A k \in Bad : m <= k
  <2>1. Bad \in SUBSET Nat
    OBVIOUS
  <2> QED  BY <1>3, <2>1, Saves!LeastNumber
<1>5. g[0] = 0 /\ h[0] = 0
  BY <1>1, <1>2 DEF RunningTotals
<1>6. m \in 1..n /\ m - 1 \in 0..n /\ ~(m <= m - 1)
  BY <1>4, <1>5
<1>7. g[m - 1] = h[m - 1]
  BY <1>4, <1>6
<1>8. g[m] = g[m - 1] + f[m] /\ h[m] = h[m - 1] + f[m]
  BY <1>1, <1>2, <1>6 DEF RunningTotals
<1> QED  BY <1>4, <1>7, <1>8

IsSum(it, f, S) ==
    it = [t \in SUBSET S |->
            IF t = {} THEN 0
            ELSE f[CHOOSE x \in t : TRUE] + it[t \ {CHOOSE x \in t : TRUE}]]

\* The sum of a function, by whatever order, is its total.
LEMMA SumIsTotal ==
    ASSUME NEW n \in Nat, NEW f \in [1..n -> Nat], NEW v \in Nat, TotalIs(f, n, v)
    PROVE  SumFunction(f) = v
<1> DEFINE it == CHOOSE g : IsSum(g, f, 1..n)
           pick(t) == CHOOSE x \in t : TRUE
           sums == [t \in SUBSET (1..n) |-> CHOOSE w \in Nat : TotalIs(part(f, n, t), n, w)]
<1>1. SumFunction(f) = it[1..n]
  <2>1. DOMAIN f = 1..n
    OBVIOUS
  <2> QED  BY <2>1 DEF SumFunction, SumFunctionOnSet, FoldFunctionOnSet, MapThenFoldSet, IsSum
<1>2. \A t \in SUBSET (1..n) : sums[t] \in Nat /\ TotalIs(part(f, n, t), n, sums[t])
  BY PartTotals
<1>3. \A t \in SUBSET (1..n) : part(f, n, t) \in [1..n -> Nat]
  BY DEF part
<1>4. \A t : t # {} => pick(t) \in t
  OBVIOUS
<1> HIDE DEF sums, pick
<1>5. sums[{}] = 0
  <2>1. \A i \in 1..n : part(f, n, {})[i] = 0
    BY DEF part
  <2>2. TotalIs(part(f, n, {}), n, n * 0) /\ n * 0 = 0
    BY <2>1, TotalConstant
  <2>3. {} \in SUBSET (1..n)
    OBVIOUS
  <2> QED  BY <1>2, <1>3, <2>2, <2>3, TotalUnique
<1>6. ASSUME NEW t \in SUBSET (1..n), NEW x \in t
      PROVE  sums[t] = f[x] + sums[t \ {x}]
  <2>1. PICK a \in Nat : a = sums[t] /\ TotalIs(part(f, n, t), n, a)
    BY <1>2
  <2>2. f[x] <= a /\ TotalIs(part(f, n, t \ {x}), n, a - f[x])
    BY <2>1, PartChange
  <2>3. f[x] \in Nat /\ a - f[x] \in Nat
    BY <2>2
  <2>4. PICK u \in SUBSET (1..n) : u = t \ {x}
    OBVIOUS
  <2>5. PICK b \in Nat : b = sums[u] /\ TotalIs(part(f, n, u), n, b)
    BY <1>2
  <2>6. b = a - f[x]
    BY <1>3, <2>2, <2>3, <2>4, <2>5, TotalUnique
  <2> QED  BY <2>1, <2>3, <2>4, <2>5, <2>6
<1>7. IsSum(sums, f, 1..n)
  <2>1. sums = [t \in SUBSET (1..n) |-> sums[t]]
    BY DEF sums
  <2>2. ASSUME NEW t \in SUBSET (1..n)
        PROVE  sums[t] = IF t = {} THEN 0 ELSE f[pick(t)] + sums[t \ {pick(t)}]
    BY <1>4, <1>5, <1>6
  <2>3. sums = [t \in SUBSET (1..n) |->
                   IF t = {} THEN 0 ELSE f[pick(t)] + sums[t \ {pick(t)}]]
    BY <2>1, <2>2
  <2> QED  BY <2>3 DEF IsSum, pick
<1>8. IsSum(it, f, 1..n)
  BY <1>7 DEF it
<1> HIDE DEF it
<1>9. it[{}] = 0
  <2>1. {} \in SUBSET (1..n)
    OBVIOUS
  <2> QED  BY <1>8, <2>1 DEF IsSum
<1>10. \A t \in SUBSET (1..n) : t # {} => it[t] = f[pick(t)] + it[t \ {pick(t)}]
  BY <1>8 DEF IsSum, pick
<1>11. it[1..n] = sums[1..n]
  <2>1. PICK G : G = {t \in SUBSET (1..n) : it[t] = sums[t]}
    OBVIOUS
  <2>2. ASSUME NEW t \in SUBSET (1..n), \A x \in t : t \ {x} \in G PROVE t \in G
    <3>1. CASE t = {}
      BY <1>5, <1>9, <2>1, <3>1
    <3>2. CASE t # {}
      <4>1. PICK x \in t : x = pick(t)
        BY <1>4, <3>2
      <4>2. it[t \ {x}] = sums[t \ {x}]
        BY <2>1, <2>2
      <4>3. sums[t] = f[x] + sums[t \ {x}]
        BY <1>6
      <4>4. it[t] = f[x] + it[t \ {x}]
        BY <1>10, <3>2, <4>1
      <4> QED  BY <2>1, <4>2, <4>3, <4>4
    <3> QED  BY <3>1, <3>2
  <2>3. \A t \in SUBSET (1..n) : t \in G
    BY <2>2, SetInduction
  <2> QED  BY <2>1, <2>3
<1>12. sums[1..n] = v
  <2>1. \A i \in 1..n : part(f, n, 1..n)[i] = f[i]
    BY DEF part
  <2>2. PICK w \in Nat : w = sums[1..n] /\ TotalIs(part(f, n, 1..n), n, w)
    BY <1>2
  <2>3. part(f, n, 1..n) = f
    BY <2>1 DEF part
  <2> QED  BY <2>2, <2>3, TotalUnique
<1> QED  BY <1>1, <1>11, <1>12

-----------------------------------------------------------------------------
(* Funds.                                                                  *)

\* What is locked on an account is what the reservations on it hold, after any
\* sequence of placements, fills, price improvements, expiries and cancellations.
THEOREM LocksFollowReservations == Spec => []LockedForReservations
<1>1. ASSUME OrdersInv PROVE LockedForReservations
  <2> SUFFICES ASSUME NEW k \in AccountKeys PROVE bal[k].locked = SumFunction(heldBy(res, k))
    BY DEF LockedForReservations
  <2>1. /\ bal \in [AccountKeys -> Balance] /\ res \in [OrderIds -> Reservation]
        /\ LockedCovered(bal, res)
    BY <1>1, TablesCopy DEF OrdersInv, KeysInv, TypesInv, FundsInv, FundsSound
  <2>2. PICK n \in Nat : n = MaxOrders
    BY LedgerAssumption
  <2>3. PICK f : f = heldBy(res, k)
    OBVIOUS
  <2>4. f \in [1..n -> Nat]
    BY <2>1, <2>2, <2>3 DEF heldBy, OrderIds, Reservation
  <2>5. PICK v \in Nat : v = bal[k].locked
    BY <2>1 DEF Balance
  <2>6. TotalIs(f, n, v)
    BY <2>1, <2>2, <2>3, <2>5 DEF LockedCovered
  <2> QED  BY <2>3, <2>4, <2>5, <2>6, SumIsTotal
<1> QED  BY <1>1, OrdersInvariant, PTL

\* Trades, expiries and cancellations move funds between the users and between
\* available and locked; none is created or destroyed.
THEOREM OrdersConserveFunds == Spec => []NothingLost
<1>1. ASSUME OrdersInv PROVE NothingLost
  <2> SUFFICES ASSUME NEW a \in Assets
               PROVE  SumFunction(holding(bal, a)) = NumUsers * Opening
    BY DEF NothingLost
  <2>1. bal \in [AccountKeys -> Balance]
    BY <1>1, TablesCopy DEF OrdersInv, KeysInv, TypesInv, FundsInv, FundsSound
  <2>2. PICK n \in Nat : n = NumUsers
    BY LedgerAssumption
  <2>3. PICK f : f = holding(bal, a)
    OBVIOUS
  <2>4. f \in [1..n -> Nat]
    BY <2>1, <2>2, <2>3, HoldingType
  <2>5. PICK v \in Nat : v = NumUsers * Opening
    BY LedgerAssumption, OrdersAssumption
  <2>6. TotalIs(f, n, v)
    BY <1>1, <2>2, <2>3, <2>5 DEF OrdersInv, FundsInv
  <2> QED  BY <2>3, <2>4, <2>5, <2>6, SumIsTotal
<1> QED  BY <1>1, OrdersInvariant, PTL

-----------------------------------------------------------------------------
(* The candidates.                                                         *)

\* The list has n of the orders found, in priority order and without a gap: what comes
\* before one of them is before it in the list.
InOrder(l, n, found) ==
    /\ DOMAIN l = 1..n
    /\ \A i \in 1..n : l[i] \in found
    /\ \A i, j \in 1..n : l[i] = l[j] => i = j
    /\ \A j \in 1..n : \A x \in found : better(x, l[j]) => \E i \in 1..(j - 1) : l[i] = x
    /\ n = 0 => found = {} /\ l = <<>>

\* An order that comes earlier has fewer before it.
LEMMA RankGrows ==
    ASSUME NEW S, IsFiniteSet(S), NEW R, StrictOrder(R, S), NEW c \in S, NEW d \in S
    PROVE  /\ Cardinality(Below(R, S, c)) \in Nat
           /\ <<c, d>> \in R => Cardinality(Below(R, S, c)) < Cardinality(Below(R, S, d))
           /\ Cardinality(Below(R, S, c)) = Cardinality(Below(R, S, d)) => c = d
<1>1. ASSUME NEW x \in S
      PROVE  IsFiniteSet(Below(R, S, x)) /\ Cardinality(Below(R, S, x)) \in Nat
  <2>1. Below(R, S, x) \in SUBSET S
    BY DEF Below
  <2>2. IsFiniteSet(Below(R, S, x))
    BY <2>1, FS_Subset
  <2> QED  BY <2>2, FS_CardinalityType
<1>2. ASSUME NEW x \in S, NEW y \in S, <<x, y>> \in R
      PROVE  Cardinality(Below(R, S, x)) < Cardinality(Below(R, S, y))
  <2>1. Below(R, S, x) \in SUBSET Below(R, S, y)
    BY <1>2 DEF Below, StrictOrder
  <2>2. x \in Below(R, S, y) /\ x \notin Below(R, S, x)
    BY <1>2 DEF Below, StrictOrder
  <2>3. /\ Cardinality(Below(R, S, x)) <= Cardinality(Below(R, S, y))
        /\ Cardinality(Below(R, S, y)) = Cardinality(Below(R, S, x))
             => Below(R, S, y) = Below(R, S, x)
    BY <1>1, <2>1, FS_Subset
  <2>4. Cardinality(Below(R, S, x)) \in Nat /\ Cardinality(Below(R, S, y)) \in Nat
    BY <1>1
  <2> QED  BY <2>2, <2>3, <2>4
<1>3. Cardinality(Below(R, S, c)) \in Nat /\ Cardinality(Below(R, S, d)) \in Nat
  BY <1>1
<1>4. Cardinality(Below(R, S, c)) = Cardinality(Below(R, S, d)) => c = d
  <2>1. c # d => <<c, d>> \in R \/ <<d, c>> \in R
    BY DEF StrictOrder
  <2> QED  BY <1>2, <1>3, <2>1
<1> QED  BY <1>2, <1>3, <1>4

\* Orders of one side have a strict order of priority.
LEMMA BetterIsStrict ==
    ASSUME NEW found,
           \A c \in found : c.id \in Nat /\ c.price \in Nat,
           \A c, d \in found : c.side = d.side /\ (c.id = d.id => c = d),
           NEW R, R = {p \in found \X found : better(p[1], p[2])}
    PROVE  /\ StrictOrder(R, found)
           /\ \A x, y \in found : <<x, y>> \in R <=> better(x, y)
<1>1. \A x, y \in found : <<x, y>> \in R <=> better(x, y)
  OBVIOUS
<1>2. \A x \in found : ~better(x, x)
  BY DEF better
<1>3. \A x, y \in found : x # y => better(x, y) \/ better(y, x)
  BY DEF better
<1>4. \A x, y, z \in found : better(x, y) /\ better(y, z) => better(x, z)
  BY DEF better
<1> QED  BY <1>1, <1>2, <1>3, <1>4 DEF StrictOrder

\* What the query returns.
LEMMA LineInOrder ==
    ASSUME NEW found, IsFiniteSet(found),
           \A c \in found : c.id \in Nat /\ c.price \in Nat,
           \A c, d \in found : c.side = d.side /\ (c.id = d.id => c = d)
    PROVE  \E n \in Nat : InOrder(firstInLine(found), n, found)
<1>1. PICK k \in Nat : k = Cardinality(found)
  BY FS_CardinalityType
<1>2. PICK n \in Nat : n = Min({Cardinality(found), CandidateLimit}) /\ n <= k /\ (n = 0 => k = 0)
  <2>1. PICK l \in Nat : l = CandidateLimit /\ l # 0
    BY OrdersAssumption
  <2>2. \E x \in {k, l} : \A y \in {k, l} : x <= y
    OBVIOUS
  <2>3. Min({k, l}) \in {k, l} /\ \A y \in {k, l} : Min({k, l}) <= y
    BY <2>2 DEF Min
  <2> QED  BY <1>1, <2>1, <2>3
<1>3. PICK R : R = {p \in found \X found : better(p[1], p[2])}
  OBVIOUS
<1>4. StrictOrder(R, found) /\ \A x, y \in found : <<x, y>> \in R <=> better(x, y)
  BY <1>3, BetterIsStrict
<1>5. PICK l : l = firstInLine(found)
  OBVIOUS
<1>6. DOMAIN l = 1..n
  BY <1>2, <1>5 DEF firstInLine
<1>7. ASSUME NEW i \in 1..n
      PROVE  l[i] \in found /\ Cardinality(Below(R, found, l[i])) = i - 1
  <2>1. i \in 1..Cardinality(found)
    BY <1>1, <1>2
  <2>2. PICK c \in found : Cardinality(Below(R, found, c)) = i - 1
    BY <1>4, <2>1, RankExists
  <2>3. \A x \in found : Below(R, found, x) = {d \in found : better(d, x)}
    BY <1>4 DEF Below
  <2>4. \E x \in found : Cardinality({d \in found : better(d, x)}) = i - 1
    BY <2>2, <2>3
  <2>5. l[i] = CHOOSE x \in found : Cardinality({d \in found : better(d, x)}) = i - 1
    BY <1>2, <1>5 DEF firstInLine
  <2>6. l[i] \in found /\ Cardinality({d \in found : better(d, l[i])}) = i - 1
    BY <2>4, <2>5
  <2> QED  BY <2>3, <2>6
<1>8. \A i, j \in 1..n : l[i] = l[j] => i = j
  <2>1. \A i, j \in 1..n : i - 1 = j - 1 => i = j
    OBVIOUS
  <2> QED  BY <1>7, <2>1
<1>9. ASSUME NEW j \in 1..n, NEW x \in found, better(x, l[j])
      PROVE  \E i \in 1..(j - 1) : l[i] = x
  <2>1. PICK r \in Nat : r = Cardinality(Below(R, found, x))
    BY <1>4, RankGrows
  <2>2. PICK y \in found : y = l[j] /\ Cardinality(Below(R, found, y)) = j - 1
    BY <1>7
  <2>3. <<x, y>> \in R
    BY <1>4, <1>9, <2>2
  <2>4. r < j - 1
    BY <1>4, <2>1, <2>2, <2>3, RankGrows
  <2>5. r + 1 \in 1..(j - 1) /\ r + 1 \in 1..n /\ r + 1 - 1 = r
    BY <2>1, <2>4
  <2>6. l[r + 1] \in found /\ Cardinality(Below(R, found, l[r + 1])) = r
    BY <1>7, <2>5
  <2>7. PICK z \in found : z = l[r + 1] /\ Cardinality(Below(R, found, z)) = r
    BY <2>6
  <2>8. Cardinality(Below(R, found, z)) = Cardinality(Below(R, found, x)) => z = x
    BY <1>4, RankGrows, Zenon
  <2>9. z = x
    BY <2>1, <2>7, <2>8
  <2> QED  BY <2>5, <2>9, <2>7
<1>10. n = 0 => found = {}
  <2>1. k = 0 => found = {}
    BY <1>1, FS_EmptySet
  <2> QED  BY <1>2, <2>1
<1>11. n = 0 => l = <<>>
  <2> DEFINE e(i) == CHOOSE c \in found : Cardinality({d \in found : better(d, c)}) = i - 1
  <2>1. firstInLine(found) = [i \in 1..Min({Cardinality(found), CandidateLimit}) |-> e(i)]
    BY Zenon DEF firstInLine
  <2> HIDE DEF e
  <2>2. l = [i \in 1..n |-> e(i)]
    BY <1>2, <1>5, <2>1
  <2> QED  BY <2>2
<1>12. InOrder(l, n, found)
  BY <1>6, <1>7, <1>8, <1>9, <1>10, <1>11 DEF InOrder
<1> QED  BY <1>5, <1>12

\* The orders a taker could trade with.
reaches(taker, o) ==
    IF taker.side = "buy" THEN o.price <= taker.price ELSE o.price >= taker.price

facing(os, taker) ==
    {x \in activeOrders(os) :
        x # taker.id /\ os[x].side = oppositeSide(taker.side) /\ reaches(taker, os[x])}

\* The list has orders from the book, in priority order: each of them can be traded with,
\* and whoever is in the book before it is in the list before it.
Queue(os, taker, l, n) ==
    /\ DOMAIN l = 1..n
    /\ \A i \in 1..n : l[i].id \in facing(os, taker) /\ l[i] = os[l[i].id]
    /\ \A i, j \in 1..n : l[i].id = l[j].id => i = j
    /\ \A j \in 1..n : \A x \in activeOrders(os) \ {taker.id} :
          isBefore(os[x], l[j]) => \E i \in 1..(j - 1) : l[i].id = x
    /\ n = 0 => facing(os, taker) = {} /\ l = <<>>

\* The candidates of a round.
LEMMA CandidatesInOrder ==
    ASSUME NEW os, OrderBook(os), NEW taker, taker.side \in Sides, taker.price \in Nat
    PROVE  \E n \in Nat : Queue(os, taker, ListMatchCandidates(os, taker), n)
<1> DEFINE ids == facing(os, taker)
           found == {os[o] : o \in ids}
<1>1. ids \in SUBSET OrderIds
  BY DEF activeOrders, facing
<1>2. IsFiniteSet(ids) /\ \A o \in ids : o \in Nat
  BY <1>1, IdsFinite
<1>3. IsFiniteSet(found)
  <2>1. PICK h : h = [o \in ids |-> os[o]]
    OBVIOUS
  <2>2. h \in Surjection(ids, found)
    BY <2>1 DEF Surjection
  <2> QED  BY <1>2, <2>2, FS_Surjection
<1>4. \A o \in OrderIds : os[o] \in Order /\ os[o].id = o /\ os[o].price \in Nat
  BY DEF OrderBook, Order
<1>5. \A o \in ids : os[o].side = oppositeSide(taker.side)
  BY DEF facing
<1>6. \A c \in found : c.id \in ids /\ c = os[c.id] /\ c.id \in Nat /\ c.price \in Nat
                       /\ c.side = oppositeSide(taker.side)
  BY <1>1, <1>2, <1>4, <1>5
<1>7. ListMatchCandidates(os, taker) = firstInLine(found)
  BY DEF ListMatchCandidates, facing, reaches
<1>8. \A o \in ids : os[o] \in found
  OBVIOUS
<1>9. \A c, d \in found : c.side = d.side /\ (c.id = d.id => c = d)
  BY <1>6
<1>10. found = {} => ids = {}
  BY <1>8
<1> HIDE DEF found
<1>11. PICK n \in Nat : InOrder(firstInLine(found), n, found)
  BY <1>3, <1>6, <1>9, LineInOrder
<1>12. PICK l : l = firstInLine(found)
  OBVIOUS
<1>13. /\ DOMAIN l = 1..n
       /\ \A i \in 1..n : l[i] \in found
       /\ \A i, j \in 1..n : l[i] = l[j] => i = j
       /\ \A j \in 1..n : \A x \in found : better(x, l[j]) => \E i \in 1..(j - 1) : l[i] = x
       /\ n = 0 => found = {} /\ l = <<>>
  BY <1>11, <1>12 DEF InOrder
<1>14. ASSUME NEW j \in 1..n, NEW x \in activeOrders(os) \ {taker.id}, isBefore(os[x], l[j])
       PROVE  \E i \in 1..(j - 1) : l[i].id = x
  <2>1. x \in OrderIds /\ os[x].price \in Nat /\ os[x].id = x
    BY <1>4 DEF activeOrders
  <2>2. l[j] \in found /\ l[j].price \in Nat /\ l[j].id \in ids /\ l[j] = os[l[j].id]
        /\ l[j].side = oppositeSide(taker.side)
    BY <1>6, <1>13
  <2>3. reaches(taker, l[j])
    BY <2>2 DEF facing
  <2>4. os[x].side = l[j].side
    BY <1>14 DEF isBefore
  <2>5. reaches(taker, os[x]) /\ better(os[x], l[j])
    <3>1. CASE taker.side = "buy"
      <4>1. l[j].side = "sell"
        BY <2>2, <3>1 DEF oppositeSide
      <4> QED  BY <1>14, <2>1, <2>2, <2>3, <2>4, <3>1, <4>1 DEF isBefore, better, reaches
    <3>2. CASE taker.side = "sell"
      <4>1. l[j].side = "buy"
        BY <2>2, <3>2 DEF oppositeSide
      <4> QED  BY <1>14, <2>1, <2>2, <2>3, <2>4, <3>2, <4>1 DEF isBefore, better, reaches
    <3> QED  BY <3>1, <3>2 DEF Sides
  <2>6. x \in ids
    BY <2>2, <2>4, <2>5 DEF facing
  <2>7. os[x] \in found
    BY <1>8, <2>6
  <2>8. PICK i \in 1..(j - 1) : l[i] = os[x]
    BY <1>13, <2>5, <2>7
  <2> QED  BY <2>1, <2>8
<1>15. \A i \in 1..n : l[i].id \in ids /\ l[i] = os[l[i].id]
  BY <1>6, <1>13
<1>16. \A i, j \in 1..n : l[i].id = l[j].id => i = j
  BY <1>13, <1>15
<1> HIDE DEF ids
<1>17. n = 0 => ids = {} /\ l = <<>>
  BY <1>10, <1>13
<1>18. Queue(os, taker, l, n)
  BY <1>13, <1>14, <1>15, <1>16, <1>17 DEF Queue, ids
<1> QED  BY <1>7, <1>12, <1>18

-----------------------------------------------------------------------------
(* MatchLimit on a queue.                                                  *)

\* The makers of d, the first i of which the loop has seen, are filled in their order:
\* all but the last of those filled, and this one too unless the taker is, are used up.
FilledInOrder(d, i, r) ==
    /\ d.taker.remaining > 0
    /\ Len(r.makers) <= i
    /\ \A j \in 1..Len(r.makers) :
          /\ r.makers[j].id = d.makers[j].id
          /\ r.makers[j].status \in {"partially_filled", "filled"}
    /\ \A j \in 1..Len(r.makers) :
          j < Len(r.makers) \/ r.taker.remaining # 0 => r.makers[j].remaining = 0
    /\ r.trades = <<>> <=> Len(r.makers) = 0
    /\ Len(r.makers) = 0 => r.taker.remaining = d.taker.remaining
    /\ r.halted => r.taker.status = "expired"
    /\ ~r.halted /\ r.taker.remaining # 0 => Len(r.makers) = i

\* A call with makers that the taker's price reaches.
Reached(d) ==
    /\ d.n \in Nat
    /\ d.taker \in Order /\ d.taker.status # "none"
    /\ \A i \in 1..d.n :
          /\ d.makers[i] \in Order /\ d.makers[i].status # "none"
          /\ crossesPrice(d.taker, d.makers[i])

\* Taking from an order what it has at least.
LEMMA FillRemains ==
    ASSUME NEW o \in Order, NEW qty \in Nat, qty <= o.remaining
    PROVE  /\ filledBy(o, qty).remaining = o.remaining - qty
           /\ filledBy(o, qty).status \in {"partially_filled", "filled"}
<1>1. PICK left \in Nat : left = SubFloorZero(o.remaining, qty) /\ left = o.remaining - qty
  BY DEF SubFloorZero, Order
<1>2. PICK st : st = statusForRemaining(left) /\ st \in {"partially_filled", "filled"}
  BY DEF statusForRemaining
<1>3. PICK sum : sum = o.filled + qty
  OBVIOUS
<1>4. filledBy(o, qty) = [o EXCEPT !.filled = sum, !.remaining = left, !.status = st]
  BY <1>1, <1>2, <1>3 DEF filledBy
<1> QED  BY <1>1, <1>2, <1>4 DEF Order

\* One iteration of the loop.
LEMMA FillStep ==
    ASSUME NEW d, Reached(d), NEW i \in 1..d.n, NEW r, MatchSound(d, r),
           FilledInOrder(d, i - 1, r), NEW g, g = makerStep(d, r, d.makers[i])
    PROVE  g.err \/ FilledInOrder(d, i, g)
<1>1. PICK maker \in Order : maker = d.makers[i] /\ crossesPrice(d.taker, maker)
  BY DEF Reached
<1>2. PICK t \in Order : t = r.taker
  BY DEF MatchSound
<1>3. crossesPrice(t, maker) /\ maker.remaining \in Nat /\ t.remaining \in Nat /\ maker.remaining > 0
  <2>1. t.id = d.taker.id /\ t.side = d.taker.side /\ t.price = d.taker.price
    BY <1>2 DEF MatchSound, SameOrder
  <2> QED  BY <1>1, <2>1 DEF crossesPrice, Order
<1>4. PICK ms, ts : ms = r.makers /\ ts = r.trades
  OBVIOUS
<1>5. /\ ms \in Seq(laterMakers(d)) /\ ts \in Seq(tradesAmong(d)) /\ i \in Nat /\ i >= 1
      /\ r = [taker |-> t, makers |-> ms, trades |-> ts, halted |-> r.halted, err |-> r.err]
  BY <1>2, <1>4 DEF MatchSound, Reached
<1>6. PICK k \in Nat : k = Len(ms)
  BY <1>5
<1>7. /\ d.taker.remaining > 0 /\ k <= i - 1
      /\ \A j \in 1..k : /\ ms[j].id = d.makers[j].id
                          /\ ms[j].status \in {"partially_filled", "filled"}
      /\ \A j \in 1..k : j < k \/ t.remaining # 0 => ms[j].remaining = 0
      /\ ts = <<>> <=> k = 0
      /\ k = 0 => t.remaining = d.taker.remaining
      /\ r.halted => t.status = "expired"
      /\ ~r.halted /\ t.remaining # 0 => k = i - 1
  BY <1>2, <1>4, <1>6 DEF FilledInOrder
<1>8. g = matchMaker(r, maker)
  BY <1>1 DEF makerStep
<1>9. CASE r.err \/ r.halted \/ t.remaining <= 0
  <2>1. g = r
    BY <1>2, <1>8, <1>9 DEF matchMaker
  <2>2. r.err \/ FilledInOrder(d, i, r)
    BY <1>2, <1>3, <1>4, <1>5, <1>6, <1>7, <1>9 DEF FilledInOrder
  <2> QED  BY <2>1, <2>2
<1>10. CASE ~(r.err \/ r.halted \/ t.remaining <= 0) /\ eligibleMaker(t, maker)
  <2>1. k = i - 1 /\ \A j \in 1..k : ms[j].remaining = 0
    BY <1>3, <1>7, <1>10
  <2>2. PICK qty \in Nat : /\ qty = IF t.remaining <= maker.remaining THEN t.remaining ELSE maker.remaining
                           /\ qty <= t.remaining /\ qty <= maker.remaining
    BY <1>3
  <2>3. PICK quote \in Nat : quote = Mul(qty, maker.price)
    BY <2>2, MulType DEF Order
  <2>4. PICK trade : trade = [maker |-> maker.id, taker |-> t.id,
                              price |-> maker.price, qty |-> qty, quote |-> quote]
    OBVIOUS
  <2>5. PICK t1 : t1 = filledBy(t, qty)
    OBVIOUS
  <2>6. PICK m1 : m1 = filledBy(maker, qty)
    OBVIOUS
  <2>7. t1.remaining = t.remaining - qty /\ m1.remaining = maker.remaining - qty /\ m1.id = maker.id
        /\ m1.status \in {"partially_filled", "filled"}
    <3>1. SameOrder(maker, m1)
      BY <1>1, <2>2, <2>6, FilledBy DEF Reached
    <3> QED  BY <1>2, <2>2, <2>5, <2>6, <3>1, FillRemains DEF SameOrder
  <2>8. t1.remaining # 0 => m1.remaining = 0
    BY <1>3, <2>2, <2>7
  <2>9. PICK yes : yes = TRUE
    BY Zenon
  <2>10. PICK h : h = [r EXCEPT !.taker = t1, !.makers = Append(@, m1), !.trades = Append(@, trade)]
    OBVIOUS
  <2>11. g = IF quote <= 0 THEN [r EXCEPT !.err = yes] ELSE h
    BY <1>2, <1>8, <1>10, <2>2, <2>3, <2>4, <2>5, <2>6, <2>9, <2>10 DEF matchMaker, tradeWith
  <2>12. [r EXCEPT !.err = yes].err
    <3>1. [r EXCEPT !.err = yes].err = yes
      BY <1>5
    <3> QED  BY <2>9, <3>1
  <2>13. PICK ns, us : ns = Append(ms, m1) /\ us = Append(ts, trade)
    OBVIOUS
  <2>14. h.taker = t1 /\ h.makers = ns /\ h.trades = us /\ h.halted = r.halted
    BY <1>4, <1>5, <2>10, <2>13
  <2>15. Len(ns) = i /\ us # <<>> /\ \A j \in 1..i : ns[j] = IF j = i THEN m1 ELSE ms[j]
    <3>1. PICK S, T : S = laterMakers(d) \cup {m1} /\ T = tradesAmong(d) \cup {trade}
      OBVIOUS
    <3>2. ms \in Seq(S) /\ ts \in Seq(T) /\ m1 \in S /\ trade \in T
      BY <1>5, <3>1
    <3>3. Len(ns) = i
      <4>1. Len(ns) = Len(ms) + 1
        BY <2>13, <3>2
      <4>2. PICK j \in Nat : j = i
        BY <1>5
      <4>3. Len(ms) = j - 1
        BY <1>6, <2>1, <4>2
      <4> QED  BY <4>1, <4>2, <4>3
    <3>4. us # <<>>
      <4>1. PICK tn \in Nat : tn = Len(ts)
        BY <3>2
      <4>2. Len(us) = tn + 1
        BY <2>13, <3>2, <4>1
      <4>3. Len(<<>>) = 0 /\ tn + 1 # 0
        BY <4>1
      <4> QED  BY <4>2, <4>3
    <3>5. ASSUME NEW j \in 1..i
          PROVE  ns[j] = IF j = i THEN m1 ELSE ms[j]
      <4>1. i = Len(ms) + 1
        BY <1>5, <1>6, <2>1
      <4>2. j # i => j \in 1..Len(ms)
        BY <1>5, <4>1
      <4> QED  BY <2>13, <3>2, <4>1, <4>2
    <3> QED  BY <3>3, <3>4, <3>5
  <2>16. \A j \in 1..i : ns[j].id = d.makers[j].id /\ ns[j].status \in {"partially_filled", "filled"}
    BY <1>1, <1>5, <1>7, <2>1, <2>7, <2>15
  <2>17. \A j \in 1..i : j < i \/ t1.remaining # 0 => ns[j].remaining = 0
    BY <1>5, <2>1, <2>8, <2>15
  <2>18. FilledInOrder(d, i, h)
    BY <1>5, <1>7, <1>10, <2>14, <2>15, <2>16, <2>17 DEF FilledInOrder
  <2> QED  BY <2>11, <2>12, <2>18
<1>11. CASE ~(r.err \/ r.halted \/ t.remaining <= 0) /\ ~eligibleMaker(t, maker)
  <2>1. k = i - 1 /\ \A j \in 1..k : ms[j].remaining = 0
    BY <1>3, <1>7, <1>11
  <2>2. isSelfTrade(t, maker)
    BY <1>3, <1>11 DEF eligibleMaker
  <2>3. PICK yes : yes = TRUE
    BY Zenon
  <2>4. g = [r EXCEPT !.taker.status = "expired", !.halted = yes]
    BY <1>2, <1>3, <1>8, <1>11, <2>2, <2>3 DEF matchMaker
  <2>5. PICK t1 : t1 = [t EXCEPT !.status = "expired"]
    OBVIOUS
  <2>6. t1.status = "expired" /\ t1.remaining = t.remaining
    BY <2>5 DEF Order
  <2>7. g = [taker |-> t1, makers |-> r.makers, trades |-> r.trades, halted |-> yes, err |-> r.err]
    <3>1. PICK h : h = [r EXCEPT !.taker = t1, !.halted = yes]
      OBVIOUS
    <3>2. g = h
      BY <1>2, <1>5, <2>4, <2>5, <3>1
    <3> QED  BY <3>1, <3>2 DEF MatchSound
  <2>8. g.taker = t1 /\ g.makers = ms /\ g.trades = ts /\ g.halted
    BY <1>4, <2>3, <2>7
  <2> QED  BY <1>5, <1>6, <1>7, <2>1, <2>6, <2>8 DEF FilledInOrder
<1> QED  BY <1>9, <1>10, <1>11

\* The whole of MatchLimit.
LEMMA MatchLimitFills ==
    ASSUME NEW d, Reached(d), DOMAIN d.makers = 1..d.n, d.taker.remaining > 0,
           NEW result, result = MatchLimit(d.taker, d.makers)
    PROVE  MatchSound(d, result) /\ (result.err \/ FilledInOrder(d, d.n, result))
<1>1. PICK taker \in Order : taker = d.taker /\ taker.status # "none" /\ taker.remaining > 0
  BY DEF Reached
<1>2. PICK n \in Nat : n = d.n
  BY DEF Reached
<1>3. PICK makers : makers = d.makers /\ DOMAIN makers = 1..n
  BY <1>2
<1>4. \A i \in 1..n : makers[i] \in Order /\ makers[i].status # "none"
  BY <1>2, <1>3 DEF Reached
<1>5. PICK err : err = ~validTaker(taker)
  BY Zenon
<1>6. PICK no : no = FALSE
  BY Zenon
<1>7. PICK start : start = [taker |-> taker, makers |-> <<>>, trades |-> <<>>, halted |-> no, err |-> err]
  OBVIOUS
<1>8. MatchSound(d, start)
  <2>1. start.taker = taker /\ start.makers = <<>> /\ start.trades = <<>>
    BY <1>7
  <2>2. <<>> \in Seq(laterMakers(d)) /\ <<>> \in Seq(tradesAmong(d))
    OBVIOUS
  <2>3. start = [taker |-> start.taker, makers |-> start.makers, trades |-> start.trades,
                 halted |-> start.halted, err |-> start.err]
    BY <1>7
  <2> QED  BY <1>1, <2>1, <2>2, <2>3, SameOrderTrans DEF MatchSound
<1>9. FilledInOrder(d, 0, start)
  <2>1. start.taker = taker /\ start.makers = <<>> /\ start.trades = <<>> /\ ~start.halted
    BY <1>6, <1>7
  <2>2. Len(<<>>) = 0 /\ 1..0 = {}
    OBVIOUS
  <2> QED  BY <1>1, <2>1, <2>2 DEF FilledInOrder
<1>10. PICK acc : Makers!AreValues(acc, d, start, makers, n)
  BY <1>3, Makers!FoldLeftSteps
<1> DEFINE K == {i \in 0..n : MatchSound(d, acc[i]) /\ (acc[i].err \/ FilledInOrder(d, i, acc[i]))}
<1>11. 0 \in K
  <2>1. acc[0] = start
    BY <1>10 DEF Makers!AreValues
  <2> QED  BY <1>8, <1>9, <2>1
<1>12. ASSUME NEW i \in 1..n, i - 1 \in K PROVE i \in K
  <2>1. PICK r : r = acc[i - 1]
    OBVIOUS
  <2>2. MatchSound(d, r) /\ (r.err \/ FilledInOrder(d, i - 1, r))
    BY <1>12, <2>1
  <2>3. PICK g : g = makerStep(d, r, makers[i])
    OBVIOUS
  <2>4. acc[i] = g
    BY <1>10, <2>1, <2>3 DEF Makers!AreValues
  <2>5. MatchSound(d, g)
    BY <1>1, <1>2, <1>3, <1>4, <2>2, <2>3, MakerStep
  <2>6. g.err \/ FilledInOrder(d, i, g)
    <3>1. CASE FilledInOrder(d, i - 1, r)
      BY <1>2, <1>3, <2>2, <2>3, <3>1, FillStep
    <3>2. CASE r.err
      BY <2>3, <3>2 DEF makerStep, matchMaker
    <3> QED  BY <2>2, <3>1, <3>2
  <2> QED  BY <2>4, <2>5, <2>6
<1>13. n \in K
  <2> HIDE DEF K
  <2> QED  BY <1>11, <1>12, Makers!CountTo
<1>14. PICK r : r = FoldLeft(matchMaker, start, makers)
  OBVIOUS
<1>15. r = Makers!FoldFrom(d, start, makers)
  BY <1>14 DEF Makers!FoldFrom, Makers!FoldLeft, Makers!MapThenFoldSet, Makers!Max,
     FoldLeft, MapThenFoldSet, Max, makerStep
<1>16. MatchSound(d, r) /\ (r.err \/ FilledInOrder(d, n, r))
  BY <1>10, <1>13, <1>15 DEF Makers!AreValues
<1>17. PICK t \in Order : t = r.taker
  BY <1>16 DEF MatchSound
<1>18. PICK t1 : t1 = restingTaker(t)
  OBVIOUS
<1>19. t1.remaining = t.remaining /\ (t.status = "expired" => t1.status = "expired")
  BY <1>18 DEF restingTaker, Order
<1>20. result = [r EXCEPT !.taker = t1]
  <2>1. result = MatchLimit(taker, makers)
    BY <1>1, <1>3
  <2> QED  BY <1>5, <1>6, <1>7, <1>14, <1>17, <1>18, <2>1 DEF MatchLimit
<1>21. result = [taker |-> t1, makers |-> r.makers, trades |-> r.trades,
                 halted |-> r.halted, err |-> r.err]
  BY <1>16, <1>20 DEF MatchSound
<1>22. MatchSound(d, result)
  <2>1. PICK d2 : d2 = [taker |-> taker, makers |-> makers, n |-> n]
    OBVIOUS
  <2>2. MatchSound(d2, MatchLimit(taker, makers))
    BY <1>1, <1>3, <1>4, <2>1, MatchLimitSound
  <2>3. d2.taker = d.taker /\ d2.makers = d.makers /\ d2.n = d.n
    BY <1>1, <1>2, <1>3, <2>1
  <2> QED  BY <1>1, <1>3, <2>2, <2>3 DEF MatchSound, laterMakers, tradesAmong
<1>23. r.err \/ FilledInOrder(d, n, result)
  <2>1. PICK ms, ts, h : ms = r.makers /\ ts = r.trades /\ h = r.halted
    OBVIOUS
  <2>2. result.taker = t1 /\ result.makers = ms /\ result.trades = ts /\ result.halted = h
    BY <1>21, <2>1
  <2>3. t1.remaining = r.taker.remaining /\ (r.taker.status = "expired" => t1.status = "expired")
    BY <1>17, <1>19
  <2> QED  BY <1>16, <2>1, <2>2, <2>3 DEF FilledInOrder
<1> QED  BY <1>2, <1>21, <1>22, <1>23

\* The first i of these orders have been saved, and nothing else.
Written(f, ms, i, g) ==
    /\ Saved(f, g)
    /\ \A j \in 1..i : g.orders[ms[j].id] = ms[j]
    /\ \A o \in OrderIds : (\A j \in 1..i : ms[j].id # o) => g.orders[o] = f.orders[o]

\* An order saved with its level noted is all that changes in the table.
LEMMA SaveMaker ==
    ASSUME NEW x, Copy(x), NEW o \in Order, NEW y, y = touch(x, o), NEW g, g = SaveOrder(y, o)
    PROVE  g.orders[o.id] = o /\ \A z \in OrderIds \ {o.id} : g.orders[z] = x.orders[z]
<1>1. Copy(y) /\ y.orders = x.orders
  BY TouchAdvances DEF Advances
<1>2. /\ Copy(g)
      /\ g.orders[o.id] = o
      /\ \A z \in OrderIds \ {o.id} : g.orders[z] = y.orders[z]
      /\ g.ok = y.ok /\ g.bal = y.bal /\ g.res = y.res
      /\ g.levels = y.levels /\ g.touched = y.touched
  BY <1>1, SaveWrites
<1> QED  BY <1>1, <1>2

\* The makers of a round are different orders, so none is saved over another.
LEMMA SaveWritesAll ==
    ASSUME NEW f, Copy(f), NEW S,
           \A o \in S : o \in Order /\ SameOrder(f.orders[o.id], o),
           NEW ms \in Seq(S), NEW k \in Nat, k = Len(ms),
           \A i, j \in 1..k : ms[i].id = ms[j].id => i = j
    PROVE  Written(f, ms, k, FoldLeft(LAMBDA x, o : SaveOrder(touch(x, o), o), f, ms))
<1>1. DOMAIN ms = 1..k /\ \A i \in 1..k : ms[i] \in S
  OBVIOUS
<1>2. PICK acc : Saves!AreValues(acc, f, f, ms, k)
  BY <1>1, Saves!FoldLeftSteps
<1> DEFINE K == {i \in 0..k : Written(f, ms, i, acc[i])}
<1>3. 0 \in K
  <2>1. acc[0] = f
    BY <1>2 DEF Saves!AreValues
  <2>2. Saved(f, f)
    BY SavedTrans
  <2> QED  BY <2>1, <2>2 DEF Written
<1>4. ASSUME NEW i \in 1..k, i - 1 \in K PROVE i \in K
  <2>1. PICK x : x = acc[i - 1]
    OBVIOUS
  <2>2. Written(f, ms, i - 1, x) /\ Copy(x)
    BY <1>4, <2>1 DEF Written, Saved, Advances
  <2>3. PICK o : o = ms[i]
    OBVIOUS
  <2>4. o \in Order /\ SameOrder(f.orders[o.id], o) /\ o.id \in OrderIds
    BY <1>1, <2>3 DEF Order
  <2>5. PICK y : y = touch(x, o)
    OBVIOUS
  <2>6. Saved(x, y) /\ levelKey(o) \in y.touched /\ y.orders = x.orders /\ Copy(y)
    BY <2>2, <2>5, TouchAdvances DEF Saved, Advances
  <2>7. SameOrder(y.orders[o.id], o)
    <3>1. SameOrder(f.orders[o.id], x.orders[o.id])
      BY <2>2, <2>4 DEF Written, Saved, Advances
    <3> QED  BY <2>4, <2>6, <3>1, SameOrderTrans
  <2>8. PICK g : g = SaveOrder(y, o)
    OBVIOUS
  <2>9. Saved(y, g)
    BY <2>4, <2>6, <2>7, <2>8, SaveAdvances DEF Saved
  <2>10. Saved(f, g)
    BY <2>2, <2>6, <2>9, SavedTrans DEF Written
  <2>11. g.orders[o.id] = o /\ \A z \in OrderIds \ {o.id} : g.orders[z] = x.orders[z]
    BY <2>2, <2>4, <2>5, <2>8, SaveMaker
  <2>12. acc[i] = g
    BY <1>2, <2>1, <2>3, <2>5, <2>8 DEF Saves!AreValues, saveStep
  <2>13. ASSUME NEW j \in 1..i PROVE g.orders[ms[j].id] = ms[j]
    <3>1. CASE j = i
      BY <2>3, <2>11, <3>1
    <3>2. CASE j # i
      <4>1. j \in 1..(i - 1) /\ j \in 1..k
        BY <3>2
      <4>2. ms[j].id # o.id
        BY <2>3, <3>2, <4>1
      <4>3. ms[j].id \in OrderIds
        BY <1>1, <4>1 DEF Order
      <4>4. x.orders[ms[j].id] = ms[j]
        BY <2>2, <4>1 DEF Written
      <4> QED  BY <2>11, <4>2, <4>3, <4>4
    <3> QED  BY <3>1, <3>2
  <2>14. ASSUME NEW z \in OrderIds, \A j \in 1..i : ms[j].id # z
         PROVE  g.orders[z] = f.orders[z]
    <3>1. z # o.id /\ \A j \in 1..(i - 1) : ms[j].id # z
      BY <2>3, <2>14
    <3> QED  BY <2>2, <2>11, <3>1 DEF Written
  <2> QED  BY <2>10, <2>12, <2>13, <2>14 DEF Written
<1>5. k \in K
  <2> HIDE DEF K
  <2> QED  BY <1>3, <1>4, Saves!CountTo
<1>6. FoldLeft(LAMBDA x, o : SaveOrder(touch(x, o), o), f, ms) = Saves!FoldFrom(f, f, ms)
  BY DEF Saves!FoldFrom, Saves!FoldLeft, Saves!MapThenFoldSet, Saves!Max,
     FoldLeft, MapThenFoldSet, Max, saveStep
<1> QED  BY <1>2, <1>5, <1>6 DEF Saves!AreValues

-----------------------------------------------------------------------------
(* One round, and all rounds, of a match.                                  *)

\* From the table os to the table ps, the taker T has met makers: only orders of the book
\* are filled, and each only when those before it have left the book.
Fills(os, ps, T) ==
    /\ \A o \in OrderIds :
          \/ ps[o] = os[o]
          \/ /\ o \in activeOrders(os) \ {T}
             /\ SameOrder(os[o], ps[o])
             /\ ps[o].status \in {"partially_filled", "filled"}
    /\ \A o \in OrderIds : ps[o] # os[o] =>
          \A x \in activeOrders(os) \ {T} : isBefore(os[x], os[o]) => x \notin activeOrders(ps)

\* No order enters the book, and none becomes another.
LEMMA FillsShrink ==
    ASSUME NEW os, NEW ps, NEW T, Fills(os, ps, T)
    PROVE  /\ activeOrders(ps) \subseteq activeOrders(os)
           /\ \A o \in OrderIds : SameOrder(os[o], ps[o])
           /\ T \in OrderIds => ps[T] = os[T]
<1>1. \A o \in OrderIds : ps[o] = os[o] \/ o \in activeOrders(os) \ {T}
  BY DEF Fills
<1>2. activeOrders(ps) \subseteq activeOrders(os)
  BY <1>1 DEF activeOrders
<1>3. \A o \in OrderIds : SameOrder(os[o], ps[o])
  BY SameOrderTrans DEF Fills
<1> QED  BY <1>1, <1>2, <1>3

\* One round after the other.
LEMMA FillsTrans ==
    ASSUME NEW os, NEW ps, NEW qs, NEW T, Fills(os, ps, T), Fills(ps, qs, T)
    PROVE  Fills(os, qs, T)
<1>1. /\ activeOrders(ps) \subseteq activeOrders(os) /\ activeOrders(qs) \subseteq activeOrders(ps)
      /\ \A o \in OrderIds : SameOrder(os[o], ps[o])
      /\ \A o \in OrderIds : SameOrder(ps[o], qs[o])
  BY FillsShrink
<1>2. ASSUME NEW o \in OrderIds, qs[o] # os[o]
      PROVE  /\ o \in activeOrders(os) \ {T}
             /\ SameOrder(os[o], qs[o])
             /\ qs[o].status \in {"partially_filled", "filled"}
  <2>1. SameOrder(os[o], qs[o])
    BY <1>1, SameOrderTrans
  <2>2. CASE qs[o] = ps[o]
    BY <1>2, <2>1, <2>2 DEF Fills
  <2>3. CASE qs[o] # ps[o]
    BY <1>1, <2>1, <2>3 DEF Fills
  <2> QED  BY <2>2, <2>3
<1>3. ASSUME NEW o \in OrderIds, qs[o] # os[o], NEW x \in activeOrders(os) \ {T},
             isBefore(os[x], os[o])
      PROVE  x \notin activeOrders(qs)
  <2>1. x \in OrderIds
    BY DEF activeOrders
  <2>2. isBefore(ps[x], ps[o])
    BY <1>1, <1>3, <2>1 DEF isBefore, SameOrder
  <2>3. CASE x \notin activeOrders(ps)
    BY <1>1, <2>3
  <2>4. CASE x \in activeOrders(ps) /\ qs[o] # ps[o]
    BY <2>2, <2>4 DEF Fills
  <2>5. CASE x \in activeOrders(ps) /\ qs[o] = ps[o]
    BY <1>3, <2>5 DEF Fills
  <2> QED  BY <2>3, <2>4, <2>5
<1> QED  BY <1>2, <1>3 DEF Fills

\* An order of which nothing is left is not in the book.
LEMMA UsedUp ==
    ASSUME NEW os, NEW o, os[o].remaining = 0
    PROVE  o \notin activeOrders(os)
BY OrdersAssumption DEF activeOrders, isBookableOrder

\* A round of the match m with the result e has met makers in order.  It is the last one
\* only if the taker expired or faces nobody any more; otherwise the taker is filled or
\* an order it faced is used up.
RoundFills(m, e) ==
    /\ Fills(m.f.orders, e.f.orders, m.taker.id)
    /\ e.done => \/ e.taker.status = "expired"
                 \/ facing(e.f.orders, effectiveMatchTaker(m.taker)) = {}
    /\ \/ e.done
       \/ e.taker.remaining = 0
       \/ \E x \in facing(m.f.orders, effectiveMatchTaker(m.taker)) : x \notin activeOrders(e.f.orders)

\* One round fills makers in order, and if it trades it uses up an order: the taker or
\* one that the taker faces.
LEMMA RoundFillsInOrder ==
    ASSUME NEW d, d.taker.status # "none", NEW m, RoundSound(d, m), ~m.done, m.f.ok,
           m.taker.remaining > 0, NEW e, e = matchRound(m), e.f.ok
    PROVE  RoundFills(m, e)
<1>1. PICK t \in Order : t = m.taker /\ t.status # "none" /\ t.remaining > 0
  BY DEF RoundSound, SameOrder
<1>2. PICK eff \in Order : /\ eff = effectiveMatchTaker(t) /\ eff.id = t.id /\ eff.side = t.side
                           /\ eff.status # "none" /\ eff.remaining = t.remaining
                           /\ eff.side \in Sides /\ eff.price \in Nat
  <2>1. effectiveMatchTaker(t).remaining = t.remaining
    BY DEF effectiveMatchTaker, Order
  <2> QED  BY <1>1, <2>1, EffectiveTaker DEF Order
<1>3. PICK os : os = m.f.orders /\ OrderBook(os)
  BY DEF RoundSound, Saved, Advances, Copy
<1>4. Copy(m.f)
  BY DEF RoundSound, Saved, Advances
<1>5. PICK makers : makers = ListMatchCandidates(os, eff)
  OBVIOUS
<1>6. PICK n \in Nat : Queue(os, eff, makers, n)
  BY <1>2, <1>3, <1>5, CandidatesInOrder
<1>7. e = matchAgainst(m, eff, makers)
  <2>1. ~(m.done \/ ~m.f.ok \/ m.taker.remaining <= 0)
    BY <1>1 DEF Order
  <2>2. e = matchAgainst(m, effectiveMatchTaker(m.taker),
                         ListMatchCandidates(m.f.orders, effectiveMatchTaker(m.taker)))
    BY <2>1, Zenon DEF matchRound
  <2> QED  BY <1>1, <1>2, <1>3, <1>5, <2>2
<1>8. CASE makers = <<>>
  <2>1. PICK yes : yes = TRUE
    BY Zenon
  <2>2. e = [m EXCEPT !.done = yes]
    BY <1>7, <1>8, <2>1 DEF matchAgainst
  <2>3. e.f = m.f /\ e.done
    BY <2>1, <2>2 DEF RoundSound
  <2>4. n = 0
    BY <1>6, <1>8 DEF Queue
  <2>5. facing(os, eff) = {}
    BY <1>6, <2>4 DEF Queue
  <2>6. Fills(os, os, m.taker.id)
    BY DEF Fills
  <2> QED  BY <1>1, <1>2, <1>3, <2>3, <2>5, <2>6 DEF RoundFills
<1>9. CASE makers # <<>>
  <2>1. PICK d2 : d2 = [taker |-> eff, makers |-> makers, n |-> n]
    OBVIOUS
  <2>2. d2.taker = eff /\ d2.makers = makers /\ d2.n = n
    BY <2>1
  <2>3. DOMAIN makers = 1..n /\ \A i \in 1..n : /\ makers[i].id \in facing(os, eff)
                                                /\ makers[i] = os[makers[i].id]
    BY <1>6 DEF Queue
  <2>4. ASSUME NEW i \in 1..n
        PROVE  /\ makers[i] \in Order /\ makers[i].status # "none"
               /\ makers[i].id \in OrderIds \ {eff.id}
               /\ crossesPrice(eff, makers[i])
    <3>1. PICK o : o = makers[i].id
      OBVIOUS
    <3>2. /\ o \in OrderIds /\ o # eff.id /\ makers[i] = os[o] /\ isBookableOrder(os[o])
          /\ os[o].side = oppositeSide(eff.side) /\ reaches(eff, os[o])
      BY <2>3, <3>1 DEF facing, activeOrders
    <3>3. os[o] \in Order
      BY <1>3, <3>2 DEF OrderBook
    <3>4. os[o].remaining > 0 /\ os[o].status \in OpenStatuses
      BY <3>2, <3>3, OrdersAssumption DEF isBookableOrder, Order
    <3>5. os[o].side # eff.side
      BY <1>2, <3>2 DEF oppositeSide, Sides
    <3> QED  BY <3>1, <3>2, <3>3, <3>4, <3>5 DEF crossesPrice, reaches, OpenStatuses
  <2>5. Reached(d2)
    BY <1>2, <2>2, <2>4 DEF Reached
  <2>6. PICK r : r = MatchLimit(eff, makers)
    OBVIOUS
  <2>7. MatchSound(d2, r) /\ (r.err \/ FilledInOrder(d2, n, r))
    BY <1>1, <1>2, <2>2, <2>3, <2>5, <2>6, MatchLimitFills
  <2>8. e = applyRound(m, r)
    BY <1>7, <1>9, <2>6 DEF matchAgainst
  <2>9. ~r.err
    <3> SUFFICES ASSUME r.err PROVE FALSE
      OBVIOUS
    <3>1. e = [m EXCEPT !.f = Fail(@)]
      BY <2>8 DEF applyRound
    <3>2. PICK g : g = Fail(m.f)
      OBVIOUS
    <3>3. e.f = g
      BY <3>1, <3>2 DEF RoundSound
    <3>4. ~g.ok
      BY <1>4, <3>2 DEF Fail, Copy
    <3> QED  BY <3>3, <3>4
  <2> DEFINE sv == FoldLeft(LAMBDA f, o : SaveOrder(touch(f, o), o), m.f, r.makers)
  <2>10. PICK g : g = sv
    OBVIOUS
  <2>11. PICK t1 : t1 = IF r.trades # <<>> \/ r.taker.status = "expired"
                        THEN [r.taker EXCEPT !.price = m.taker.price] ELSE m.taker
    OBVIOUS
  <2>12. PICK over : over = (r.trades = <<>>)
    BY Zenon
  <2>13. e = [f |-> g, taker |-> t1, trades |-> m.trades \o r.trades, done |-> over]
    BY <2>8, <2>9, <2>10, <2>11, <2>12, Zenon DEF applyRound
  <2>14. e.f = g /\ e.taker = t1 /\ e.done = over
    BY <2>13
  <2> HIDE DEF sv
  <2>15. PICK ms, k : ms = r.makers /\ k = Len(ms) /\ ms \in Seq(laterMakers(d2)) /\ k \in Nat
    BY <2>7 DEF MatchSound
  <2>16. /\ k <= n
         /\ \A j \in 1..k : /\ ms[j].id = makers[j].id
                            /\ ms[j].status \in {"partially_filled", "filled"}
         /\ \A j \in 1..k : j < k \/ r.taker.remaining # 0 => ms[j].remaining = 0
         /\ r.trades = <<>> <=> k = 0
         /\ k = 0 => r.taker.remaining = eff.remaining
         /\ r.halted => r.taker.status = "expired"
         /\ ~r.halted /\ r.taker.remaining # 0 => k = n
    BY <2>2, <2>7, <2>9, <2>15 DEF FilledInOrder
  <2>17. Written(m.f, ms, k, g)
    <3>1. PICK S : S = laterMakers(d2)
      OBVIOUS
    <3>2. ASSUME NEW o \in S PROVE o \in Order /\ SameOrder(m.f.orders[o.id], o)
      <4>1. o \in Order
        BY <3>1 DEF laterMakers
      <4>2. PICK i \in 1..n : SameOrder(makers[i], o)
        BY <2>2, <3>1 DEF laterMakers
      <4>3. o.id = makers[i].id
        BY <4>2 DEF SameOrder
      <4> QED  BY <1>3, <2>3, <4>1, <4>2, <4>3
    <3>3. \A i, j \in 1..k : ms[i].id = ms[j].id => i = j
      <4>1. \A i \in 1..k : i \in 1..n
        BY <2>15, <2>16
      <4>2. \A i, j \in 1..n : makers[i].id = makers[j].id => i = j
        BY <1>6 DEF Queue
      <4> QED  BY <2>16, <4>1, <4>2
    <3>4. ms \in Seq(S)
      BY <2>15, <3>1
    <3>5. Written(m.f, ms, k, FoldLeft(LAMBDA x, o : SaveOrder(touch(x, o), o), m.f, ms))
      BY <1>4, <2>15, <3>2, <3>3, <3>4, SaveWritesAll
    <3> QED  BY <2>10, <2>15, <3>5 DEF sv
  <2>18. PICK ps : ps = g.orders
    OBVIOUS
  <2>19. \A j \in 1..k : j \in 1..n /\ ps[makers[j].id] = ms[j] /\ ms[j] \in Order
                        /\ SameOrder(os[makers[j].id], ms[j])
    <3>1. \A j \in 1..k : j \in 1..n /\ ps[makers[j].id] = ms[j] /\ ms[j] \in laterMakers(d2)
      BY <2>15, <2>16, <2>17, <2>18 DEF Written
    <3>2. ASSUME NEW j \in 1..k PROVE SameOrder(os[makers[j].id], ms[j]) /\ ms[j] \in Order
      <4>1. ms[j] \in Order
        BY <3>1 DEF laterMakers
      <4>2. PICK i \in 1..n : SameOrder(makers[i], ms[j])
        BY <2>2, <3>1 DEF laterMakers
      <4>3. makers[i].id = makers[j].id /\ makers[i] = os[makers[i].id]
        BY <2>3, <2>16, <4>2 DEF SameOrder
      <4> QED  BY <4>1, <4>2, <4>3
    <3> QED  BY <3>1, <3>2
  <2>20. \A o \in OrderIds : ps[o] # os[o] => \E j \in 1..k : makers[j].id = o
    BY <1>3, <2>16, <2>17, <2>18 DEF Written
  <2>21. Fills(os, ps, t.id)
    <3>1. ASSUME NEW o \in OrderIds, ps[o] # os[o]
          PROVE  /\ o \in activeOrders(os) \ {t.id}
                 /\ SameOrder(os[o], ps[o])
                 /\ ps[o].status \in {"partially_filled", "filled"}
      <4>1. PICK j \in 1..k : makers[j].id = o
        BY <2>20, <3>1
      <4>2. o \in facing(os, eff)
        BY <2>3, <2>19, <4>1
      <4> QED  BY <1>2, <2>16, <2>19, <4>1, <4>2 DEF facing
    <3>2. ASSUME NEW o \in OrderIds, ps[o] # os[o], NEW x \in activeOrders(os) \ {t.id},
                 isBefore(os[x], os[o])
          PROVE  x \notin activeOrders(ps)
      <4>1. PICK j \in 1..k : makers[j].id = o
        BY <2>20, <3>2
      <4>2. j \in 1..n /\ makers[j] = os[o]
        BY <2>3, <2>19, <4>1
      <4>3. PICK i \in 1..(j - 1) : makers[i].id = x
        BY <1>2, <1>6, <3>2, <4>2 DEF Queue
      <4>4. i \in 1..k /\ i < k
        BY <2>15
      <4>5. ps[x] = ms[i] /\ ms[i].remaining = 0
        BY <2>16, <2>19, <4>3, <4>4
      <4> QED  BY <4>5, UsedUp
    <3> QED  BY <3>1, <3>2 DEF Fills
  <2>22. CASE r.trades = <<>>
    <3>1. k = 0 /\ r.taker.remaining # 0
      <4>1. eff.remaining # 0
        BY <1>1, <1>2 DEF Order
      <4> QED  BY <2>16, <2>22, <4>1
    <3>2. ps = os
      <4>1. \A o \in OrderIds : ps[o] = os[o]
        BY <2>20, <3>1
      <4>2. OrderBook(ps)
        BY <2>17, <2>18 DEF Written, Saved, Advances, Copy
      <4> QED  BY <1>3, <4>1, <4>2 DEF OrderBook
    <3>3. CASE r.halted
      <4>1. r.taker.status = "expired" /\ r.taker \in Order
        BY <2>7, <2>16, <3>3 DEF MatchSound
      <4>2. t1.status = "expired"
        BY <2>11, <4>1 DEF Order
      <4> QED  BY <1>1, <1>3, <2>12, <2>14, <2>18, <2>21, <2>22, <4>2 DEF RoundFills
    <3>4. CASE ~r.halted
      <4>1. n = 0
        BY <2>16, <3>1, <3>4
      <4>2. facing(ps, eff) = {}
        BY <1>6, <3>2, <4>1 DEF Queue
      <4> QED  BY <1>1, <1>2, <1>3, <2>12, <2>14, <2>18, <2>21, <2>22, <4>2 DEF RoundFills
    <3> QED  BY <3>3, <3>4
  <2>23. CASE r.trades # <<>>
    <3>1. k \in Nat \ {0} /\ 1 \in 1..k
      BY <2>15, <2>16, <2>23
    <3>2. t1.remaining = r.taker.remaining
      <4>1. r.taker \in Order
        BY <2>7 DEF MatchSound
      <4> QED  BY <2>11, <2>23, <4>1 DEF Order
    <3>3. CASE r.taker.remaining = 0
      BY <1>1, <1>3, <2>12, <2>14, <2>18, <2>21, <2>23, <3>2, <3>3 DEF RoundFills
    <3>4. CASE r.taker.remaining # 0
      <4>1. PICK x : x = makers[1].id
        OBVIOUS
      <4>2. ps[x] = ms[1] /\ ms[1].remaining = 0 /\ x \in facing(os, eff)
        BY <2>3, <2>16, <2>19, <3>1, <3>4, <4>1
      <4>3. x \notin activeOrders(ps)
        BY <4>2, UsedUp
      <4> QED  BY <1>1, <1>2, <1>3, <2>12, <2>14, <2>18, <2>21, <2>23, <4>2, <4>3 DEF RoundFills
    <3> QED  BY <3>3, <3>4
  <2> QED  BY <2>22, <2>23
<1> QED  BY <1>8, <1>9

\* Whom a taker faces does not depend on how much of it is filled.
LEMMA SameFacing ==
    ASSUME NEW os, NEW a \in Order, NEW b \in Order, SameOrder(a, b)
    PROVE  /\ facing(os, effectiveMatchTaker(b)) = facing(os, effectiveMatchTaker(a))
           /\ facing(os, b) = facing(os, a)
           /\ a.type # "market" => effectiveMatchTaker(a) = a
<1>1. PICK x, y : x = effectiveMatchTaker(a) /\ y = effectiveMatchTaker(b)
  OBVIOUS
<1>2. x.id = y.id /\ x.side = y.side /\ x.price = y.price
  BY <1>1 DEF effectiveMatchTaker, SameOrder, Order
<1>3. facing(os, y) = facing(os, x)
  BY <1>2 DEF facing, reaches
<1>4. facing(os, b) = facing(os, a)
  BY DEF facing, reaches, SameOrder
<1>5. a.type # "market" => effectiveMatchTaker(a) = a
  BY DEF effectiveMatchTaker
<1> QED  BY <1>1, <1>3, <1>4, <1>5

\* Nothing happens in a round in which the taker faces nobody.
LEMMA FacingNobody ==
    ASSUME NEW d, NEW m, RoundSound(d, m),
           facing(m.f.orders, effectiveMatchTaker(m.taker)) = {}
    PROVE  matchRound(m).f = m.f /\ matchRound(m).taker = m.taker
<1>1. PICK eff \in Order : /\ eff = effectiveMatchTaker(m.taker)
                           /\ eff.side \in Sides /\ eff.price \in Nat
  BY EffectiveTaker DEF RoundSound, Order
<1>2. PICK os : os = m.f.orders /\ OrderBook(os)
  BY DEF RoundSound, Saved, Advances, Copy
<1>3. PICK makers : makers = ListMatchCandidates(os, eff)
  OBVIOUS
<1>4. PICK n \in Nat : Queue(os, eff, makers, n)
  BY <1>1, <1>2, <1>3, CandidatesInOrder
<1>5. n = 0
  <2> SUFFICES ASSUME n # 0 PROVE FALSE
    OBVIOUS
  <2>1. 1 \in 1..n
    OBVIOUS
  <2>2. makers[1].id \in facing(os, eff)
    BY <1>4, <2>1 DEF Queue
  <2> QED  BY <1>1, <1>2, <2>2
<1>6. makers = <<>>
  BY <1>4, <1>5 DEF Queue
<1>7. PICK yes : yes = TRUE
  BY Zenon
<1>8. PICK e : e = [m EXCEPT !.done = yes]
  OBVIOUS
<1>9. matchAgainst(m, eff, makers) = e
  BY <1>6, <1>7, <1>8, Zenon DEF matchAgainst
<1>10. matchRound(m) \in {m, matchAgainst(m, eff, makers)}
  BY <1>1, <1>2, <1>3, Zenon DEF matchRound
<1>11. e.f = m.f /\ e.taker = m.taker
  BY <1>8 DEF RoundSound
<1> QED  BY <1>9, <1>10, <1>11

\* d has the working copy and the taker at the start of the loop, m is what i rounds have
\* made of it.  Every round that is not the last has used up an order the taker faced.
AfterRounds(d, i, m) ==
    m.f.ok =>
        /\ Fills(d.f.orders, m.f.orders, d.taker.id)
        /\ m.done => \/ m.taker.status = "expired"
                     \/ facing(m.f.orders, effectiveMatchTaker(d.taker)) = {}
        /\ \/ m.done
           \/ m.taker.remaining = 0
           \/ Cardinality(facing(m.f.orders, effectiveMatchTaker(d.taker))) + i
                 <= Cardinality(facing(d.f.orders, effectiveMatchTaker(d.taker)))
        /\ facing(d.f.orders, effectiveMatchTaker(d.taker)) = {} =>
              m.f.orders = d.f.orders /\ m.taker = d.taker

\* Whom a taker faces is among the orders, so there are no more of them.
LEMMA FacingFinite ==
    ASSUME NEW os, NEW taker
    PROVE  /\ IsFiniteSet(facing(os, taker)) /\ Cardinality(facing(os, taker)) \in Nat
           /\ Cardinality(facing(os, taker)) <= MaxOrders
<1>1. PICK S \in SUBSET OrderIds : S = facing(os, taker)
  BY DEF facing, activeOrders
<1>2. IsFiniteSet(OrderIds)
  BY IdsFinite
<1>3. PICK T : T = OrderIds
  OBVIOUS
<1>4. /\ IsFiniteSet(S)
      /\ Cardinality(S) <= Cardinality(T)
  BY <1>1, <1>2, <1>3, FS_Subset
<1>5. Cardinality(S) \in Nat
  BY <1>4, FS_CardinalityType
<1>6. PICK n \in Nat : n = MaxOrders
  BY LedgerAssumption
<1>7. Cardinality(1..n) = n
  <2>1. 1 \in Int /\ n \in Int
    OBVIOUS
  <2>2. Cardinality(1..n) = IF 1 > n THEN 0 ELSE n - 1 + 1
    BY <2>1, FS_Interval
  <2> QED  BY <2>2
<1>8. T = 1..n
  BY <1>3, <1>6 DEF OrderIds
<1> QED  BY <1>1, <1>4, <1>5, <1>6, <1>7, <1>8

\* One more round.
LEMMA OneMoreRound ==
    ASSUME NEW d, d.taker \in Order, d.taker.status # "none", NEW m, RoundSound(d, m),
           NEW i \in Nat, i # 0, AfterRounds(d, i - 1, m), NEW e, e = matchRound(m)
    PROVE  AfterRounds(d, i, e)
<1>1. SUFFICES ASSUME e.f.ok PROVE AfterRounds(d, i, e)
  BY DEF AfterRounds
<1>2. PICK t \in Order : t = m.taker /\ SameOrder(d.taker, t) /\ t.remaining \in Nat
  BY DEF RoundSound, Order
<1>3. \A os : facing(os, effectiveMatchTaker(m.taker)) = facing(os, effectiveMatchTaker(d.taker))
  BY <1>2, SameFacing
<1>4. PICK eff : eff = effectiveMatchTaker(d.taker)
  OBVIOUS
<1>5. PICK start, now, next : /\ start = facing(d.f.orders, eff)
                              /\ now = facing(m.f.orders, eff)
                              /\ next = facing(e.f.orders, eff)
  OBVIOUS
<1>6. /\ Cardinality(start) \in Nat /\ Cardinality(now) \in Nat /\ Cardinality(next) \in Nat
      /\ IsFiniteSet(now)
  BY <1>5, FacingFinite
<1>7. CASE m.done \/ ~m.f.ok \/ t.remaining <= 0
  <2>1. e = m
    BY <1>2, <1>7 DEF matchRound
  <2>2. m.f.ok /\ (m.done \/ m.taker.remaining = 0)
    BY <1>1, <1>2, <1>7, <2>1
  <2> QED  BY <2>1, <2>2 DEF AfterRounds
<1>8. CASE ~(m.done \/ ~m.f.ok \/ t.remaining <= 0)
  <2>1. RoundFills(m, e)
    BY <1>1, <1>2, <1>8, RoundFillsInOrder
  <2>2. m.taker.id = d.taker.id
    BY <1>2 DEF SameOrder
  <2>3. Fills(m.f.orders, e.f.orders, d.taker.id)
    BY <2>1, <2>2 DEF RoundFills
  <2>4. Fills(d.f.orders, e.f.orders, d.taker.id)
    BY <1>8, <2>3, FillsTrans DEF AfterRounds
  <2>5. e.done => e.taker.status = "expired" \/ next = {}
    BY <1>3, <1>4, <1>5, <2>1 DEF RoundFills
  <2>6. next \subseteq now
    <3>1. /\ activeOrders(e.f.orders) \subseteq activeOrders(m.f.orders)
          /\ \A o \in OrderIds : SameOrder(m.f.orders[o], e.f.orders[o])
      BY <2>3, FillsShrink
    <3>2. activeOrders(e.f.orders) \subseteq OrderIds
      BY DEF activeOrders
    <3> QED  BY <1>5, <3>1, <3>2 DEF facing, reaches, SameOrder
  <2>7. (\E x \in now : x \notin activeOrders(e.f.orders)) => Cardinality(next) < Cardinality(now)
    <3> SUFFICES ASSUME NEW x \in now, x \notin activeOrders(e.f.orders)
                 PROVE  Cardinality(next) < Cardinality(now)
      OBVIOUS
    <3>1. x \notin next
      BY <1>5 DEF facing
    <3>2. next # now
      BY <3>1
    <3> QED  BY <1>6, <2>6, <3>2, FS_Subset
  <2>8. e.done \/ e.taker.remaining = 0 \/ Cardinality(next) + i <= Cardinality(start)
    <3>1. e.done \/ e.taker.remaining = 0 \/ \E x \in now : x \notin activeOrders(e.f.orders)
      BY <1>3, <1>4, <1>5, <2>1 DEF RoundFills
    <3>2. Cardinality(now) + (i - 1) <= Cardinality(start)
      BY <1>2, <1>4, <1>5, <1>8 DEF AfterRounds
    <3> QED  BY <1>6, <2>7, <3>1, <3>2
  <2>9. start = {} => e.f.orders = d.f.orders /\ e.taker = d.taker
    <3> SUFFICES ASSUME start = {} PROVE e.f.orders = d.f.orders /\ e.taker = d.taker
      OBVIOUS
    <3>1. m.f.orders = d.f.orders /\ m.taker = d.taker
      BY <1>4, <1>5, <1>8 DEF AfterRounds
    <3>2. facing(m.f.orders, effectiveMatchTaker(m.taker)) = {}
      BY <1>3, <1>4, <1>5, <3>1
    <3> QED  BY <3>1, <3>2, FacingNobody
  <2> QED  BY <1>4, <1>5, <2>4, <2>5, <2>8, <2>9 DEF AfterRounds
<1> QED  BY <1>7, <1>8

\* What a match leaves of the book: makers have been met in order, and what is left of the
\* taker faces nobody or does not stay.
MatchUncrosses(f, taker, m) ==
    /\ f.ok
    /\ Fills(f.orders, m.f.orders, taker.id)
    /\ isBookableOrder(m.taker) => facing(m.f.orders, m.taker) = {}
    /\ facing(f.orders, effectiveMatchTaker(taker)) = {} =>
          m.f.orders = f.orders /\ m.taker = finishTaker(taker)

\* The whole match loop: there are enough rounds, since every round but the last uses up
\* an order that the taker faces.
LEMMA MatchFills ==
    ASSUME NEW f, Copy(f), NEW taker \in Order, taker.status # "none",
           NEW r, r = match(f, taker), r.f.ok
    PROVE  MatchUncrosses(f, taker, r)
<1>1. PICK g : g = touch(f, taker)
  OBVIOUS
<1>2. Copy(g) /\ Saved(f, g) /\ g.orders = f.orders
  BY <1>1, TouchAdvances DEF Saved, Advances
<1>3. PICK d : d = [f |-> g, taker |-> taker]
  OBVIOUS
<1>4. d.f = g /\ d.taker = taker
  BY <1>3
<1>5. PICK no : no = FALSE
  BY Zenon
<1>6. PICK start : start = [f |-> g, taker |-> taker, trades |-> <<>>, done |-> no]
  OBVIOUS
<1>7. start.f = g /\ start.taker = taker /\ start.trades = <<>> /\ ~start.done
  BY <1>5, <1>6
<1>8. RoundSound(d, start)
  <2>1. start = [f |-> start.f, taker |-> start.taker, trades |-> start.trades, done |-> start.done]
    BY <1>6
  <2>2. PICK T : T = tradesWith(d.f.orders, d.taker)
    OBVIOUS
  <2>3. <<>> \in Seq(T)
    OBVIOUS
  <2> QED  BY <1>2, <1>4, <1>7, <2>1, <2>2, <2>3, SavedTrans, SameOrderTrans DEF RoundSound
<1>9. AfterRounds(d, 0, start)
  <2>1. Fills(g.orders, g.orders, taker.id)
    BY DEF Fills
  <2>2. PICK c \in Nat : c = Cardinality(facing(g.orders, effectiveMatchTaker(taker)))
    BY FacingFinite
  <2>3. c + 0 <= c
    OBVIOUS
  <2> QED  BY <1>4, <1>7, <2>1, <2>2, <2>3 DEF AfterRounds
<1>10. PICK n \in Nat : n = MaxOrders + 1
  BY LedgerAssumption
<1>11. PICK s : s = [i \in 1..n |-> i] /\ DOMAIN s = 1..n
  <2>1. DOMAIN [i \in 1..n |-> i] = 1..n
    OBVIOUS
  <2> QED  BY <2>1
<1>12. PICK acc : Rounds!AreValues(acc, d, start, s, n)
  BY <1>11, Rounds!FoldLeftSteps
<1> DEFINE K == {i \in 0..n : RoundSound(d, acc[i]) /\ AfterRounds(d, i, acc[i])}
<1>13. 0 \in K
  BY <1>8, <1>9, <1>12 DEF Rounds!AreValues
<1>14. ASSUME NEW i \in 1..n, i - 1 \in K PROVE i \in K
  <2>1. PICK x : x = acc[i - 1] /\ RoundSound(d, x) /\ AfterRounds(d, i - 1, x)
    BY <1>14
  <2>2. PICK y : y = matchRound(x)
    OBVIOUS
  <2>3. acc[i] = y
    BY <1>12, <2>1, <2>2 DEF Rounds!AreValues, roundStep
  <2>4. RoundSound(d, y)
    BY <1>4, <2>1, <2>2, RoundStep
  <2>5. AfterRounds(d, i, y)
    <3>1. i \in Nat /\ i # 0
      OBVIOUS
    <3> QED  BY <1>4, <2>1, <2>2, <3>1, OneMoreRound
  <2> QED  BY <2>3, <2>4, <2>5
<1>15. n \in K
  <2> HIDE DEF K
  <2> QED  BY <1>13, <1>14, Rounds!CountTo
<1>16. PICK m : m = Rounds!FoldFrom(d, start, s)
  OBVIOUS
<1>17. RoundSound(d, m) /\ AfterRounds(d, n, m)
  BY <1>12, <1>15, <1>16 DEF Rounds!AreValues
<1>18. FoldLeft(LAMBDA x, i : matchRound(x), start, s) = m
  BY <1>16 DEF Rounds!FoldFrom, Rounds!FoldLeft, Rounds!MapThenFoldSet, Rounds!Max,
     FoldLeft, MapThenFoldSet, Max, roundStep
<1>19. r = [m EXCEPT !.taker = finishTaker(@)]
  BY <1>1, <1>5, <1>6, <1>10, <1>11, <1>18 DEF match
<1>20. PICK t \in Order : t = m.taker /\ SameOrder(taker, t) /\ t.remaining \in Nat
  BY <1>4, <1>17 DEF RoundSound, Order
<1>21. PICK t1 : t1 = finishTaker(t)
  OBVIOUS
<1>22. r.f = m.f /\ r.taker = t1
  <2>1. r = [f |-> m.f, taker |-> t1, trades |-> m.trades, done |-> m.done]
    BY <1>17, <1>19, <1>20, <1>21 DEF RoundSound
  <2> QED  BY <2>1
<1>23. /\ t1 \in Order /\ SameOrder(taker, t1)
       /\ t1.remaining = t.remaining
       /\ t1.status \in OpenStatuses /\ t.remaining # 0 => t.status # "expired" /\ ~isImmediateOnly(t)
  <2>1. /\ [t EXCEPT !.status = "open"] \in Order
        /\ SameOrder(t, [t EXCEPT !.status = "open"])
        /\ [t EXCEPT !.status = "expired"] \in Order
        /\ SameOrder(t, [t EXCEPT !.status = "expired"])
    BY <1>20, NewStatus DEF Statuses, SameOrder
  <2>2. t1 \in {t, [t EXCEPT !.status = "open"], [t EXCEPT !.status = "expired"]}
    BY <1>21 DEF finishTaker, restingTaker
  <2>3. t1 \in Order /\ SameOrder(taker, t1)
    BY <1>20, <2>1, <2>2, SameOrderTrans
  <2>4. t1.remaining = t.remaining
    BY <2>2 DEF Order
  <2>5. t.remaining # 0 /\ isImmediateOnly(t) => t1.status = "expired"
    BY <1>20, <1>21 DEF finishTaker, Order
  <2>6. t.status = "expired" => t1.status = "expired"
    BY <1>20, <1>21 DEF finishTaker, restingTaker, Order
  <2> QED  BY <2>3, <2>4, <2>5, <2>6 DEF OpenStatuses
<1>24. /\ Fills(f.orders, r.f.orders, taker.id)
       /\ m.done => t.status = "expired" \/ facing(r.f.orders, effectiveMatchTaker(taker)) = {}
       /\ \/ m.done
          \/ t.remaining = 0
          \/ Cardinality(facing(r.f.orders, effectiveMatchTaker(taker))) + n
                <= Cardinality(facing(f.orders, effectiveMatchTaker(taker)))
       /\ facing(f.orders, effectiveMatchTaker(taker)) = {} =>
             r.f.orders = f.orders /\ t = taker
  BY <1>2, <1>4, <1>17, <1>20, <1>22 DEF AfterRounds
<1>25. m.done \/ t.remaining = 0
  <2>1. PICK a, b : /\ a = Cardinality(facing(r.f.orders, effectiveMatchTaker(taker)))
                    /\ b = Cardinality(facing(f.orders, effectiveMatchTaker(taker)))
    OBVIOUS
  <2>2. a \in Nat /\ b \in Nat /\ b <= MaxOrders /\ MaxOrders \in Nat
    BY <2>1, FacingFinite, LedgerAssumption
  <2>3. ~(a + n <= b)
    BY <1>10, <2>2
  <2> QED  BY <1>24, <2>1, <2>3
<1>26. ASSUME isBookableOrder(t1) PROVE facing(r.f.orders, t1) = {}
  <2>1. t1.status \in OpenStatuses /\ t1.remaining # 0 /\ t1.type # "market"
    BY <1>23, <1>26, OrdersAssumption DEF isBookableOrder, Order
  <2>2. t.status # "expired" /\ m.done
    BY <1>23, <1>25, <2>1
  <2>3. facing(r.f.orders, effectiveMatchTaker(taker)) = {}
    BY <1>24, <2>2
  <2>4. taker.type # "market"
    BY <1>23, <2>1 DEF SameOrder
  <2> QED  BY <1>23, <2>3, <2>4, SameFacing
<1>27. f.ok
  <2>1. m.f.ok => g.ok
    BY <1>4, <1>17 DEF RoundSound, Saved, BookOnly
  <2> QED  BY <1>2, <1>22, <2>1 DEF Saved, BookOnly
<1> QED  BY <1>21, <1>22, <1>24, <1>26, <1>27 DEF MatchUncrosses

-----------------------------------------------------------------------------
(* The book before and after a match.                                      *)

\* No two orders of these cross.
NoneCross(os, ids) ==
    \A b, s \in ids : os[b].side = "buy" /\ os[s].side = "sell" => os[b].price < os[s].price

Uncrossed(os) == NoneCross(os, activeOrders(os))

\* Seen from the book os, of the orders of the book before only those are filled whose turn
\* it was.
InTurn(before, os) ==
    /\ \A o \in activeOrders(before) : SameOrder(before[o], os[o]) /\ os[o].status # "pending_stop"
    /\ \A m, x \in activeOrders(before) :
          isBefore(before[x], before[m]) /\ os[m].filled # before[m].filled
          => x \notin activeOrders(os)

\* A match is in the table: os has what it left of the makers and of the taker.
Recorded(os, m) ==
    /\ OrderBook(os)
    /\ os[m.taker.id] = m.taker
    /\ \A o \in OrderIds \ {m.taker.id} : os[o] = m.f.orders[o]

\* A match of a taker that is not in the book, or of one that does not cross it, leaves
\* the book uncrossed.
LEMMA MatchKeepsUncrossed ==
    ASSUME NEW f, Copy(f), NEW taker \in Order, NoneCross(f.orders, activeOrders(f.orders) \ {taker.id}),
           NEW m, MatchLeaves(f, taker, m), MatchUncrosses(f, taker, m),
           NEW os, Recorded(os, m)
    PROVE  Uncrossed(os)
<1>1. PICK T \in OrderIds : T = taker.id
  BY DEF Order
<1>2. PICK t \in Order : t = m.taker /\ t.id = T /\ t.side = taker.side
  BY <1>1 DEF MatchLeaves, SameOrder
<1>3. PICK mid : mid = m.f.orders
  OBVIOUS
<1>4. /\ Fills(f.orders, mid, T)
      /\ isBookableOrder(t) => facing(mid, t) = {}
  BY <1>1, <1>2, <1>3 DEF MatchUncrosses
<1>5. /\ activeOrders(mid) \subseteq activeOrders(f.orders)
      /\ \A o \in OrderIds : SameOrder(f.orders[o], mid[o])
  BY <1>4, FillsShrink
<1>6. os[T] = t /\ \A o \in OrderIds \ {T} : os[o] = mid[o]
  BY <1>2, <1>3 DEF Recorded
<1>7. \A o \in activeOrders(os) \ {T} : /\ o \in OrderIds /\ o \in activeOrders(mid) \ {T}
                                         /\ o \in activeOrders(f.orders) \ {T}
                                         /\ os[o].side = f.orders[o].side
                                         /\ os[o].price = f.orders[o].price
                                         /\ os[o].side = mid[o].side /\ os[o].price = mid[o].price
                                         /\ os[o].price \in Nat
  <2>1. \A o \in OrderIds : os[o].price \in Nat
    BY DEF Recorded, OrderBook, Order
  <2> QED  BY <1>5, <1>6, <2>1 DEF activeOrders, SameOrder
<1>8. SUFFICES ASSUME NEW b \in activeOrders(os), NEW s \in activeOrders(os),
                      os[b].side = "buy", os[s].side = "sell"
               PROVE  os[b].price < os[s].price
  BY DEF Uncrossed, NoneCross
<1>9. t.price \in Nat
  BY DEF Order
<1>10. CASE b # T /\ s # T
  BY <1>1, <1>7, <1>8, <1>10 DEF NoneCross
<1>11. CASE b = T
  <2>1. isBookableOrder(t) /\ t.side = "buy" /\ s # T
    BY <1>6, <1>8, <1>11 DEF activeOrders
  <2>2. s \notin facing(mid, t)
    BY <1>4, <2>1
  <2>3. ~reaches(t, mid[s])
    BY <1>2, <1>7, <1>8, <2>1, <2>2 DEF facing, oppositeSide
  <2> QED  BY <1>6, <1>7, <1>9, <1>11, <2>1, <2>3 DEF reaches
<1>12. CASE s = T
  <2>1. isBookableOrder(t) /\ t.side = "sell" /\ b # T
    BY <1>6, <1>8, <1>12 DEF activeOrders
  <2>2. b \notin facing(mid, t)
    BY <1>4, <2>1
  <2>3. ~reaches(t, mid[b])
    BY <1>2, <1>7, <1>8, <2>1, <2>2 DEF facing, oppositeSide
  <2> QED  BY <1>6, <1>7, <1>9, <1>12, <2>1, <2>3 DEF reaches
<1> QED  BY <1>10, <1>11, <1>12

\* A match of a taker that was not in the book fills its orders in turn.
LEMMA MatchGoesInTurn ==
    ASSUME NEW before, NEW f, Copy(f), InTurn(before, f.orders),
           NEW taker \in Order, taker.id \notin activeOrders(before),
           NEW m, MatchLeaves(f, taker, m), MatchUncrosses(f, taker, m),
           NEW os, Recorded(os, m)
    PROVE  InTurn(before, os)
<1>1. PICK T \in OrderIds : T = taker.id /\ T = m.taker.id
  BY DEF Order, MatchLeaves, SameOrder
<1>2. PICK mid, cur : mid = m.f.orders /\ cur = f.orders
  OBVIOUS
<1>3. Fills(cur, mid, T)
  BY <1>1, <1>2 DEF MatchUncrosses
<1>4. /\ activeOrders(mid) \subseteq activeOrders(cur)
      /\ \A o \in OrderIds : SameOrder(cur[o], mid[o])
  BY <1>3, FillsShrink
<1>5. activeOrders(before) \subseteq OrderIds \ {T}
  BY <1>1 DEF activeOrders
<1>6. \A o \in OrderIds \ {T} : os[o] = mid[o] /\ (o \in activeOrders(os) <=> o \in activeOrders(mid))
  BY <1>1, <1>2 DEF Recorded, activeOrders
<1>7. ASSUME NEW o \in activeOrders(before)
      PROVE  SameOrder(before[o], os[o]) /\ os[o].status # "pending_stop"
  <2>1. SameOrder(before[o], cur[o]) /\ cur[o].status # "pending_stop"
    BY <1>2 DEF InTurn
  <2>2. SameOrder(before[o], mid[o])
    BY <1>4, <1>5, <2>1, SameOrderTrans
  <2>3. mid[o].status # "pending_stop"
    BY <1>3, <1>5, <2>1 DEF Fills
  <2> QED  BY <1>5, <1>6, <2>2, <2>3
<1>8. ASSUME NEW o \in activeOrders(before), NEW x \in activeOrders(before),
             isBefore(before[x], before[o]), os[o].filled # before[o].filled
      PROVE  x \notin activeOrders(os)
  <2>1. SUFFICES x \notin activeOrders(mid)
    BY <1>5, <1>6
  <2>2. CASE mid[o] = cur[o]
    <3>1. cur[o].filled # before[o].filled
      BY <1>5, <1>6, <1>8, <2>2
    <3>2. x \notin activeOrders(cur)
      BY <1>2, <1>8, <3>1 DEF InTurn
    <3> QED  BY <1>4, <3>2
  <2>3. CASE mid[o] # cur[o] /\ x \in activeOrders(cur)
    <3>1. isBefore(cur[x], cur[o])
      <4>1. SameOrder(before[x], cur[x]) /\ SameOrder(before[o], cur[o])
        BY <1>2 DEF InTurn
      <4> QED  BY <1>8, <4>1 DEF isBefore, SameOrder
    <3> QED  BY <1>3, <1>5, <2>3, <3>1 DEF Fills
  <2>4. CASE x \notin activeOrders(cur)
    BY <1>4, <2>4
  <2> QED  BY <2>2, <2>3, <2>4
<1> QED  BY <1>7, <1>8 DEF InTurn

\* An order that is in an uncrossed book faces nobody.
LEMMA InBookFacesNobody ==
    ASSUME NEW os, OrderBook(os), Uncrossed(os), NEW o \in activeOrders(os)
    PROVE  facing(os, effectiveMatchTaker(os[o])) = {}
<1>1. o \in OrderIds /\ os[o] \in Order /\ os[o].id = o /\ os[o].type # "market"
  BY DEF activeOrders, isBookableOrder, OrderBook
<1>2. effectiveMatchTaker(os[o]) = os[o]
  BY <1>1 DEF effectiveMatchTaker
<1>3. ASSUME NEW x \in facing(os, os[o]) PROVE FALSE
  <2>1. x \in activeOrders(os) /\ os[x].side = oppositeSide(os[o].side) /\ reaches(os[o], os[x])
        /\ os[x] \in Order
    BY DEF facing, activeOrders, OrderBook
  <2>2. os[o].price \in Nat /\ os[x].price \in Nat
    BY <1>1, <2>1 DEF Order
  <2>3. CASE os[o].side = "buy"
    <3>1. os[x].side = "sell" /\ os[x].price <= os[o].price
      BY <2>1, <2>3 DEF oppositeSide, reaches
    <3>2. os[o].price < os[x].price
      BY <2>1, <2>3, <3>1 DEF Uncrossed, NoneCross
    <3> QED  BY <2>2, <3>1, <3>2
  <2>4. CASE os[o].side # "buy"
    <3>1. os[o].side = "sell" /\ os[x].side = "buy" /\ os[x].price >= os[o].price
      BY <1>1, <2>1, <2>4 DEF oppositeSide, reaches, Order, Sides
    <3>2. os[x].price < os[o].price
      BY <2>1, <3>1 DEF Uncrossed, NoneCross
    <3> QED  BY <2>2, <3>1, <3>2
  <2> QED  BY <2>3, <2>4
<1> QED  BY <1>2, <1>3

\* Matching an order again that is in the book changes no quantity.
LEMMA RematchIsIdle ==
    ASSUME NEW f, Copy(f), Uncrossed(f.orders), NEW o \in activeOrders(f.orders),
           NEW m, MatchUncrosses(f, f.orders[o], m), NEW os, Recorded(os, m)
    PROVE  InTurn(f.orders, os)
<1>1. PICK before : before = f.orders /\ OrderBook(before)
  BY DEF Copy
<1>2. PICK t \in Order : /\ t = before[o] /\ t.id = o /\ o \in OrderIds
                         /\ t.status \in OpenStatuses
  BY <1>1 DEF OrderBook, activeOrders, isBookableOrder
<1>3. facing(before, effectiveMatchTaker(t)) = {}
  BY <1>1, <1>2, InBookFacesNobody
<1>4. m.f.orders = before /\ m.taker = finishTaker(t)
  BY <1>1, <1>2, <1>3 DEF MatchUncrosses
<1>5. PICK t1 : t1 = finishTaker(t)
  OBVIOUS
<1>6. t1 \in {t, [t EXCEPT !.status = "open"], [t EXCEPT !.status = "expired"]}
  BY <1>5 DEF finishTaker, restingTaker
<1>7. SameOrder(t, t1) /\ t1.filled = t.filled /\ t1.status # "pending_stop" /\ t1.id = o
  BY <1>2, <1>6 DEF Order, SameOrder, OpenStatuses
<1>8. os[o] = t1 /\ \A x \in OrderIds \ {o} : os[x] = before[x]
  BY <1>4, <1>5, <1>7 DEF Recorded
<1>9. \A x \in activeOrders(before) : x \in OrderIds /\ before[x].status # "pending_stop"
  BY DEF activeOrders, isBookableOrder, OpenStatuses
<1>10. \A x \in activeOrders(before) : /\ SameOrder(before[x], os[x])
                                        /\ os[x].status # "pending_stop"
                                        /\ os[x].filled = before[x].filled
  BY <1>2, <1>7, <1>8, <1>9, SameOrderTrans
<1> QED  BY <1>1, <1>10 DEF InTurn

\* A match that has been saved and settled is in the table.
LEMMA SettledIsRecorded ==
    ASSUME NEW f, Copy(f), NEW taker \in Order, taker.status # "none",
           SameOrder(f.orders[taker.id], taker),
           NEW m, MatchLeaves(f, taker, m),
           NEW z, z = settleMatch(m)
    PROVE  Copy(z) /\ (z.ok => m.f.ok) /\ Recorded(z.orders, m)
<1>1. PICK x : x = m.f
  OBVIOUS
<1>2. PICK o \in Order : o = m.taker
  BY DEF MatchLeaves
<1>3. PICK id \in OrderIds : id = taker.id
  BY DEF Order
<1>4. Copy(x) /\ Saved(f, x) /\ SameOrder(taker, o) /\ o.id = id /\ levelKey(o) = levelKey(taker)
  BY <1>1, <1>2, <1>3 DEF MatchLeaves, Saved, Advances, SameOrder, levelKey
<1>5. SameOrder(x.orders[o.id], o) /\ levelKey(o) \in x.touched
  <2>1. SameOrder(f.orders[id], x.orders[id])
    BY <1>4 DEF Saved, Advances
  <2>2. SameOrder(f.orders[id], taker)
    BY <1>3
  <2>3. levelKey(taker) \in x.touched
    BY <1>1 DEF MatchLeaves
  <2> QED  BY <1>4, <2>1, <2>2, <2>3, SameOrderTrans
<1>6. PICK y : y = SaveOrder(x, o)
  OBVIOUS
<1>7. /\ Copy(y)
      /\ y.orders[o.id] = o
      /\ \A p \in OrderIds \ {o.id} : y.orders[p] = x.orders[p]
      /\ y.ok = x.ok /\ y.bal = x.bal /\ y.res = x.res
      /\ y.levels = x.levels /\ y.touched = x.touched
  BY <1>4, <1>6, SaveWrites
<1>8. Saved(x, y)
  BY <1>4, <1>5, <1>6, SaveAdvances DEF Saved
<1>9. Saved(f, y)
  BY <1>4, <1>8, SavedTrans
<1>10. Settles(y, SettleTrades(y, m.trades))
  <2>1. \A p \in OrderIds : SameOrder(f.orders[p], y.orders[p])
    BY <1>9 DEF Saved, Advances
  <2>2. SameOrder(taker, y.orders[taker.id])
    BY <1>3, <1>4, <1>7
  <2>3. m.trades \in Seq(tradesWith(f.orders, taker))
    BY DEF MatchLeaves
  <2> QED  BY <1>7, <2>1, <2>2, <2>3, SettleTradesKeep
<1>11. Settles(y, z)
  BY <1>1, <1>2, <1>6, <1>10 DEF settleMatch
<1>12. Copy(z) /\ z.orders = y.orders /\ (z.ok => y.ok)
  BY <1>11 DEF Settles, LedgerOnly, Conserves
<1> QED  BY <1>1, <1>2, <1>7, <1>12 DEF Recorded, Copy

\* Recording the trades leaves the table as it is.
LEMMA CreateTradesKeepsOrders ==
    ASSUME NEW f, Copy(f), NEW trades, NEW g, g = CreateTrades(f, trades)
    PROVE  Copy(g) /\ g.orders = f.orders /\ (g.ok => f.ok)
<1>1. PICK p : p = Last(trades).price
  OBVIOUS
<1>2. PICK h : h = [f EXCEPT !.last = p]
  OBVIOUS
<1>3. h = [ok |-> f.ok, bal |-> f.bal, res |-> f.res, orders |-> f.orders,
           last |-> p, levels |-> f.levels, touched |-> f.touched]
  BY <1>2 DEF Copy
<1>4. h.ok = f.ok /\ h.orders = f.orders
  BY <1>3
<1>5. g \in {f, h}
  BY <1>1, <1>2 DEF CreateTrades
<1>6. Copy(g)
  BY CreateTradesSaves DEF Saved, Advances
<1> QED  BY <1>4, <1>5, <1>6

\* What follows the match of a new order, before the stops, leaves the match in the table.
LEMMA NewOrderRecorded ==
    ASSUME NEW f, Copy(f), NEW taker \in Order, taker.status # "none",
           SameOrder(f.orders[taker.id], taker),
           NEW m, MatchLeaves(f, taker, m),
           NEW g, g = CreateTrades(releaseUnfilled(settleMatch(m), m.taker), m.trades)
    PROVE  Copy(g) /\ (g.ok => m.f.ok) /\ Recorded(g.orders, m)
<1>1. PICK x : x = settleMatch(m)
  OBVIOUS
<1>2. Copy(x) /\ (x.ok => m.f.ok) /\ Recorded(x.orders, m)
  BY <1>1, SettledIsRecorded
<1>3. PICK o \in Order : o = m.taker
  BY DEF MatchLeaves
<1>4. o.status # "none"
  BY <1>3 DEF MatchLeaves, SameOrder
<1>5. PICK y : y = releaseUnfilled(x, o)
  OBVIOUS
<1>6. Settles(x, y)
  <2>1. SameOrder(x.orders[o.id], o)
    BY <1>2, <1>3, SameOrderTrans DEF Recorded
  <2>2. Settles(x, ReleaseOrderFunds(x, o))
    BY <1>2, <1>4, <2>1, ReleaseConserves DEF Settles
  <2>3. y \in {x, ReleaseOrderFunds(x, o)}
    BY <1>5 DEF releaseUnfilled
  <2> QED  BY <1>2, <2>2, <2>3, SettlesTrans
<1>7. Copy(y) /\ y.orders = x.orders /\ (y.ok => x.ok)
  BY <1>6 DEF Settles, LedgerOnly, Conserves
<1>8. g = CreateTrades(y, m.trades)
  BY <1>1, <1>3, <1>5
<1>9. Copy(g) /\ g.orders = y.orders /\ (g.ok => y.ok)
  BY <1>7, <1>8, CreateTradesKeepsOrders
<1> QED  BY <1>2, <1>7, <1>9

-----------------------------------------------------------------------------
(* From a match to the end of its transaction.                             *)

\* If the transaction is committed, the book is uncrossed and was filled in turn since it
\* was the book before.
Tidy(before, f) == f.ok => Uncrossed(f.orders) /\ InTurn(before, f.orders)

\* A match of an order that was not in the book before.
LEMMA MatchTidies ==
    ASSUME NEW before, NEW f, Copy(f), NEW taker \in Order, taker.status # "none",
           f.ok => /\ NoneCross(f.orders, activeOrders(f.orders) \ {taker.id})
                   /\ InTurn(before, f.orders)
                   /\ taker.id \notin activeOrders(before),
           NEW m, m = match(f, taker), m.f.ok,
           NEW os, Recorded(os, m)
    PROVE  Uncrossed(os) /\ InTurn(before, os)
<1>1. MatchUncrosses(f, taker, m)
  BY MatchFills
<1>2. MatchLeaves(f, taker, m)
  BY MatchKeeps
<1>3. f.ok
  BY <1>1 DEF MatchUncrosses
<1>4. /\ NoneCross(f.orders, activeOrders(f.orders) \ {taker.id})
      /\ InTurn(before, f.orders)
      /\ taker.id \notin activeOrders(before)
  BY <1>3
<1>5. Uncrossed(os)
  BY <1>1, <1>2, <1>4, MatchKeepsUncrossed
<1>6. InTurn(before, os)
  BY <1>1, <1>2, <1>4, MatchGoesInTurn
<1> QED  BY <1>5, <1>6

\* One pending stop.
LEMMA StopTidies ==
    ASSUME NEW before, NEW f, Copy(f), Tidy(before, f),
           NEW o \in OrderIds, f.orders[o].status # "none", o \notin activeOrders(before),
           NEW price, NEW g, g = activateStop(f, o, price)
    PROVE  Tidy(before, g)
<1>1. PICK taker : taker = [f.orders[o] EXCEPT !.status = "open"]
  OBVIOUS
<1>2. f.orders[o] \in Order /\ f.orders[o].id = o
  BY DEF Copy, OrderBook
<1>3. taker \in Order /\ SameOrder(f.orders[o], taker) /\ taker.status # "none"
  BY <1>1, <1>2, NewStatus DEF Statuses
<1>4. taker.id = o
  BY <1>2, <1>3 DEF SameOrder
<1>5. PICK m : m = match(f, taker)
  OBVIOUS
<1>6. MatchLeaves(f, taker, m)
  BY <1>3, <1>5, MatchKeeps
<1>7. PICK x : x = settleMatch(m)
  OBVIOUS
<1>8. Copy(x) /\ (x.ok => m.f.ok) /\ Recorded(x.orders, m)
  BY <1>3, <1>4, <1>6, <1>7, SettledIsRecorded
<1>9. PICK y : y = CreateTrades(x, m.trades)
  OBVIOUS
<1>10. Copy(y) /\ y.orders = x.orders /\ (y.ok => x.ok)
  BY <1>8, <1>9, CreateTradesKeepsOrders
<1>11. Tidy(before, y)
  <2> SUFFICES ASSUME y.ok PROVE Uncrossed(y.orders) /\ InTurn(before, y.orders)
    BY DEF Tidy
  <2>1. m.f.ok /\ Recorded(y.orders, m)
    BY <1>8, <1>10
  <2>2. f.ok => /\ NoneCross(f.orders, activeOrders(f.orders) \ {taker.id})
                /\ InTurn(before, f.orders)
                /\ taker.id \notin activeOrders(before)
    BY <1>4 DEF Tidy, Uncrossed, NoneCross
  <2> QED  BY <1>3, <1>5, <2>1, <2>2, MatchTidies
<1>12. ~Fail(f).ok
  BY DEF Fail, Copy
<1>13. g \in {f, Fail(f), y}
  BY <1>1, <1>5, <1>7, <1>9 DEF activateStop, recordStop
<1> QED  BY <1>11, <1>12, <1>13 DEF Tidy

\* d has the book before and the working copy with the first stop.
StopsTidied(d, x) == Moves(d.f, x) /\ Tidy(d.before, x)

TidyStops == INSTANCE FoldLemmas WITH step <- stopStep, Good <- StopsTidied

\* All pending stops: none of them was in the book.
LEMMA StopsTidy ==
    ASSUME NEW before, NEW f, Copy(f), Tidy(before, f), NEW price,
           NEW g, g = activateTriggeredStops(f, price)
    PROVE  Tidy(before, g)
<1>1. PICK ids : ids = {o \in OrderIds : f.orders[o].status = "pending_stop"}
  OBVIOUS
<1>2. Moves(f, g)
  BY StopsMove
<1>3. SUFFICES ASSUME f.ok PROVE Tidy(before, g)
  <2>1. g.ok => f.ok
    BY <1>2 DEF Moves, Conserves
  <2> QED  BY <2>1 DEF Tidy
<1>4. ids \in SUBSET OrderIds /\ \A o \in ids : f.orders[o].status # "none"
  BY <1>1
<1>5. \A o \in ids : o \notin activeOrders(before)
  BY <1>1, <1>3 DEF Tidy, InTurn
<1>6. PICK s : s = inSequence(ids)
  OBVIOUS
<1>7. PICK n \in Nat : DOMAIN s = 1..n /\ \A i \in 1..n : s[i] \in ids
  BY <1>4, <1>6, InSequence
<1>8. PICK d : d = [f |-> f, before |-> before]
  OBVIOUS
<1>9. d.f = f /\ d.before = before
  BY <1>8
<1>10. StopsTidied(d, f)
  BY <1>9, MovesTrans DEF StopsTidied
<1>11. ASSUME NEW x, NEW i \in 1..n, StopsTidied(d, x)
       PROVE  StopsTidied(d, stopStep(price, x, s[i]))
  <2>1. PICK o \in OrderIds : /\ o = s[i] /\ f.orders[o].status # "none"
                              /\ o \notin activeOrders(before)
    BY <1>4, <1>5, <1>7
  <2>2. Moves(f, x) /\ Tidy(before, x)
    BY <1>9, <1>11 DEF StopsTidied
  <2>3. Copy(x) /\ x.orders[o].status # "none"
    BY <2>1, <2>2 DEF Moves, Advances, SameOrder
  <2>4. PICK y : y = activateStop(x, o, price)
    OBVIOUS
  <2>5. Moves(x, y)
    BY <2>3, <2>4, ActivateStopMoves
  <2>6. Tidy(before, y)
    BY <2>1, <2>2, <2>3, <2>4, StopTidies
  <2>7. Moves(f, y)
    BY <2>2, <2>5, MovesTrans
  <2> QED  BY <1>9, <2>1, <2>4, <2>6, <2>7 DEF StopsTidied, stopStep
<1>12. StopsTidied(d, TidyStops!FoldFrom(price, f, s))
  BY <1>7, <1>10, <1>11, TidyStops!FoldKeeps
<1>13. FoldLeft(LAMBDA x, o : activateStop(x, o, price), f, s) = TidyStops!FoldFrom(price, f, s)
  BY DEF TidyStops!FoldFrom, TidyStops!FoldLeft, TidyStops!MapThenFoldSet, TidyStops!Max,
     FoldLeft, MapThenFoldSet, Max, stopStep
<1>14. ListPendingStops(f.orders) = s
  BY <1>1, <1>6 DEF ListPendingStops
<1>15. g \in {f, TidyStops!FoldFrom(price, f, s)}
  BY <1>13, <1>14 DEF activateTriggeredStops
<1> QED  BY <1>9, <1>12, <1>15 DEF StopsTidied

\* The price levels are all the commit refreshes.
LEMMA RefreshTidies ==
    ASSUME NEW before, NEW f, Copy(f), Tidy(before, f), NEW g, g = refreshBookProjection(f)
    PROVE  Tidy(before, g)
<1>1. PICK ls : ls = [k \in LevelKeys |->
                         IF k \in f.touched \/ levelOf(f.orders, k).count = 0
                         THEN levelOf(f.orders, k) ELSE f.levels[k]]
  OBVIOUS
<1>2. g = [ok |-> f.ok, bal |-> f.bal, res |-> f.res, orders |-> f.orders,
           last |-> f.last, levels |-> ls, touched |-> f.touched]
  BY <1>1 DEF refreshBookProjection, Copy
<1>3. g.ok = f.ok /\ g.orders = f.orders
  BY <1>2
<1> QED  BY <1>3 DEF Tidy

\* A transaction that matches an order that was not in the book before.
LEMMA EntryTidies ==
    ASSUME NEW before, NEW f, Copy(f), NEW taker \in Order, taker.status # "none",
           SameOrder(f.orders[taker.id], taker),
           f.ok => /\ NoneCross(f.orders, activeOrders(f.orders) \ {taker.id})
                   /\ InTurn(before, f.orders)
                   /\ taker.id \notin activeOrders(before),
           NEW g, g = matchAndSettle(f, taker)
    PROVE  Tidy(before, g)
<1>1. PICK m : m = match(f, taker)
  OBVIOUS
<1>2. MatchLeaves(f, taker, m)
  BY <1>1, MatchKeeps
<1>3. PICK x : x = CreateTrades(releaseUnfilled(settleMatch(m), m.taker), m.trades)
  OBVIOUS
<1>4. Copy(x) /\ (x.ok => m.f.ok) /\ Recorded(x.orders, m)
  BY <1>2, <1>3, NewOrderRecorded
<1>5. Tidy(before, x)
  <2> SUFFICES ASSUME x.ok PROVE Uncrossed(x.orders) /\ InTurn(before, x.orders)
    BY DEF Tidy
  <2>1. m.f.ok /\ Recorded(x.orders, m)
    BY <1>4
  <2> QED  BY <1>1, <2>1, MatchTidies
<1>6. PICK p : p = lastTradePrice(m.trades)
  OBVIOUS
<1>7. PICK h : h = activateTriggeredStops(x, p)
  OBVIOUS
<1>8. Tidy(before, h)
  BY <1>4, <1>5, <1>7, StopsTidy
<1>9. Copy(h)
  BY <1>4, <1>7, StopsMove DEF Moves, Advances
<1>10. g = refreshBookProjection(h)
  BY <1>1, <1>3, <1>6, <1>7 DEF matchAndSettle, recordMatch
<1> QED  BY <1>8, <1>9, <1>10, RefreshTidies

\* A match job for an order that is in the book already.
LEMMA RematchTidies ==
    ASSUME NEW f, Copy(f), Uncrossed(f.orders), NEW o \in activeOrders(f.orders),
           NEW g, g = matchAndSettle(f, f.orders[o])
    PROVE  Tidy(f.orders, g)
<1>1. PICK taker \in Order : /\ taker = f.orders[o] /\ taker.id = o /\ o \in OrderIds
                             /\ taker.status # "none"
  BY DEF activeOrders, isBookableOrder, OpenStatuses, Copy, OrderBook
<1>2. SameOrder(f.orders[taker.id], taker)
  BY <1>1, SameOrderTrans
<1>3. PICK m : m = match(f, taker)
  OBVIOUS
<1>4. MatchLeaves(f, taker, m)
  BY <1>1, <1>3, MatchKeeps
<1>5. PICK x : x = CreateTrades(releaseUnfilled(settleMatch(m), m.taker), m.trades)
  OBVIOUS
<1>6. Copy(x) /\ (x.ok => m.f.ok) /\ Recorded(x.orders, m)
  BY <1>1, <1>2, <1>4, <1>5, NewOrderRecorded
<1>7. Tidy(f.orders, x)
  <2> SUFFICES ASSUME x.ok PROVE Uncrossed(x.orders) /\ InTurn(f.orders, x.orders)
    BY DEF Tidy
  <2>1. m.f.ok /\ Recorded(x.orders, m)
    BY <1>6
  <2>2. MatchUncrosses(f, taker, m)
    BY <1>1, <1>3, <2>1, MatchFills
  <2>3. NoneCross(f.orders, activeOrders(f.orders) \ {taker.id})
    BY DEF Uncrossed, NoneCross
  <2>4. Uncrossed(x.orders)
    BY <1>4, <2>1, <2>2, <2>3, MatchKeepsUncrossed
  <2>5. MatchUncrosses(f, f.orders[o], m)
    BY <1>1, <2>2
  <2>6. InTurn(f.orders, x.orders)
    BY <2>1, <2>5, RematchIsIdle
  <2> QED  BY <2>4, <2>6
<1>8. PICK p : p = lastTradePrice(m.trades)
  OBVIOUS
<1>9. PICK h : h = activateTriggeredStops(x, p)
  OBVIOUS
<1>10. Tidy(f.orders, h)
  BY <1>6, <1>7, <1>9, StopsTidy
<1>11. Copy(h)
  BY <1>6, <1>9, StopsMove DEF Moves, Advances
<1>12. g = refreshBookProjection(h)
  BY <1>1, <1>3, <1>5, <1>8, <1>9 DEF matchAndSettle, recordMatch
<1> QED  BY <1>10, <1>11, <1>12, RefreshTidies

\* The book of an instant, seen from itself.
LEMMA NoTurnTaken ==
    ASSUME NEW before, NEW os,
           \A o \in activeOrders(before) : os[o] = before[o]
    PROVE  InTurn(before, os)
<1>1. \A o \in activeOrders(before) : before[o].status # "pending_stop"
  BY DEF activeOrders, isBookableOrder, OpenStatuses
<1>2. \A o \in activeOrders(before) : SameOrder(before[o], os[o])
  BY SameOrderTrans
<1> QED  BY <1>1, <1>2 DEF InTurn

\* A book that has lost orders and won none.
LEMMA FewerCross ==
    ASSUME NEW os, Uncrossed(os), NEW ps, NEW ids, ids \subseteq activeOrders(os),
           \A o \in ids : ps[o].side = os[o].side /\ ps[o].price = os[o].price
    PROVE  NoneCross(ps, ids)
<1> SUFFICES ASSUME NEW b \in ids, NEW s \in ids, ps[b].side = "buy", ps[s].side = "sell"
             PROVE  ps[b].price < ps[s].price
  BY DEF NoneCross
<1>1. b \in activeOrders(os) /\ s \in activeOrders(os) /\ os[b].side = "buy" /\ os[s].side = "sell"
  OBVIOUS
<1>2. os[b].price < os[s].price
  BY <1>1 DEF Uncrossed, NoneCross
<1> QED  BY <1>2

\* Cancel.
LEMMA CancelTidies ==
    ASSUME NEW f, Copy(f), Uncrossed(f.orders), NEW o \in OrderIds, f.orders[o].status # "none",
           NEW canceled, canceled = [f.orders[o] EXCEPT !.status = "canceled", !.remaining = 0],
           NEW saved, saved = SaveOrder(touch(f, canceled), canceled),
           NEW g, g = refreshBookProjection(ReleaseOrderFunds(saved, f.orders[o]))
    PROVE  Tidy(f.orders, g)
<1>1. PICK old \in Order : old = f.orders[o] /\ old.id = o /\ old.status # "none"
  BY DEF Copy, OrderBook
<1>2. /\ canceled \in Order /\ SameOrder(old, canceled) /\ canceled.id = o
      /\ canceled.filled = old.filled /\ canceled.status = "canceled"
  BY <1>1 DEF Order, Statuses, SameOrder
<1>3. PICK x : x = touch(f, canceled)
  OBVIOUS
<1>4. Saved(f, x) /\ Copy(x) /\ levelKey(canceled) \in x.touched /\ x.orders = f.orders
  BY <1>3, TouchAdvances DEF Saved, Advances
<1>5. SameOrder(x.orders[canceled.id], canceled)
  BY <1>1, <1>2, <1>4 DEF SameOrder
<1>6. Saved(x, saved)
  BY <1>2, <1>3, <1>4, <1>5, SaveAdvances DEF Saved
<1>7. Saved(f, saved) /\ Copy(saved)
  BY <1>4, <1>6, SavedTrans DEF Saved, Advances
<1>8. saved.orders[o] = canceled /\ \A z \in OrderIds \ {o} : saved.orders[z] = f.orders[z]
  <2>1. saved = SaveOrder(x, canceled)
    BY <1>3
  <2>2. PICK c \in Order : c = canceled /\ c.id = o
    BY <1>2
  <2>3. PICK s : s = SaveOrder(x, c)
    OBVIOUS
  <2>4. /\ Copy(s)
        /\ s.orders[c.id] = c
        /\ \A z \in OrderIds \ {c.id} : s.orders[z] = x.orders[z]
        /\ s.ok = x.ok /\ s.bal = x.bal /\ s.res = x.res
        /\ s.levels = x.levels /\ s.touched = x.touched
    BY <1>4, <2>3, SaveWrites
  <2> QED  BY <1>4, <2>1, <2>2, <2>3, <2>4
<1>9. SameOrder(saved.orders[old.id], old)
  BY <1>1, <1>2, <1>8, SameOrderTrans
<1>10. PICK h : h = ReleaseOrderFunds(saved, old)
  OBVIOUS
<1>11. LedgerOnly(saved, h)
  BY <1>1, <1>7, <1>9, <1>10, ReleaseConserves
<1>12. Copy(h) /\ h.orders = saved.orders
  BY <1>11 DEF LedgerOnly
<1>13. PICK os, ps : os = f.orders /\ ps = h.orders
  OBVIOUS
<1>14. ps[o] = canceled /\ os[o] = old /\ \A z \in OrderIds \ {o} : ps[z] = os[z]
  BY <1>1, <1>8, <1>12, <1>13
<1>15. activeOrders(ps) \subseteq activeOrders(os) \ {o}
  BY <1>2, <1>14 DEF activeOrders, isBookableOrder, OpenStatuses
<1>16. Uncrossed(ps)
  <2>1. \A z \in activeOrders(ps) : ps[z].side = os[z].side /\ ps[z].price = os[z].price
    BY <1>14, <1>15 DEF activeOrders
  <2> QED  BY <1>13, <1>15, <2>1, FewerCross DEF Uncrossed
<1>17. InTurn(os, ps)
  <2>1. ASSUME NEW z \in activeOrders(os)
        PROVE  /\ SameOrder(os[z], ps[z]) /\ ps[z].status # "pending_stop"
               /\ ps[z].filled = os[z].filled
    <3>1. z \in OrderIds /\ os[z].status # "pending_stop"
      BY DEF activeOrders, isBookableOrder, OpenStatuses
    <3>2. CASE z = o
      BY <1>2, <1>14, <3>2
    <3>3. CASE z # o
      <4>1. ps[z] = os[z]
        BY <1>14, <3>1, <3>3
      <4> QED  BY <3>1, <4>1, SameOrderTrans
    <3> QED  BY <3>2, <3>3
  <2> QED  BY <2>1 DEF InTurn
<1>18. Tidy(os, h)
  BY <1>13, <1>16, <1>17 DEF Tidy
<1>19. Tidy(os, g)
  BY <1>1, <1>10, <1>12, <1>18, RefreshTidies
<1> QED  BY <1>13, <1>19

\* A placement.
LEMMA PlaceTidies ==
    ASSUME NEW f, Copy(f), Uncrossed(f.orders), NEW new, Placeable(f, new),
           NEW g, g = enterBook(ReserveOrderFunds(SaveOrder(f, new), new), new)
    PROVE  Tidy(f.orders, g)
<1>1. PICK h : h = ReserveOrderFunds(SaveOrder(f, new), new)
  OBVIOUS
<1>2. /\ Copy(h)
      /\ h.orders[new.id] = new
      /\ \A x \in OrderIds \ {new.id} : h.orders[x] = f.orders[x]
  BY <1>1, ReserveNew
<1>3. PICK id \in OrderIds : id = new.id /\ new \in Order /\ new.status # "none"
  BY DEF Placeable, Order
<1>4. PICK os : os = f.orders
  OBVIOUS
<1>5. id \notin activeOrders(os)
  BY <1>3, <1>4 DEF Placeable, activeOrders, isBookableOrder, OpenStatuses
<1>6. ASSUME NEW ps, \A x \in OrderIds \ {id} : ps[x] = os[x]
      PROVE  InTurn(os, ps) /\ NoneCross(ps, activeOrders(ps) \ {id})
  <2>1. \A x \in activeOrders(os) : ps[x] = os[x]
    BY <1>5, <1>6 DEF activeOrders
  <2>2. PICK ids : ids = activeOrders(ps) \ {id}
    OBVIOUS
  <2>3. ids \subseteq activeOrders(os) /\ \A x \in ids : ps[x].side = os[x].side /\ ps[x].price = os[x].price
    BY <1>6, <2>2 DEF activeOrders
  <2>4. NoneCross(ps, ids)
    BY <1>4, <2>3, FewerCross
  <2> QED  BY <2>1, <2>2, <2>4, NoTurnTaken
<1>7. ASSUME NEW ps, \A x \in OrderIds \ {id} : ps[x] = os[x], id \notin activeOrders(ps)
      PROVE  Uncrossed(ps) /\ InTurn(os, ps)
  <2>1. activeOrders(ps) \ {id} = activeOrders(ps)
    BY <1>7
  <2>2. InTurn(os, ps) /\ NoneCross(ps, activeOrders(ps) \ {id})
    BY <1>6, <1>7
  <2> QED  BY <2>1, <2>2 DEF Uncrossed
<1>8. PICK hs : hs = h.orders /\ hs[id] = new /\ \A x \in OrderIds \ {id} : hs[x] = os[x]
  BY <1>2, <1>3, <1>4
<1>9. CASE ~h.ok
  <2>1. g = h
    BY <1>1, <1>9 DEF enterBook
  <2> QED  BY <1>9, <2>1 DEF Tidy
<1>10. CASE h.ok /\ new.status = "pending_stop"
  <2>1. g = h
    BY <1>1, <1>10 DEF enterBook
  <2>2. id \notin activeOrders(hs)
    BY <1>8, <1>10 DEF activeOrders, isBookableOrder, OpenStatuses
  <2>3. Uncrossed(hs) /\ InTurn(os, hs)
    BY <1>7, <1>8, <2>2
  <2> QED  BY <1>4, <1>8, <2>1, <2>3 DEF Tidy
<1>11. CASE h.ok /\ new.status # "pending_stop" /\ Mode = "async"
  <2>1. PICK o : o = [new EXCEPT !.status = "pending_match"]
    OBVIOUS
  <2>2. o \in Order /\ o.status = "pending_match" /\ o.id = id
    BY <1>3, <2>1 DEF Order, Statuses
  <2>3. g = SaveOrder(h, o)
    BY <1>1, <1>11, <2>1 DEF enterBook
  <2>4. PICK e : e = SaveOrder(h, o)
    OBVIOUS
  <2>5. /\ Copy(e)
        /\ e.orders[o.id] = o
        /\ \A x \in OrderIds \ {o.id} : e.orders[x] = h.orders[x]
        /\ e.ok = h.ok /\ e.bal = h.bal /\ e.res = h.res
        /\ e.levels = h.levels /\ e.touched = h.touched
    BY <1>2, <2>2, <2>4, SaveWrites
  <2>6. PICK ps : ps = e.orders /\ ps[id] = o /\ \A x \in OrderIds \ {id} : ps[x] = os[x]
    BY <1>8, <2>2, <2>5
  <2>7. id \notin activeOrders(ps)
    BY <2>2, <2>6 DEF activeOrders, isBookableOrder, OpenStatuses
  <2>8. Uncrossed(ps) /\ InTurn(os, ps)
    BY <1>7, <2>6, <2>7
  <2> QED  BY <1>4, <2>3, <2>4, <2>6, <2>8 DEF Tidy
<1>12. CASE h.ok /\ new.status # "pending_stop" /\ Mode # "async"
  <2>1. g = matchAndSettle(h, new)
    BY <1>1, <1>12 DEF enterBook
  <2>2. SameOrder(h.orders[new.id], new)
    BY <1>2, SameOrderTrans
  <2>3. InTurn(os, hs) /\ NoneCross(hs, activeOrders(hs) \ {id})
    BY <1>6, <1>8
  <2>4. Tidy(os, g)
    BY <1>2, <1>3, <1>5, <1>8, <2>1, <2>2, <2>3, EntryTidies
  <2> QED  BY <1>4, <2>4
<1> QED  BY <1>9, <1>10, <1>11, <1>12

-----------------------------------------------------------------------------
(* The steps of the order service.                                         *)

BookInv == OrdersInv /\ SerialBookUncrossed

\* The book after a commit.
LEMMA BookCommitted ==
    ASSUME NEW before, before = orders, NEW g, Tidy(before, g), Commit(g)
    PROVE  SerialBookUncrossed' /\ InTurn(orders, orders')
BY DEF Tidy, Commit, SerialBookUncrossed, Uncrossed, NoneCross

\* The working copy a transaction starts from, with its book.
LEMMA TablesTidy ==
    ASSUME BookInv
    PROVE  /\ Copy(Tables) /\ Tables.orders = orders
           /\ Uncrossed(orders) /\ InTurn(orders, orders) /\ Tidy(orders, Tables)
<1>1. Copy(Tables) /\ Tables.orders = orders
  BY TablesCopy DEF BookInv, OrdersInv, KeysInv, TypesInv
<1>2. Uncrossed(orders)
  BY DEF BookInv, SerialBookUncrossed, Uncrossed, NoneCross
<1>3. InTurn(orders, orders)
  BY NoTurnTaken
<1> QED  BY <1>1, <1>2, <1>3 DEF Tidy

\* Cancel.
LEMMA CancelInTurn ==
    ASSUME BookInv, NEW o \in OrderIds, Cancel(o)
    PROVE  SerialBookUncrossed' /\ InTurn(orders, orders')
<1>1. PICK f : f = Tables
  OBVIOUS
<1>2. Copy(f) /\ f.orders = orders /\ Uncrossed(f.orders)
  BY <1>1, TablesTidy
<1>3. PICK canceled : canceled = [orders[o] EXCEPT !.status = "canceled", !.remaining = 0]
  OBVIOUS
<1>4. PICK saved : saved = SaveOrder(touch(f, canceled), canceled)
  OBVIOUS
<1>5. PICK g : g = refreshBookProjection(ReleaseOrderFunds(saved, orders[o]))
  OBVIOUS
<1>6. f.orders[o].status # "none"
  BY <1>2 DEF Cancel, cancelable, Live
<1>7. Tidy(orders, g)
  BY <1>2, <1>3, <1>4, <1>5, <1>6, CancelTidies
<1>8. Commit(g)
  BY <1>1, <1>3, <1>4, <1>5 DEF Cancel
<1> QED  BY <1>7, <1>8, BookCommitted

\* The stop trigger.
LEMMA TriggerInTurn ==
    ASSUME BookInv, NEW price, TriggerStops(price)
    PROVE  SerialBookUncrossed' /\ InTurn(orders, orders')
<1>1. PICK f : f = Tables
  OBVIOUS
<1>2. Copy(f) /\ Tidy(orders, f)
  BY <1>1, TablesTidy
<1>3. PICK h : h = activateTriggeredStops(f, price)
  OBVIOUS
<1>4. Tidy(orders, h)
  BY <1>2, <1>3, StopsTidy
<1>5. Copy(h)
  BY <1>2, <1>3, StopsMove DEF Moves, Advances
<1>6. PICK g : g = refreshBookProjection(h)
  OBVIOUS
<1>7. Tidy(orders, g)
  BY <1>4, <1>5, <1>6, RefreshTidies
<1>8. Commit(g)
  BY <1>1, <1>3, <1>6 DEF TriggerStops
<1> QED  BY <1>7, <1>8, BookCommitted

\* A match job: of an order that enters the book, of one whose rest is too small to be in
\* it, or again of one that is in it.
LEMMA MatchOrderInTurn ==
    ASSUME BookInv, NEW o \in OrderIds, MatchOrder(o)
    PROVE  SerialBookUncrossed' /\ InTurn(orders, orders')
<1>1. PICK f : f = Tables
  OBVIOUS
<1>2. Copy(f) /\ f.orders = orders /\ Uncrossed(f.orders) /\ InTurn(f.orders, f.orders)
  BY <1>1, TablesTidy
<1>3. orders[o] \in Order /\ orders[o].id = o
  BY <1>2 DEF Copy, OrderBook
<1>4. orders[o].status # "none"
  BY DEF MatchOrder
<1>5. PICK item : item = IF orders[o].status = "pending_match"
                         THEN [orders[o] EXCEPT !.status = "open"] ELSE orders[o]
  OBVIOUS
<1>6. item \in Order /\ SameOrder(orders[o], item)
  <2>1. /\ [orders[o] EXCEPT !.status = "open"] \in Order
        /\ SameOrder(orders[o], [orders[o] EXCEPT !.status = "open"])
    BY <1>3, <1>4, NewStatus DEF Statuses
  <2> QED  BY <1>3, <1>5, <2>1, SameOrderTrans
<1>7. item.status # "none" /\ item.id = o
  BY <1>3, <1>4, <1>6 DEF SameOrder
<1>8. PICK g : g = matchAndSettle(f, item)
  OBVIOUS
<1>9. Commit(g)
  BY <1>1, <1>5, <1>8 DEF MatchOrder
<1>10. CASE o \in activeOrders(orders)
  <2>1. item = orders[o]
    <3>1. orders[o].status # "pending_match"
      BY <1>10 DEF activeOrders, isBookableOrder, OpenStatuses
    <3> QED  BY <1>5, <3>1
  <2>2. Tidy(f.orders, g)
    BY <1>2, <1>8, <1>10, <2>1, RematchTidies
  <2> QED  BY <1>2, <1>9, <2>2, BookCommitted
<1>11. CASE o \notin activeOrders(orders)
  <2>1. NoneCross(f.orders, activeOrders(f.orders) \ {item.id})
    BY <1>2 DEF Uncrossed, NoneCross
  <2>2. SameOrder(f.orders[item.id], item)
    BY <1>2, <1>6, <1>7
  <2>3. item.id \notin activeOrders(f.orders)
    BY <1>2, <1>7, <1>11
  <2>4. Tidy(f.orders, g)
    BY <1>2, <1>6, <1>7, <1>8, <2>1, <2>2, <2>3, EntryTidies
  <2> QED  BY <1>2, <1>9, <2>4, BookCommitted
<1> QED  BY <1>10, <1>11

\* The commit of a placement.
LEMMA CommitPlaceInTurn ==
    ASSUME BookInv, NEW r \in Requests, CommitPlace(r)
    PROVE  SerialBookUncrossed' /\ InTurn(orders, orders')
<1>1. PICK n \in OrderIds : n = NextOrderSequence(orders)
  BY DEF CommitPlace
<1>2. \A o \in OrderIds : orders[o].status # "none" <=> o < n
  BY <1>1, NextFree DEF BookInv, OrdersInv, KeysInv
<1>3. \A o \in OrderIds : o \in Nat
  BY DEF OrderIds
<1>4. PICK new : new = buildOrder(r, n)
  OBVIOUS
<1>5. /\ new \in Order /\ new.status \in {"open", "pending_stop"} /\ new.id = n
      /\ orderReserveAmount(new) > 0
  BY <1>4, BuiltOrder
<1>6. PICK f : f = Tables
  OBVIOUS
<1>7. Copy(f) /\ f.orders = orders /\ Uncrossed(f.orders)
  BY <1>6, TablesTidy
<1>8. Placeable(f, new)
  BY <1>2, <1>3, <1>5, <1>7 DEF Placeable
<1>9. PICK g : g = enterBook(ReserveOrderFunds(SaveOrder(f, new), new), new)
  OBVIOUS
<1>10. Tidy(f.orders, g)
  BY <1>7, <1>8, <1>9, PlaceTidies
<1>11. placeOrder(new) = g
  BY <1>6, <1>9 DEF placeOrder
<1>12. Commit(g)
  BY <1>1, <1>4, <1>11 DEF CommitPlace
<1> QED  BY <1>7, <1>10, <1>12, BookCommitted

\* Every step.
LEMMA StepInTurn ==
    ASSUME BookInv, [Next]_vars
    PROVE  SerialBookUncrossed' /\ InTurn(orders, orders')
<1>1. CASE orders' = orders
  <2>1. SerialBookUncrossed'
    BY <1>1 DEF BookInv, SerialBookUncrossed
  <2> QED  BY <1>1, <2>1, TablesTidy
<1>2. ASSUME NEW r \in Requests, BeginPlace(r) \/ LockPlace(r) \/ AbortPlace(r)
      PROVE  orders' = orders
  BY <1>2 DEF BeginPlace, LockPlace, AbortPlace
<1>3. CASE UNCHANGED vars
  BY <1>1, <1>3 DEF vars
<1>4. CASE Next
  BY <1>1, <1>2, <1>4, CancelInTurn, TriggerInTurn, MatchOrderInTurn, CommitPlaceInTurn DEF Next
<1> QED  BY <1>3, <1>4

\* SerialBookUncrossed: of the transactions of placements, match jobs, stop triggers and
\* cancels, run one after another, none leaves a bid in the book that reaches an ask.  That
\* overlapping ones do is what the run of MatchLocks for a crossed book shows.
THEOREM SerialMatchesUncross == Spec => []SerialBookUncrossed
<1>1. Init => SerialBookUncrossed
  <2> SUFFICES ASSUME Init PROVE SerialBookUncrossed
    OBVIOUS
  <2>1. \A o \in OrderIds : NoOrder(o).status = "none"
    BY DEF NoOrder
  <2>2. activeOrders(orders) = {}
    BY <2>1 DEF Init, activeOrders, isBookableOrder, OpenStatuses
  <2> QED  BY <2>2 DEF SerialBookUncrossed
<1>2. OrdersInv /\ SerialBookUncrossed /\ [Next]_vars => SerialBookUncrossed'
  BY StepInTurn DEF BookInv
<1>3. Spec => []OrdersInv
  BY OrdersInvariant
<1> QED  BY <1>1, <1>2, <1>3, PTL DEF Spec

\* PriceTimePriority: in transactions run one after another, a maker is filled only when
\* those before it have left the book.
THEOREM TurnsAreKept == Spec => PriceTimePriority
<1>1. ASSUME OrdersInv, SerialBookUncrossed, [Next]_vars
      PROVE  [\A m, x \in activeOrders(orders) :
                 /\ isBefore(orders[x], orders[m])
                 /\ orders'[m].filled > orders[m].filled
                 => x \notin activeOrders(orders')]_vars
  <2>1. InTurn(orders, orders')
    BY <1>1, StepInTurn DEF BookInv
  <2>2. OrderBook(orders)
    BY <1>1 DEF OrdersInv, KeysInv, TypesInv
  <2>3. ASSUME NEW m \in activeOrders(orders), NEW x \in activeOrders(orders),
               isBefore(orders[x], orders[m]), orders'[m].filled > orders[m].filled
        PROVE  x \notin activeOrders(orders')
    <3>1. orders[m].filled \in Nat
      BY <2>2 DEF activeOrders, OrderBook, Order
    <3>2. orders'[m].filled # orders[m].filled
      BY <2>3, <3>1
    <3> QED  BY <2>1, <2>3, <3>2 DEF InTurn
  <2> QED  BY <2>3
<1>2. Spec => []OrdersInv
  BY OrdersInvariant
<1> QED  BY <1>1, <1>2, SerialMatchesUncross, PTL DEF Spec, PriceTimePriority

=============================================================================
