---------------------------- MODULE ReplayProofs ----------------------------
(***************************************************************************)
(* Proofs about BookReplay: the prices, queues and index of the resident   *)
(* book agree, it is never crossed, a snapshot and the results logged      *)
(* since rebuild it, and it matches an order as the engine does.           *)
(*                                                                         *)
(* GoodBook is what the operations of MarketBook keep: lists in order on   *)
(* each side and an index of what is in them.  Such a book is determined   *)
(* by the set of its orders (BooksEqual), so each operation is described   *)
(* by what it does to that set: insertResting adds an order, removeOrder   *)
(* takes one out, Apply and ApplyResult put back the orders of a result as *)
(* the result has them (Traced), CaptureState lists the set and            *)
(* RestoreMarketBook makes the book of a list again.  The rounds of Apply  *)
(* end with nothing in the book at a price the order reaches (FacesNone),  *)
(* which is why its rest does not cross the book.  Round by round they     *)
(* are where MatchLimit is in its list of the other side (InStep).         *)
(***************************************************************************)
EXTENDS BookReplay, LedgerProofs, FiniteSetTheorems, WellFoundedInduction

-----------------------------------------------------------------------------
(* The loops of the book, as folds.                                        *)

loadStep(c, b, o) == loadOrder(b, o)
noClaim(c, b) == TRUE

Loads == INSTANCE FoldLemmas WITH step <- loadStep, Good <- noClaim

-----------------------------------------------------------------------------
(* Lists.                                                                  *)

\* A list with one more element in its place.
LEMMA InsertAtPlaces ==
    ASSUME NEW S, NEW s \in Seq(S), NEW e \in S, NEW i \in 1..(Len(s) + 1)
    PROVE  /\ InsertAt(s, i, e) \in Seq(S)
           /\ Len(InsertAt(s, i, e)) = Len(s) + 1
           /\ InsertAt(s, i, e)[i] = e
           /\ \A j \in 1..(i - 1) : InsertAt(s, i, e)[j] = s[j]
           /\ \A j \in (i + 1)..(Len(s) + 1) : InsertAt(s, i, e)[j] = s[j - 1]
<1> DEFINE a == SubSeq(s, 1, i - 1)
           z == SubSeq(s, i, Len(s))
<1>1. /\ a \in Seq(S) /\ Len(a) = i - 1
      /\ \A j \in 1..(i - 1) : a[j] = s[j]
  OBVIOUS
<1>2. /\ z \in Seq(S) /\ Len(z) = Len(s) - i + 1
      /\ \A j \in 1..(Len(s) - i + 1) : z[j] = s[i + j - 1]
  OBVIOUS
<1>3. InsertAt(s, i, e) = (a \o <<e>>) \o z
  BY DEF InsertAt
<1> HIDE DEF a, z
<1> DEFINE h == a \o <<e>>
<1>4. /\ h \in Seq(S) /\ Len(h) = i /\ h[i] = e
      /\ \A j \in 1..(i - 1) : h[j] = s[j]
  BY <1>1
<1> HIDE DEF h
<1>5. /\ h \o z \in Seq(S) /\ Len(h \o z) = Len(s) + 1
      /\ \A j \in 1..i : (h \o z)[j] = h[j]
      /\ \A j \in (i + 1)..(Len(s) + 1) : (h \o z)[j] = z[j - i]
  BY <1>2, <1>4
<1>6. \A j \in (i + 1)..(Len(s) + 1) : z[j - i] = s[j - 1]
  <2>1. ASSUME NEW j \in (i + 1)..(Len(s) + 1) PROVE z[j - i] = s[j - 1]
    <3>1. j - i \in 1..(Len(s) - i + 1) /\ i + (j - i) - 1 = j - 1
      OBVIOUS
    <3> QED  BY <1>2, <3>1
  <2> QED  BY <2>1
<1> QED  BY <1>3, <1>4, <1>5, <1>6 DEF h

\* The list c holds a at its first k places and z at the m places that follow.
JoinedAs(S, c, a, k, z, m) ==
    /\ c \in Seq(S) /\ Len(c) = k + m
    /\ \A j \in 1..k : c[j] = a[j]
    /\ \A j \in (k + 1)..(k + m) : c[j] = z[j - k]

\* The places of two lists joined.
LEMMA ConcatPlaces ==
    ASSUME NEW S, NEW a \in Seq(S), NEW z \in Seq(S), NEW k \in Nat, NEW m \in Nat,
           Len(a) = k, Len(z) = m
    PROVE  JoinedAs(S, a \o z, a, k, z, m)
<1>1. a \o z \in Seq(S) /\ Len(a \o z) = k + m
  OBVIOUS
<1>2. ASSUME NEW j \in 1..k PROVE (a \o z)[j] = a[j]
  OBVIOUS
<1>3. ASSUME NEW j \in (k + 1)..(k + m) PROVE (a \o z)[j] = z[j - k]
  OBVIOUS
<1> QED  BY <1>1, <1>2, <1>3 DEF JoinedAs

\* A list without one of its elements.
LEMMA RemoveAtPlaces ==
    ASSUME NEW S, NEW s \in Seq(S), NEW i \in 1..Len(s)
    PROVE  /\ RemoveAt(s, i) \in Seq(S)
           /\ Len(RemoveAt(s, i)) = Len(s) - 1
           /\ \A j \in 1..(i - 1) : RemoveAt(s, i)[j] = s[j]
           /\ \A j \in i..(Len(s) - 1) : RemoveAt(s, i)[j] = s[j + 1]
<1> DEFINE a == SubSeq(s, 1, i - 1)
           z == SubSeq(s, i + 1, Len(s))
<1>1. /\ a \in Seq(S) /\ Len(a) = i - 1
      /\ \A j \in 1..(i - 1) : a[j] = s[j]
  OBVIOUS
<1>2. /\ z \in Seq(S) /\ Len(z) = Len(s) - i
      /\ \A j \in 1..(Len(s) - i) : z[j] = s[i + j]
  OBVIOUS
<1>3. RemoveAt(s, i) = a \o z
  BY DEF RemoveAt
<1> HIDE DEF a, z
<1>4. PICK n \in Nat : n = Len(s) /\ i \in 1..n
  OBVIOUS
<1>5. PICK k \in Nat : k = i - 1 /\ k < n
  BY <1>4
<1>6. PICK m \in Nat : m = n - i /\ k + m = n - 1
  <2>1. n - i \in Nat /\ k + (n - i) = n - 1
    BY <1>4, <1>5
  <2> QED  BY <2>1, Zenon
<1>7. Len(a) = k /\ Len(z) = m /\ a \in Seq(S) /\ z \in Seq(S)
  BY <1>1, <1>2, <1>4, <1>5, <1>6
<1>8. /\ a \o z \in Seq(S) /\ Len(a \o z) = k + m
      /\ \A j \in 1..k : (a \o z)[j] = a[j]
      /\ \A j \in (k + 1)..(k + m) : (a \o z)[j] = z[j - k]
  <2>1. JoinedAs(S, a \o z, a, k, z, m)
    BY <1>7, ConcatPlaces
  <2>2. PICK c : c = a \o z
    OBVIOUS
  <2> QED  BY <2>1, <2>2 DEF JoinedAs
<1>9. ASSUME NEW j \in 1..(i - 1) PROVE (a \o z)[j] = s[j]
  <2>1. j \in 1..k
    BY <1>5
  <2> QED  BY <1>1, <1>8, <2>1
<1>10. ASSUME NEW j \in i..(n - 1) PROVE (a \o z)[j] = s[j + 1]
  <2>1. j \in (k + 1)..(k + m) /\ j - k \in 1..m /\ i + (j - k) = j + 1
    BY <1>4, <1>5, <1>6
  <2>2. z[j - k] = s[i + (j - k)]
    BY <1>2, <1>4, <1>6, <2>1
  <2> QED  BY <1>8, <2>1, <2>2
<1>11. Len(a \o z) = Len(s) - 1
  BY <1>4, <1>6, <1>8
<1> QED  BY <1>3, <1>4, <1>8, <1>9, <1>10, <1>11

\* The first of some places of a list, or the end.
LEMMA FirstPlace ==
    ASSUME NEW n \in Nat, NEW S \in SUBSET (1..n)
    PROVE  /\ Min(S \cup {n + 1}) \in 1..(n + 1)
           /\ Min(S \cup {n + 1}) \in S \/ Min(S \cup {n + 1}) = n + 1
           /\ \A k \in S : Min(S \cup {n + 1}) <= k
<1> DEFINE P == S \cup {n + 1}
<1>1. P \in SUBSET Nat /\ P # {}
  OBVIOUS
<1>2. PICK m \in P : \A k \in P : m <= k
  BY <1>1, Loads!LeastNumber
<1>3. Min(P) \in P /\ \A k \in P : Min(P) <= k
  BY <1>2 DEF Min
<1>4. \A k \in P : k \in S \/ k = n + 1
  OBVIOUS
<1>5. \A k \in P : k \in 1..(n + 1)
  OBVIOUS
<1>6. \A k \in S : k \in P
  OBVIOUS
<1> HIDE DEF P
<1>7. /\ Min(P) \in 1..(n + 1) /\ (Min(P) \in S \/ Min(P) = n + 1)
      /\ \A k \in S : Min(P) <= k
  BY <1>3, <1>4, <1>5, <1>6
<1> QED  BY <1>7 DEF P

\* The elements of a list with one more.
LEMMA InsertAtElements ==
    ASSUME NEW S, NEW s \in Seq(S), NEW e \in S, NEW i \in 1..(Len(s) + 1)
    PROVE  Range(InsertAt(s, i, e)) = Range(s) \cup {e}
<1> DEFINE t == InsertAt(s, i, e)
<1>1. /\ t \in Seq(S) /\ Len(t) = Len(s) + 1 /\ t[i] = e
      /\ \A j \in 1..(i - 1) : t[j] = s[j]
      /\ \A j \in (i + 1)..(Len(s) + 1) : t[j] = s[j - 1]
  BY InsertAtPlaces
<1> HIDE DEF t
<1>2. DOMAIN t = 1..(Len(s) + 1) /\ DOMAIN s = 1..Len(s)
  BY <1>1
<1>3. ASSUME NEW j \in 1..(Len(s) + 1) PROVE t[j] \in Range(s) \cup {e}
  <2>1. CASE j = i
    BY <1>1, <2>1
  <2>2. CASE j < i
    <3>1. j \in 1..(i - 1) /\ j \in DOMAIN s
      BY <1>2, <2>2
    <3> QED  BY <1>1, <3>1 DEF Range
  <2>3. CASE j > i
    <3>1. j \in (i + 1)..(Len(s) + 1) /\ j - 1 \in DOMAIN s
      BY <1>2, <2>3
    <3> QED  BY <1>1, <3>1 DEF Range
  <2> QED  BY <2>1, <2>2, <2>3
<1>4. ASSUME NEW j \in 1..Len(s) PROVE s[j] \in Range(t)
  <2>1. CASE j < i
    <3>1. j \in 1..(i - 1) /\ j \in DOMAIN t
      BY <1>2, <2>1
    <3> QED  BY <1>1, <3>1 DEF Range
  <2>2. CASE j >= i
    <3>1. j + 1 \in (i + 1)..(Len(s) + 1) /\ j + 1 \in DOMAIN t /\ (j + 1) - 1 = j
      BY <1>2, <2>2
    <3>2. t[j + 1] = s[j]
      BY <1>1, <3>1
    <3> QED  BY <3>1, <3>2 DEF Range
  <2> QED  BY <2>1, <2>2
<1>5. e \in Range(t)
  BY <1>1, <1>2 DEF Range
<1>6. Range(t) \subseteq Range(s) \cup {e}
  BY <1>2, <1>3 DEF Range
<1>7. Range(s) \subseteq Range(t)
  BY <1>2, <1>4 DEF Range
<1>8. Range(t) = Range(s) \cup {e}
  BY <1>5, <1>6, <1>7
<1> QED  BY <1>8 DEF t

\* A list is in the order of R.
Sorted(R, s) == \A i, j \in 1..Len(s) : i < j => <<s[i], s[j]>> \in R

\* A list stays in order when an element is put where it belongs.
LEMMA InsertAtSorted ==
    ASSUME NEW S, NEW R, NEW s \in Seq(S), NEW e \in S, NEW i \in 1..(Len(s) + 1),
           Sorted(R, s),
           \A j \in 1..(i - 1) : <<s[j], e>> \in R,
           \A j \in i..Len(s) : <<e, s[j]>> \in R
    PROVE  Sorted(R, InsertAt(s, i, e))
<1> DEFINE t == InsertAt(s, i, e)
<1>1. /\ t \in Seq(S) /\ Len(t) = Len(s) + 1 /\ t[i] = e
      /\ \A j \in 1..(i - 1) : t[j] = s[j]
      /\ \A j \in (i + 1)..(Len(s) + 1) : t[j] = s[j - 1]
  BY InsertAtPlaces
<1> HIDE DEF t
<1>2. ASSUME NEW k \in 1..Len(t), NEW j \in 1..Len(t), k < j PROVE <<t[k], t[j]>> \in R
  <2>1. CASE j < i
    <3>1. k \in 1..(i - 1) /\ j \in 1..(i - 1) /\ k \in 1..Len(s) /\ j \in 1..Len(s)
      BY <1>1, <1>2, <2>1
    <3> QED  BY <1>1, <1>2, <3>1 DEF Sorted
  <2>2. CASE j = i
    <3>1. k \in 1..(i - 1)
      BY <1>1, <1>2, <2>2
    <3> QED  BY <1>1, <2>2, <3>1
  <2>3. CASE j > i /\ k = i
    <3>1. j \in (i + 1)..(Len(s) + 1) /\ j - 1 \in i..Len(s)
      BY <1>1, <2>3
    <3> QED  BY <1>1, <2>3, <3>1
  <2>4. CASE j > i /\ k > i
    <3>1. /\ j \in (i + 1)..(Len(s) + 1) /\ j - 1 \in 1..Len(s)
          /\ k \in (i + 1)..(Len(s) + 1) /\ k - 1 \in 1..Len(s) /\ k - 1 < j - 1
      BY <1>1, <1>2, <2>4
    <3>2. <<s[k - 1], s[j - 1]>> \in R
      BY <3>1 DEF Sorted
    <3> QED  BY <1>1, <3>1, <3>2
  <2>5. CASE j > i /\ k < i
    <3>1. /\ j \in (i + 1)..(Len(s) + 1) /\ j - 1 \in 1..Len(s)
          /\ k \in 1..(i - 1) /\ k \in 1..Len(s) /\ k < j - 1
      BY <1>1, <1>2, <2>5
    <3>2. <<s[k], s[j - 1]>> \in R
      BY <3>1 DEF Sorted
    <3> QED  BY <1>1, <3>1, <3>2
  <2> QED  BY <1>1, <1>2, <2>1, <2>2, <2>3, <2>4, <2>5
<1>3. Sorted(R, t)
  BY <1>2 DEF Sorted
<1> QED  BY <1>3 DEF t

\* What is taken out of a list was in it, and the rest is as it was.
LEMMA RemoveAtSorted ==
    ASSUME NEW S, NEW R, NEW s \in Seq(S), NEW i \in 1..Len(s), Sorted(R, s)
    PROVE  Sorted(R, RemoveAt(s, i))
<1> DEFINE t == RemoveAt(s, i)
<1>1. /\ t \in Seq(S) /\ Len(t) = Len(s) - 1
      /\ \A j \in 1..(i - 1) : t[j] = s[j]
      /\ \A j \in i..(Len(s) - 1) : t[j] = s[j + 1]
  BY RemoveAtPlaces
<1> HIDE DEF t
<1> DEFINE from(j) == IF j < i THEN j ELSE j + 1
<1>2. ASSUME NEW j \in 1..Len(t) PROVE from(j) \in 1..Len(s) /\ t[j] = s[from(j)]
  <2>1. CASE j < i
    <3>1. j \in 1..(i - 1)
      BY <2>1
    <3> QED  BY <1>1, <2>1, <3>1
  <2>2. CASE j >= i
    <3>1. j \in i..(Len(s) - 1) /\ ~(j < i)
      BY <1>1, <2>2
    <3> QED  BY <1>1, <3>1
  <2> QED  BY <1>1, <2>1, <2>2
<1>3. ASSUME NEW k \in 1..Len(t), NEW j \in 1..Len(t), k < j PROVE <<t[k], t[j]>> \in R
  <2>1. from(k) < from(j)
    BY <1>1, <1>3
  <2> QED  BY <1>2, <2>1 DEF Sorted
<1>4. Sorted(R, t)
  BY <1>3 DEF Sorted
<1> QED  BY <1>4 DEF t

\* The elements of a list, which are all different, without one of them.
LEMMA RemoveAtElements ==
    ASSUME NEW S, NEW s \in Seq(S), NEW i \in 1..Len(s),
           \A j, k \in 1..Len(s) : s[j] = s[k] => j = k
    PROVE  Range(RemoveAt(s, i)) = Range(s) \ {s[i]}
<1> DEFINE t == RemoveAt(s, i)
<1>1. /\ t \in Seq(S) /\ Len(t) = Len(s) - 1
      /\ \A j \in 1..(i - 1) : t[j] = s[j]
      /\ \A j \in i..(Len(s) - 1) : t[j] = s[j + 1]
  BY RemoveAtPlaces
<1> HIDE DEF t
<1>2. DOMAIN t = 1..(Len(s) - 1) /\ DOMAIN s = 1..Len(s)
  BY <1>1
<1>3. ASSUME NEW j \in 1..(Len(s) - 1) PROVE t[j] \in Range(s) \ {s[i]}
  <2>1. CASE j < i
    <3>1. j \in 1..(i - 1) /\ j \in 1..Len(s) /\ j # i
      BY <2>1
    <3>2. t[j] = s[j] /\ s[j] # s[i]
      BY <1>1, <3>1
    <3> QED  BY <1>2, <3>1, <3>2 DEF Range
  <2>2. CASE j >= i
    <3>1. PICK k \in 1..Len(s) : k = j + 1 /\ k # i
      BY <2>2
    <3>2. j \in i..(Len(s) - 1)
      BY <2>2
    <3>3. t[j] = s[k] /\ s[k] # s[i]
      BY <1>1, <3>1, <3>2
    <3> QED  BY <1>2, <3>1, <3>3 DEF Range
  <2> QED  BY <2>1, <2>2
<1>4. ASSUME NEW j \in 1..Len(s), j # i PROVE s[j] \in Range(t)
  <2>1. CASE j < i
    <3>1. j \in 1..(i - 1) /\ j \in DOMAIN t
      BY <1>2, <2>1
    <3> QED  BY <1>1, <3>1 DEF Range
  <2>2. CASE j > i
    <3>1. j - 1 \in i..(Len(s) - 1) /\ j - 1 \in DOMAIN t /\ (j - 1) + 1 = j
      BY <1>2, <2>2
    <3>2. t[j - 1] = s[j]
      BY <1>1, <3>1
    <3> QED  BY <3>1, <3>2 DEF Range
  <2> QED  BY <1>4, <2>1, <2>2
<1>5. Range(t) \subseteq Range(s) \ {s[i]}
  BY <1>2, <1>3 DEF Range
<1>6. Range(s) \ {s[i]} \subseteq Range(t)
  BY <1>2, <1>4 DEF Range
<1>7. Range(t) = Range(s) \ {s[i]}
  BY <1>5, <1>6
<1> QED  BY <1>7 DEF t

-----------------------------------------------------------------------------
(* The two sides of a book.                                                *)

AnyOrder == [id : OrderIds, user : Users, side : Sides,
             type : {"limit", "market", "stop_limit"}, tif : {"gtc", "ioc"},
             status : {"none", "pending_match", "pending_stop", "open", "partially_filled",
                       "filled", "canceled", "expired"},
             price : Nat \ {0}, stop : Nat, filled : Nat, remaining : Nat]

Prices == Nat \ {0}
Queues == UNION {[D -> Seq(AnyOrder)] : D \in SUBSET Prices}
SideShape == [prices : Seq(Prices), levels : Queues]

\* What comes before what: on a side the best price, in a queue the earliest order.
PriceOrder(sd) ==
    {x \in Prices \X Prices : IF sd = "buy" THEN x[1] > x[2] ELSE x[1] < x[2]}
IdOrder == {x \in AnyOrder \X AnyOrder : x[1].id < x[2].id}

rests(o, sd, p) == o \in AnyOrder /\ o.side = sd /\ o.price = p /\ isBookable(o)

GoodQueue(q, sd, p) ==
    /\ q \in Seq(AnyOrder) /\ q # <<>>
    /\ Sorted(IdOrder, q)
    /\ \A i \in 1..Len(q) : rests(q[i], sd, p)

GoodSide(s, sd) ==
    /\ s \in SideShape
    /\ Sorted(PriceOrder(sd), s.prices)
    /\ Range(s.prices) = DOMAIN s.levels
    /\ \A p \in DOMAIN s.levels : GoodQueue(s.levels[p], sd, p)

\* The orders on a side.
Entries(s) == UNION {Range(s.levels[p]) : p \in DOMAIN s.levels}

\* What the fields of an order are.
LEMMA OrderTyped ==
    ASSUME NEW o \in AnyOrder
    PROVE  /\ o.id \in OrderIds /\ o.id \in Nat /\ o.id >= 1
           /\ o.side \in Sides
           /\ o.price \in Nat /\ o.price > 0 /\ o.price \in Prices
           /\ o.remaining \in Nat /\ o.filled \in Nat
<1>1. o.id \in OrderIds /\ o.side \in Sides /\ o.price \in Nat \ {0}
  BY DEF AnyOrder
<1>2. o.remaining \in Nat /\ o.filled \in Nat
  BY DEF AnyOrder
<1> QED  BY <1>1, <1>2, LedgerAssumption DEF OrderIds, Prices

\* The order of a queue.
LEMMA IdOrderIs ==
    ASSUME NEW x, NEW y, <<x, y>> \in IdOrder
    PROVE  x.id < y.id
<1>1. PICK z : z = <<x, y>>
  OBVIOUS
<1> QED  BY <1>1 DEF IdOrder

\* The order of the prices of a side.
LEMMA PriceOrderIs ==
    ASSUME NEW sd, NEW x, NEW y, <<x, y>> \in PriceOrder(sd)
    PROVE  x \in Nat /\ y \in Nat /\ IF sd = "buy" THEN x > y ELSE x < y
BY DEF PriceOrder, Prices

\* In a queue an order is found by its id, and its place by the order.
LEMMA QueueIsInjective ==
    ASSUME NEW sd, NEW p, NEW q, GoodQueue(q, sd, p), NEW i \in 1..Len(q), NEW j \in 1..Len(q),
           q[i].id = q[j].id
    PROVE  i = j
<1>1. i < j => q[i].id < q[j].id
  BY DEF GoodQueue, Sorted, IdOrder
<1>2. j < i => q[j].id < q[i].id
  BY DEF GoodQueue, Sorted, IdOrder
<1>3. q[i] \in AnyOrder /\ i \in Int /\ j \in Int
  BY DEF GoodQueue, rests
<1>4. q[i].id \in Nat
  BY <1>3, OrderTyped
<1> QED  BY <1>1, <1>2, <1>3, <1>4

\* A price is in the list of a side once.
LEMMA PricesAreInjective ==
    ASSUME NEW sd, NEW s, GoodSide(s, sd), NEW i \in 1..Len(s.prices), NEW j \in 1..Len(s.prices),
           s.prices[i] = s.prices[j]
    PROVE  i = j
<1>1. i < j => <<s.prices[i], s.prices[j]>> \in PriceOrder(sd)
  BY DEF GoodSide, Sorted
<1>2. j < i => <<s.prices[j], s.prices[i]>> \in PriceOrder(sd)
  BY DEF GoodSide, Sorted
<1>3. \A x, y : <<x, y>> \in PriceOrder(sd) => x # y
  BY PriceOrderIs
<1>4. ~(i < j) /\ ~(j < i)
  BY <1>1, <1>2, <1>3
<1> QED  BY <1>4

\* The order takes its place in a queue.
LEMMA EnqueueGood ==
    ASSUME NEW sd, NEW p, NEW q, GoodQueue(q, sd, p), NEW o, rests(o, sd, p),
           \A i \in 1..Len(q) : q[i].id # o.id
    PROVE  GoodQueue(enqueue(q, o), sd, p) /\ Range(enqueue(q, o)) = Range(q) \cup {o}
<1> DEFINE later == {i \in 1..Len(q) : q[i].id > o.id}
<1>1. q \in Seq(AnyOrder) /\ Len(q) \in Nat /\ o \in AnyOrder /\ DOMAIN q = 1..Len(q)
  BY DEF GoodQueue, rests
<1>2. PICK m : m = Min(later \cup {Len(q) + 1})
  OBVIOUS
<1>3. /\ m \in 1..(Len(q) + 1) /\ (m \in later \/ m = Len(q) + 1)
      /\ \A k \in later : m <= k
  BY <1>1, <1>2, FirstPlace
<1>4. enqueue(q, o) = InsertAt(q, m, o)
  BY <1>2 DEF enqueue, insertBefore
<1>14. \A i \in 1..Len(q) : q[i] \in AnyOrder
  BY DEF GoodQueue, rests
<1>5. \A i \in 1..Len(q) : q[i] \in AnyOrder /\ q[i].id \in Int
  BY <1>14, OrderTyped
<1>6. o.id \in Int
  BY <1>1, OrderTyped
<1>7. \A j \in 1..(m - 1) : <<q[j], o>> \in IdOrder
  <2>1. ASSUME NEW j \in 1..(m - 1) PROVE <<q[j], o>> \in IdOrder
    <3>1. j \in 1..Len(q) /\ j \notin later
      BY <1>1, <1>3
    <3>2. q[j].id < o.id
      BY <1>5, <1>6, <3>1
    <3> QED  BY <1>1, <1>5, <3>1, <3>2 DEF IdOrder
  <2> QED  BY <2>1
<1>8. \A j \in m..Len(q) : <<o, q[j]>> \in IdOrder
  <2>1. ASSUME NEW j \in m..Len(q) PROVE <<o, q[j]>> \in IdOrder
    <3>1. m \in later /\ j \in 1..Len(q)
      BY <1>1, <1>3
    <3>2. q[m].id > o.id
      BY <3>1
    <3>3. m < j => q[m].id < q[j].id
      BY <3>1 DEF GoodQueue, Sorted, IdOrder
    <3>4. q[j].id > o.id
      BY <1>3, <1>5, <1>6, <3>1, <3>2, <3>3
    <3> QED  BY <1>1, <1>5, <3>1, <3>4 DEF IdOrder
  <2> QED  BY <2>1
<1> HIDE DEF later
<1>9. Sorted(IdOrder, q)
  BY DEF GoodQueue
<1>10. PICK t : t = InsertAt(q, m, o)
  OBVIOUS
<1>11. /\ t \in Seq(AnyOrder) /\ Len(t) = Len(q) + 1
       /\ Sorted(IdOrder, t) /\ Range(t) = Range(q) \cup {o}
  BY <1>1, <1>3, <1>7, <1>8, <1>9, <1>10, InsertAtPlaces, InsertAtSorted, InsertAtElements
<1>12. \A i \in 1..Len(t) : rests(t[i], sd, p)
  <2>1. \A i \in 1..Len(t) : t[i] \in Range(q) \cup {o}
    BY <1>11 DEF Range
  <2>2. \A x \in Range(q) : rests(x, sd, p)
    BY <1>1 DEF Range, GoodQueue
  <2> QED  BY <2>1, <2>2
<1>13. t # <<>>
  BY <1>1, <1>11
<1> QED  BY <1>4, <1>10, <1>11, <1>12, <1>13 DEF GoodQueue

\* A new price takes its place on its side.
LEMMA InsertPriceSorted ==
    ASSUME NEW sd \in Sides, NEW ps \in Seq(Prices), Sorted(PriceOrder(sd), ps),
           NEW o \in AnyOrder, o.side = sd, o.price \notin Range(ps)
    PROVE  /\ insertPrice(ps, o) \in Seq(Prices)
           /\ Sorted(PriceOrder(sd), insertPrice(ps, o))
           /\ Range(insertPrice(ps, o)) = Range(ps) \cup {o.price}
<1> DEFINE worse == {i \in 1..Len(ps) : IF o.side = "buy" THEN ps[i] < o.price
                                                          ELSE ps[i] > o.price}
<1>1. Len(ps) \in Nat /\ o.price \in Prices /\ DOMAIN ps = 1..Len(ps)
  BY DEF AnyOrder, Prices
<1>2. PICK m : m = Min(worse \cup {Len(ps) + 1})
  OBVIOUS
<1>3. /\ m \in 1..(Len(ps) + 1) /\ (m \in worse \/ m = Len(ps) + 1)
      /\ \A k \in worse : m <= k
  BY <1>1, <1>2, FirstPlace
<1>4. insertPrice(ps, o) = InsertAt(ps, m, o.price)
  BY <1>2 DEF insertPrice, insertBefore
<1>5. \A i \in 1..Len(ps) : ps[i] \in Prices /\ ps[i] # o.price
  BY <1>1 DEF Range
<1>7. \A j \in 1..(m - 1) : <<ps[j], o.price>> \in PriceOrder(sd)
  <2>1. ASSUME NEW j \in 1..(m - 1) PROVE <<ps[j], o.price>> \in PriceOrder(sd)
    <3>1. j \in 1..Len(ps) /\ j \notin worse
      BY <1>1, <1>3
    <3> QED  BY <1>1, <1>5, <3>1 DEF PriceOrder, Prices
  <2> QED  BY <2>1
<1>8. \A j \in m..Len(ps) : <<o.price, ps[j]>> \in PriceOrder(sd)
  <2>1. ASSUME NEW j \in m..Len(ps) PROVE <<o.price, ps[j]>> \in PriceOrder(sd)
    <3>1. m \in worse /\ j \in 1..Len(ps) /\ m \in 1..Len(ps)
      BY <1>1, <1>3
    <3>2. m < j => <<ps[m], ps[j]>> \in PriceOrder(sd)
      BY <3>1 DEF Sorted
    <3>3. ps[m] \in Prices /\ ps[j] \in Prices
      BY <1>5, <3>1
    <3>4. <<o.price, ps[m]>> \in PriceOrder(sd)
      BY <1>1, <3>1, <3>3 DEF PriceOrder, Prices
    <3> QED  BY <1>1, <1>3, <3>1, <3>2, <3>3, <3>4 DEF PriceOrder, Prices
  <2> QED  BY <2>1
<1> HIDE DEF worse
<1>9. InsertAt(ps, m, o.price) \in Seq(Prices)
  BY <1>1, <1>3, InsertAtPlaces
<1>10. Sorted(PriceOrder(sd), InsertAt(ps, m, o.price))
  BY <1>1, <1>3, <1>7, <1>8, InsertAtSorted
<1>11. Range(InsertAt(ps, m, o.price)) = Range(ps) \cup {o.price}
  BY <1>1, <1>3, InsertAtElements
<1> QED  BY <1>4, <1>9, <1>10, <1>11

\* A queue that loses an order which is not its last one.
LEMMA DequeueGood ==
    ASSUME NEW sd, NEW p, NEW q, GoodQueue(q, sd, p), NEW i \in 1..Len(q), Len(q) # 1
    PROVE  GoodQueue(RemoveAt(q, i), sd, p) /\ Range(RemoveAt(q, i)) = Range(q) \ {q[i]}
<1>1. q \in Seq(AnyOrder) /\ Len(q) \in Nat /\ DOMAIN q = 1..Len(q) /\ Sorted(IdOrder, q)
  BY DEF GoodQueue
<1>2. \A j, k \in 1..Len(q) : q[j] = q[k] => j = k
  BY QueueIsInjective
<1>3. PICK t : t = RemoveAt(q, i)
  OBVIOUS
<1>4. t \in Seq(AnyOrder) /\ Len(t) = Len(q) - 1 /\ Sorted(IdOrder, t)
  BY <1>1, <1>3, RemoveAtPlaces, RemoveAtSorted
<1>5. Range(t) = Range(q) \ {q[i]}
  BY <1>1, <1>2, <1>3, RemoveAtElements
<1>6. \A j \in 1..Len(t) : rests(t[j], sd, p)
  <2>1. \A j \in 1..Len(t) : t[j] \in Range(q)
    BY <1>4, <1>5 DEF Range
  <2>2. \A x \in Range(q) : rests(x, sd, p)
    BY <1>1 DEF Range, GoodQueue
  <2> QED  BY <2>1, <2>2
<1>7. t # <<>>
  BY <1>1, <1>4
<1> QED  BY <1>3, <1>4, <1>5, <1>6, <1>7 DEF GoodQueue

\* A queue whose first order was filled in part.
LEMMA ReplaceGood ==
    ASSUME NEW sd, NEW p, NEW q, GoodQueue(q, sd, p), NEW o, rests(o, sd, p), o.id = q[1].id
    PROVE  /\ GoodQueue([q EXCEPT ![1] = o], sd, p)
           /\ Range([q EXCEPT ![1] = o]) = (Range(q) \ {q[1]}) \cup {o}
<1>1. q \in Seq(AnyOrder) /\ Len(q) \in Nat /\ DOMAIN q = 1..Len(q) /\ 1 \in 1..Len(q)
  BY DEF GoodQueue
<1>2. PICK t : t = [q EXCEPT ![1] = o]
  OBVIOUS
<1>3. /\ t \in Seq(AnyOrder) /\ Len(t) = Len(q) /\ t[1] = o
      /\ \A j \in 1..Len(q) : j # 1 => t[j] = q[j]
  BY <1>1, <1>2 DEF rests
<1>4. ASSUME NEW j \in 1..Len(t), NEW k \in 1..Len(t), j < k PROVE <<t[j], t[k]>> \in IdOrder
  <2>1. <<q[j], q[k]>> \in IdOrder
    BY <1>3, <1>4 DEF GoodQueue, Sorted
  <2>2. q[j].id < q[k].id
    BY <2>1, IdOrderIs
  <2>3. t[j].id = q[j].id /\ t[k] = q[k]
    BY <1>3, <1>4
  <2>4. t[j] \in AnyOrder /\ t[k] \in AnyOrder
    BY <1>3
  <2> QED  BY <2>2, <2>3, <2>4 DEF IdOrder
<1>5. \A j \in 1..Len(t) : rests(t[j], sd, p)
  BY <1>3 DEF GoodQueue
<1>6. Range(t) = (Range(q) \ {q[1]}) \cup {o}
  <2>1. \A j \in 1..Len(q) : q[j] = q[1] => j = 1
    BY <1>1, QueueIsInjective
  <2>2. DOMAIN t = 1..Len(q)
    BY <1>3
  <2> QED  BY <1>1, <1>3, <2>1, <2>2 DEF Range
<1>7. t # <<>>
  BY <1>1, <1>3
<1>8. Sorted(IdOrder, t)
  BY <1>4 DEF Sorted
<1>9. GoodQueue(t, sd, p)
  BY <1>3, <1>5, <1>7, <1>8 DEF GoodQueue
<1> QED  BY <1>2, <1>6, <1>9

\* One queue of a side is changed.
setQueue(s, p, q) == [prices |-> s.prices, levels |-> [s.levels EXCEPT ![p] = q]]

\* The queue of a price is replaced.
LEMMA SetQueueGood ==
    ASSUME NEW sd, NEW s, GoodSide(s, sd), NEW p \in DOMAIN s.levels, NEW q, GoodQueue(q, sd, p)
    PROVE  /\ GoodSide(setQueue(s, p, q), sd)
           /\ Entries(setQueue(s, p, q)) = (Entries(s) \ Range(s.levels[p])) \cup Range(q)
<1>1. PICK D \in SUBSET Prices : s.levels \in [D -> Seq(AnyOrder)]
  BY DEF GoodSide, SideShape, Queues
<1>2. PICK t : t = setQueue(s, p, q)
  OBVIOUS
<1>4. t = [prices |-> s.prices, levels |-> [s.levels EXCEPT ![p] = q]]
  BY <1>2 DEF setQueue
<1>5. PICK l : l = [s.levels EXCEPT ![p] = q]
  OBVIOUS
<1>6. /\ l \in [D -> Seq(AnyOrder)] /\ DOMAIN l = DOMAIN s.levels /\ DOMAIN l = D
      /\ l[p] = q /\ \A x \in D : x # p => l[x] = s.levels[x]
  BY <1>1, <1>5 DEF GoodQueue
<1>7. t.prices = s.prices /\ t.levels = l
  BY <1>4, <1>5
<1>8. t \in SideShape
  BY <1>4, <1>5, <1>6 DEF GoodSide, SideShape, Queues
<1>9. GoodSide(t, sd)
  BY <1>6, <1>7, <1>8 DEF GoodSide
<1>10. \A y \in D : y # p => Range(s.levels[y]) \cap Range(s.levels[p]) = {}
  <2>1. \A y \in D : \A x \in Range(s.levels[y]) : x.price = y
    BY <1>6 DEF GoodSide, GoodQueue, rests, Range
  <2> QED  BY <1>6, <2>1
<1>11. Entries(t) = (Entries(s) \ Range(s.levels[p])) \cup Range(q)
  <2>1. \A x : x \in Entries(t) <=> x \in Range(q) \/ \E y \in D : y # p /\ x \in Range(s.levels[y])
    BY <1>6, <1>7 DEF Entries
  <2>2. \A x : x \in Entries(s) <=> \E y \in D : x \in Range(s.levels[y])
    BY <1>6 DEF Entries
  <2> QED  BY <1>6, <1>10, <2>1, <2>2
<1> QED  BY <1>2, <1>9, <1>11

\* An order goes into its side.
LEMMA IntoSideGood ==
    ASSUME NEW sd \in Sides, NEW s, GoodSide(s, sd), NEW o, rests(o, sd, o.price),
           \A x \in Entries(s) : x.id # o.id
    PROVE  GoodSide(intoSide(s, o), sd) /\ Entries(intoSide(s, o)) = Entries(s) \cup {o}
<1>1. PICK D \in SUBSET Prices : s.levels \in [D -> Seq(AnyOrder)]
  BY DEF GoodSide, SideShape, Queues
<1>2. DOMAIN s.levels = D
  BY <1>1
<1>3. o \in AnyOrder /\ o.side = sd /\ o.price \in Prices
  BY OrderTyped DEF rests
<1>4. CASE o.price \in D
  <2>1. PICK p : p = o.price
    OBVIOUS
  <2>2. PICK q : q = s.levels[p]
    OBVIOUS
  <2>3. GoodQueue(q, sd, p) /\ q \in Seq(AnyOrder)
    BY <1>2, <1>4, <2>1, <2>2 DEF GoodSide, GoodQueue
  <2>4. \A x \in Range(q) : x.id # o.id
    BY <1>2, <1>4, <2>1, <2>2 DEF Entries
  <2>5. \A i \in 1..Len(q) : q[i].id # o.id
    BY <2>3, <2>4 DEF Range
  <2>6. GoodQueue(enqueue(q, o), sd, p) /\ Range(enqueue(q, o)) = Range(q) \cup {o}
    BY <2>1, <2>3, <2>5, EnqueueGood
  <2>7. intoSide(s, o) = setQueue(s, p, enqueue(q, o))
    <3>1. s = [prices |-> s.prices, levels |-> s.levels]
      BY DEF GoodSide, SideShape
    <3> QED  BY <1>2, <1>4, <2>1, <2>2, <3>1 DEF intoSide, setQueue
  <2>8. p \in DOMAIN s.levels
    BY <1>2, <1>4, <2>1
  <2>9. PICK q2 : q2 = enqueue(q, o)
    OBVIOUS
  <2>10. /\ GoodSide(setQueue(s, p, q2), sd)
         /\ Entries(setQueue(s, p, q2)) = (Entries(s) \ Range(s.levels[p])) \cup Range(q2)
    BY <2>6, <2>8, <2>9, SetQueueGood
  <2>11. Range(q) \subseteq Entries(s)
    BY <2>2, <2>8 DEF Entries
  <2> QED  BY <2>2, <2>6, <2>7, <2>9, <2>10, <2>11
<1>5. CASE o.price \notin D
  <2>1. PICK l : l = assign(s.levels, o.price, <<o>>)
    OBVIOUS
  <2>2. PICK t : t = [prices |-> insertPrice(s.prices, o), levels |-> l]
    OBVIOUS
  <2>3. intoSide(s, o) = t
    BY <1>2, <1>5, <2>1, <2>2 DEF intoSide
  <2>4. /\ l \in [D \cup {o.price} -> Seq(AnyOrder)] /\ l[o.price] = <<o>>
        /\ \A x \in D : l[x] = s.levels[x]
    <3>2. l = [x \in D \cup {o.price} |-> IF x = o.price THEN <<o>> ELSE s.levels[x]]
      BY <1>2, <2>1 DEF assign
    <3>3. <<o>> \in Seq(AnyOrder)
      BY <1>3
    <3> QED  BY <1>1, <1>5, <3>2, <3>3
  <2>5. s.prices \in Seq(Prices) /\ Sorted(PriceOrder(sd), s.prices) /\ Range(s.prices) = D
    BY <1>2 DEF GoodSide, SideShape
  <2>6. /\ t.prices \in Seq(Prices) /\ Sorted(PriceOrder(sd), t.prices)
        /\ Range(t.prices) = D \cup {o.price}
    BY <1>3, <1>5, <2>2, <2>5, InsertPriceSorted
  <2>7. t \in SideShape
    <3>1. D \cup {o.price} \in SUBSET Prices
      BY <1>3
    <3> QED  BY <2>2, <2>4, <2>6, <3>1 DEF SideShape, Queues
  <2>8. GoodQueue(<<o>>, sd, o.price)
    <3>1. <<o>> \in Seq(AnyOrder) /\ Len(<<o>>) = 1 /\ <<o>>[1] = o /\ <<o>> # <<>>
      BY <1>3
    <3> QED  BY <3>1 DEF GoodQueue, Sorted
  <2>9. GoodSide(t, sd)
    <3>1. DOMAIN t.levels = D \cup {o.price} /\ t.levels = l
      BY <2>2, <2>4
    <3>2. \A x \in D : GoodQueue(t.levels[x], sd, x)
      BY <1>2, <2>4, <3>1 DEF GoodSide
    <3> QED  BY <2>4, <2>6, <2>7, <2>8, <3>1, <3>2 DEF GoodSide
  <2>10. Entries(t) = Entries(s) \cup {o}
    <3>1. \A x : x \in Range(l[o.price]) <=> x = o
      BY <2>4 DEF Range
    <3>2. \A x : x \in Entries(t) <=> x = o \/ \E y \in D : x \in Range(s.levels[y])
      BY <2>2, <2>4, <3>1 DEF Entries
    <3> QED  BY <1>2, <3>2 DEF Entries
  <2> QED  BY <2>3, <2>9, <2>10
<1> QED  BY <1>4, <1>5

\* An order leaves its side, and its price goes with the last one.
LEMMA OutOfSideGood ==
    ASSUME NEW sd \in Sides, NEW s, GoodSide(s, sd), NEW p \in DOMAIN s.levels,
           NEW i \in 1..Len(s.levels[p])
    PROVE  /\ GoodSide(outOfSide(s, p, i), sd)
           /\ Entries(outOfSide(s, p, i)) = Entries(s) \ {s.levels[p][i]}
<1>1. PICK D \in SUBSET Prices : s.levels \in [D -> Seq(AnyOrder)]
  BY DEF GoodSide, SideShape, Queues
<1>2. DOMAIN s.levels = D
  BY <1>1
<1>3. PICK q : q = s.levels[p]
  OBVIOUS
<1>4. GoodQueue(q, sd, p) /\ q \in Seq(AnyOrder)
  BY <1>3 DEF GoodSide, GoodQueue
<1>5. \A y \in D : \A x \in Range(s.levels[y]) : x.price = y
  BY <1>2 DEF GoodSide, GoodQueue, rests, Range
<1>6. CASE Len(q) = 1
  <2>1. PICK l : l = Restrict(s.levels, D \ {p})
    OBVIOUS
  <2>2. l \in [D \ {p} -> Seq(AnyOrder)] /\ \A x \in D \ {p} : l[x] = s.levels[x]
    BY <1>1, <2>1 DEF Restrict
  <2>3. s.prices \in Seq(Prices) /\ Sorted(PriceOrder(sd), s.prices) /\ Range(s.prices) = D
    BY <1>2 DEF GoodSide, SideShape
  <2>4. DOMAIN s.prices = 1..Len(s.prices) /\ Len(s.prices) \in Nat
    BY <2>3
  <2>5. PICK k \in 1..Len(s.prices) : s.prices[k] = p
    BY <1>2, <2>3, <2>4 DEF Range
  <2>6. SelectInSeq(s.prices, LAMBDA v : v = p) = k
    <3> DEFINE I == {j \in 1..Len(s.prices) : s.prices[j] = p}
    <3>1. I = {k}
      BY <2>5, PricesAreInjective
    <3>2. Min({k}) = k
      BY <2>5 DEF Min
    <3> QED  BY <3>1, <3>2 DEF SelectInSeq
  <2>7. RemoveFirst(s.prices, p) = RemoveAt(s.prices, k)
    BY <2>5, <2>6 DEF RemoveFirst
  <2>8. PICK ps : ps = RemoveAt(s.prices, k)
    OBVIOUS
  <2>9. ps \in Seq(Prices) /\ Sorted(PriceOrder(sd), ps)
    BY <2>3, <2>8, RemoveAtPlaces, RemoveAtSorted
  <2>10. Range(ps) = D \ {p}
    <3>1. \A a, b \in 1..Len(s.prices) : s.prices[a] = s.prices[b] => a = b
      BY PricesAreInjective
    <3> QED  BY <2>3, <2>5, <2>8, <3>1, RemoveAtElements
  <2>11. PICK t : t = [prices |-> ps, levels |-> l]
    OBVIOUS
  <2>12. outOfSide(s, p, i) = t
    BY <1>2, <1>3, <1>6, <2>1, <2>7, <2>8, <2>11 DEF outOfSide
  <2>13. GoodSide(t, sd)
    <3>1. t \in SideShape
      <4>1. D \ {p} \in SUBSET Prices
        OBVIOUS
      <4> QED  BY <2>2, <2>9, <2>11, <4>1 DEF SideShape, Queues
    <3>2. t.prices = ps /\ t.levels = l /\ DOMAIN l = D \ {p}
      BY <2>2, <2>11
    <3>3. \A x \in D \ {p} : GoodQueue(l[x], sd, x)
      BY <1>2, <2>2 DEF GoodSide
    <3> QED  BY <2>9, <2>10, <3>1, <3>2, <3>3 DEF GoodSide
  <2>14. Range(q) = {q[i]}
    BY <1>3, <1>4, <1>6 DEF Range
  <2>15. Entries(t) = Entries(s) \ {q[i]}
    <3>1. \A x : x \in Entries(t) <=> \E y \in D \ {p} : x \in Range(s.levels[y])
      BY <2>2, <2>11 DEF Entries
    <3>2. \A x : x \in Entries(s) <=> \E y \in D : x \in Range(s.levels[y])
      BY <1>2 DEF Entries
    <3>3. Range(s.levels[p]) = {q[i]}
      BY <1>3, <2>14
    <3>4. ASSUME NEW x \in Entries(t) PROVE x \in Entries(s) \ {q[i]}
      <4>1. PICK y \in D \ {p} : x \in Range(s.levels[y])
        BY <3>1
      <4>2. x.price = y /\ q[i].price = p
        <5>1. p \in D /\ q[i] \in Range(s.levels[p])
          BY <1>2, <3>3
        <5> QED  BY <1>5, <4>1, <5>1
      <4> QED  BY <3>2, <4>1, <4>2
    <3>5. ASSUME NEW x \in Entries(s), x # q[i] PROVE x \in Entries(t)
      <4>1. PICK y \in D : x \in Range(s.levels[y])
        BY <3>2
      <4>2. y # p
        BY <3>3, <3>5, <4>1
      <4> QED  BY <3>1, <4>1, <4>2
    <3> QED  BY <3>4, <3>5
  <2> QED  BY <1>3, <2>12, <2>13, <2>15
<1>7. CASE Len(q) # 1
  <2>1. PICK q2 : q2 = RemoveAt(q, i)
    OBVIOUS
  <2>2. GoodQueue(q2, sd, p) /\ Range(q2) = Range(q) \ {q[i]}
    BY <1>3, <1>4, <1>7, <2>1, DequeueGood
  <2>3. outOfSide(s, p, i) = setQueue(s, p, q2)
    <3>1. s = [prices |-> s.prices, levels |-> s.levels]
      BY DEF GoodSide, SideShape
    <3> QED  BY <1>3, <1>7, <2>1, <3>1 DEF outOfSide, setQueue
  <2>4. /\ GoodSide(setQueue(s, p, q2), sd)
        /\ Entries(setQueue(s, p, q2)) = (Entries(s) \ Range(s.levels[p])) \cup Range(q2)
    <3>1. GoodQueue(q2, sd, p)
      BY <2>2
    <3> QED  BY <3>1, SetQueueGood
  <2>5. Range(q) \subseteq Entries(s) /\ q[i] \in Range(q)
    BY <1>3, <1>4 DEF Entries, Range
  <2> QED  BY <1>3, <2>2, <2>3, <2>4, <2>5
<1> QED  BY <1>6, <1>7

-----------------------------------------------------------------------------
(* The book.                                                               *)

Indexes == UNION {[D -> [side : Sides, price : Prices]] : D \in SUBSET OrderIds}
BookShape == [ok : BOOLEAN, side : [Sides -> SideShape], orders : Indexes]

Resting(b) == Entries(b.side["buy"]) \cup Entries(b.side["sell"])

\* The index has the orders of a set, each with its side and price.
Indexed(idx, S) ==
    /\ idx \in Indexes
    /\ DOMAIN idx = {o.id : o \in S}
    /\ \A o \in S : idx[o.id] = [side |-> o.side, price |-> o.price]

\* The well-formed books.
GoodBook(b) ==
    /\ b \in BookShape /\ b.ok
    /\ \A sd \in Sides : GoodSide(b.side[sd], sd)
    /\ Indexed(b.orders, Resting(b))

\* An order on a side is bookable and in the queue of its price.
LEMMA EntryRests ==
    ASSUME NEW sd, NEW s, GoodSide(s, sd), NEW x \in Entries(s)
    PROVE  /\ x.price \in DOMAIN s.levels /\ x \in Range(s.levels[x.price])
           /\ rests(x, sd, x.price)
<1>1. PICK p \in DOMAIN s.levels : x \in Range(s.levels[p])
  BY DEF Entries
<1>2. GoodQueue(s.levels[p], sd, p)
  BY DEF GoodSide
<1>3. DOMAIN s.levels[p] = 1..Len(s.levels[p])
  BY <1>2 DEF GoodQueue
<1>4. rests(x, sd, p)
  BY <1>1, <1>2, <1>3 DEF GoodQueue, Range
<1>5. x.price = p
  BY <1>4 DEF rests
<1> QED  BY <1>1, <1>4, <1>5

\* The orders of a book are those of a side and of the opposite one.
LEMMA RestingOnSides ==
    ASSUME NEW b, NEW sd \in Sides
    PROVE  /\ oppositeSide(sd) \in Sides /\ oppositeSide(sd) # sd
           /\ oppositeSide(oppositeSide(sd)) = sd
           /\ Resting(b) = Entries(b.side[sd]) \cup Entries(b.side[oppositeSide(sd)])
<1>1. CASE sd = "buy"
  BY <1>1 DEF Resting, oppositeSide, Sides
<1>2. CASE sd = "sell"
  BY <1>2 DEF Resting, oppositeSide, Sides
<1> QED  BY <1>1, <1>2 DEF Sides

\* An order of a book is in its queue and in the index.
LEMMA RestingRests ==
    ASSUME NEW b, GoodBook(b), NEW x \in Resting(b)
    PROVE  /\ rests(x, x.side, x.price) /\ x.side \in Sides
           /\ x \in Entries(b.side[x.side])
           /\ x.price \in DOMAIN b.side[x.side].levels
           /\ x \in Range(b.side[x.side].levels[x.price])
           /\ x.id \in DOMAIN b.orders
           /\ b.orders[x.id] = [side |-> x.side, price |-> x.price]
<1>1. PICK sd \in Sides : x \in Entries(b.side[sd])
  BY DEF Resting, Sides
<1>2. GoodSide(b.side[sd], sd)
  BY DEF GoodBook
<1>3. /\ x.price \in DOMAIN b.side[sd].levels /\ x \in Range(b.side[sd].levels[x.price])
      /\ rests(x, sd, x.price)
  BY <1>1, <1>2, EntryRests
<1>4. x.side = sd
  BY <1>3 DEF rests
<1> QED  BY <1>1, <1>3, <1>4 DEF GoodBook, Indexed

\* An order is known by its id.
LEMMA IdsAreUnique ==
    ASSUME NEW b, GoodBook(b), NEW x \in Resting(b), NEW y \in Resting(b), x.id = y.id
    PROVE  x = y
<1>1. x.side = y.side /\ x.price = y.price
  <2>1. [side |-> x.side, price |-> x.price] = [side |-> y.side, price |-> y.price]
    BY RestingRests
  <2> QED  BY <2>1
<1>2. PICK q : q = b.side[x.side].levels[x.price]
  OBVIOUS
<1>3. x \in Range(q) /\ y \in Range(q)
  BY <1>1, <1>2, RestingRests
<1>4. GoodQueue(q, x.side, x.price)
  <2>1. x.side \in Sides /\ x.price \in DOMAIN b.side[x.side].levels
    BY RestingRests
  <2> QED  BY <1>2, <2>1 DEF GoodBook, GoodSide
<1>5. DOMAIN q = 1..Len(q)
  BY <1>4 DEF GoodQueue
<1>6. PICK i \in 1..Len(q), j \in 1..Len(q) : x = q[i] /\ y = q[j]
  BY <1>3, <1>5 DEF Range
<1>7. i = j
  BY <1>4, <1>6, QueueIsInjective
<1> QED  BY <1>6, <1>7

\* One side of a book is changed, and the index with it.
setSide(b, sd, s, idx) ==
    [ok |-> TRUE, side |-> [b.side EXCEPT ![sd] = s], orders |-> idx]

\* A book of which a side and the index were changed is well formed when they agree.
LEMMA SetSideGood ==
    ASSUME NEW b, GoodBook(b), NEW sd \in Sides, NEW s, GoodSide(s, sd), NEW idx,
           Indexed(idx, Entries(s) \cup Entries(b.side[oppositeSide(sd)]))
    PROVE  /\ GoodBook(setSide(b, sd, s, idx))
           /\ Resting(setSide(b, sd, s, idx)) = Entries(s) \cup Entries(b.side[oppositeSide(sd)])
           /\ setSide(b, sd, s, idx).orders = idx
<1>1. PICK t : t = setSide(b, sd, s, idx)
  OBVIOUS
<1>2. b.side \in [Sides -> SideShape] /\ s \in SideShape
  BY DEF GoodBook, BookShape, GoodSide
<1>3. PICK f : f = [b.side EXCEPT ![sd] = s]
  OBVIOUS
<1>4. f \in [Sides -> SideShape] /\ f[sd] = s /\ \A x \in Sides : x # sd => f[x] = b.side[x]
  BY <1>2, <1>3
<1>5. t = [ok |-> TRUE, side |-> f, orders |-> idx]
  BY <1>1, <1>3 DEF setSide
<1>6. t.ok = TRUE /\ t.side = f /\ t.orders = idx /\ t \in BookShape
  BY <1>4, <1>5 DEF BookShape, Indexed
<1>7. oppositeSide(sd) \in Sides /\ oppositeSide(sd) # sd
  BY RestingOnSides
<1>8. Resting(t) = Entries(t.side[sd]) \cup Entries(t.side[oppositeSide(sd)])
  BY RestingOnSides
<1>9. Resting(t) = Entries(s) \cup Entries(b.side[oppositeSide(sd)])
  BY <1>4, <1>6, <1>7, <1>8
<1>10. \A x \in Sides : GoodSide(t.side[x], x)
  BY <1>4, <1>6 DEF GoodBook
<1>11. GoodBook(t)
  BY <1>6, <1>9, <1>10 DEF GoodBook
<1> QED  BY <1>1, <1>6, <1>9, <1>11

\* insertResting puts an order that is not there into the book.
LEMMA InsertGood ==
    ASSUME NEW b, GoodBook(b), NEW o \in AnyOrder, isBookable(o), o.id \notin DOMAIN b.orders
    PROVE  /\ GoodBook(insertResting(b, o))
           /\ Resting(insertResting(b, o)) = Resting(b) \cup {o}
           /\ DOMAIN insertResting(b, o).orders = DOMAIN b.orders \cup {o.id}
<1>1. PICK sd \in Sides : sd = o.side
  BY OrderTyped
<1>2. rests(o, sd, o.price) /\ o.price > 0 /\ o.id \in OrderIds /\ o.price \in Prices
  BY <1>1, OrderTyped DEF rests
<1>3. PICK s : s = intoSide(b.side[sd], o)
  OBVIOUS
<1>4. PICK idx : idx = assign(b.orders, o.id, [side |-> o.side, price |-> o.price])
  OBVIOUS
<1>5. Resting(b) = Entries(b.side[sd]) \cup Entries(b.side[oppositeSide(sd)])
  BY RestingOnSides
<1>6. \A x \in Resting(b) : x.id # o.id
  BY RestingRests
<1>7. GoodSide(b.side[sd], sd)
  BY DEF GoodBook
<1>8. GoodSide(s, sd) /\ Entries(s) = Entries(b.side[sd]) \cup {o}
  <2>1. \A x \in Entries(b.side[sd]) : x.id # o.id
    BY <1>5, <1>6
  <2> QED  BY <1>2, <1>3, <1>7, <2>1, IntoSideGood
<1>9. Entries(s) \cup Entries(b.side[oppositeSide(sd)]) = Resting(b) \cup {o}
  BY <1>5, <1>8
<1>10. Indexed(idx, Resting(b) \cup {o})
  <2>1. PICK D \in SUBSET OrderIds : b.orders \in [D -> [side : Sides, price : Prices]]
    BY DEF GoodBook, Indexed, Indexes
  <2>2. PICK r : r = [side |-> o.side, price |-> o.price]
    OBVIOUS
  <2>3. r \in [side : Sides, price : Prices]
    BY <1>1, <1>2, <2>2
  <2>4. /\ idx \in [D \cup {o.id} -> [side : Sides, price : Prices]]
        /\ idx[o.id] = r /\ \A x \in D : x # o.id => idx[x] = b.orders[x]
    BY <1>4, <2>1, <2>2, <2>3 DEF assign
  <2>5. DOMAIN b.orders = D /\ D = {x.id : x \in Resting(b)}
    BY <2>1 DEF GoodBook, Indexed
  <2>6. D \cup {o.id} \in SUBSET OrderIds
    BY <1>2
  <2>7. idx \in Indexes
    BY <2>4, <2>6 DEF Indexes
  <2>8. D \cup {o.id} = {x.id : x \in Resting(b) \cup {o}}
    BY <2>5
  <2>9. \A x \in Resting(b) \cup {o} : idx[x.id] = [side |-> x.side, price |-> x.price]
    <3>1. \A x \in Resting(b) : x.id \in D /\ b.orders[x.id] = [side |-> x.side, price |-> x.price]
      BY <2>5, RestingRests
    <3> QED  BY <1>6, <2>2, <2>4, <3>1
  <2> QED  BY <2>4, <2>7, <2>8, <2>9 DEF Indexed
<1>11. insertResting(b, o) = setSide(b, sd, s, idx)
  <2>1. validateResting(o)
    BY <1>2 DEF validateResting
  <2>2. b.ok = TRUE
    BY DEF GoodBook, BookShape
  <2>3. insertResting(b, o) = [b EXCEPT !.side[o.side] = s, !.orders = idx]
    BY <1>1, <1>3, <1>4, <2>1, <2>2 DEF insertResting
  <2>4. b \in [ok : BOOLEAN, side : [Sides -> SideShape], orders : Indexes]
    BY DEF GoodBook, BookShape
  <2>5. PICK c : c = [b EXCEPT !.side[sd] = s]
    OBVIOUS
  <2>6. c = [ok |-> b.ok, side |-> [b.side EXCEPT ![sd] = s], orders |-> b.orders]
    BY <2>4, <2>5
  <2>7. insertResting(b, o) = [c EXCEPT !.orders = idx]
    BY <1>1, <2>3, <2>5
  <2>8. c \in [ok : BOOLEAN, side : [Sides -> SideShape], orders : Indexes]
    BY <1>8, <2>4, <2>6 DEF GoodSide
  <2> QED  BY <2>2, <2>6, <2>7, <2>8 DEF setSide
<1>12. /\ GoodBook(setSide(b, sd, s, idx))
       /\ Resting(setSide(b, sd, s, idx)) = Resting(b) \cup {o}
       /\ setSide(b, sd, s, idx).orders = idx
  BY <1>8, <1>9, <1>10, SetSideGood
<1>13. DOMAIN idx = DOMAIN b.orders \cup {o.id}
  BY <1>4 DEF assign
<1> QED  BY <1>11, <1>12, <1>13

\* removeAt takes an order out of its queue and the index.
LEMMA RemoveGood ==
    ASSUME NEW b, GoodBook(b), NEW sd \in Sides, NEW p \in DOMAIN b.side[sd].levels,
           NEW i \in 1..Len(b.side[sd].levels[p]), NEW x, x = b.side[sd].levels[p][i]
    PROVE  /\ GoodBook(removeAt(b, sd, p, i))
           /\ x \in Resting(b)
           /\ Resting(removeAt(b, sd, p, i)) = Resting(b) \ {x}
           /\ DOMAIN removeAt(b, sd, p, i).orders = DOMAIN b.orders \ {x.id}
<1>1. PICK s : s = outOfSide(b.side[sd], p, i)
  OBVIOUS
<1>2. PICK idx : idx = Restrict(b.orders, DOMAIN b.orders \ {x.id})
  OBVIOUS
<1>3. GoodSide(b.side[sd], sd)
  BY DEF GoodBook
<1>4. GoodSide(s, sd) /\ Entries(s) = Entries(b.side[sd]) \ {x}
  BY <1>1, <1>3, OutOfSideGood
<1>5. Resting(b) = Entries(b.side[sd]) \cup Entries(b.side[oppositeSide(sd)])
  BY RestingOnSides
<1>6. x \in Entries(b.side[sd]) /\ x.side = sd
  <2>1. GoodQueue(b.side[sd].levels[p], sd, p)
    BY <1>3 DEF GoodSide
  <2>2. DOMAIN b.side[sd].levels[p] = 1..Len(b.side[sd].levels[p])
    BY <2>1 DEF GoodQueue
  <2>3. x \in Range(b.side[sd].levels[p]) /\ x.side = sd
    BY <2>1, <2>2 DEF Range, GoodQueue, rests
  <2> QED  BY <2>3 DEF Entries
<1>7. x \notin Entries(b.side[oppositeSide(sd)])
  <2>1. oppositeSide(sd) \in Sides /\ oppositeSide(sd) # sd
    BY RestingOnSides
  <2>2. GoodSide(b.side[oppositeSide(sd)], oppositeSide(sd))
    BY <2>1 DEF GoodBook
  <2>3. \A y \in Entries(b.side[oppositeSide(sd)]) : y.side = oppositeSide(sd)
    BY <2>2, EntryRests DEF rests
  <2> QED  BY <1>6, <2>1, <2>3
<1>8. Entries(s) \cup Entries(b.side[oppositeSide(sd)]) = Resting(b) \ {x}
  BY <1>4, <1>5, <1>7
<1>9. Indexed(idx, Resting(b) \ {x})
  <2>1. PICK D \in SUBSET OrderIds : b.orders \in [D -> [side : Sides, price : Prices]]
    BY DEF GoodBook, Indexed, Indexes
  <2>2. DOMAIN b.orders = D /\ D = {y.id : y \in Resting(b)}
    BY <2>1 DEF GoodBook, Indexed
  <2>3. /\ idx \in [D \ {x.id} -> [side : Sides, price : Prices]]
        /\ \A y \in D \ {x.id} : idx[y] = b.orders[y]
    BY <1>2, <2>1, <2>2 DEF Restrict
  <2>4. \A y \in Resting(b) : y # x => y.id # x.id
    BY <1>5, <1>6, IdsAreUnique
  <2>5. D \ {x.id} \in SUBSET OrderIds
    OBVIOUS
  <2>6. idx \in Indexes
    BY <2>3, <2>5 DEF Indexes
  <2>7. D \ {x.id} = {y.id : y \in Resting(b) \ {x}}
    BY <2>2, <2>4
  <2>8. \A y \in Resting(b) \ {x} : idx[y.id] = [side |-> y.side, price |-> y.price]
    <3>1. \A y \in Resting(b) : y.id \in D /\ b.orders[y.id] = [side |-> y.side, price |-> y.price]
      BY <2>2, RestingRests
    <3> QED  BY <2>3, <2>4, <3>1
  <2> QED  BY <2>3, <2>6, <2>7, <2>8 DEF Indexed
<1>10. removeAt(b, sd, p, i) = setSide(b, sd, s, idx)
  <2>1. b.ok = TRUE
    BY DEF GoodBook, BookShape
  <2>2. b \in [ok : BOOLEAN, side : [Sides -> SideShape], orders : Indexes]
    BY DEF GoodBook, BookShape
  <2>3. PICK c : c = forget(b, x.id)
    OBVIOUS
  <2>4. c = [ok |-> b.ok, side |-> b.side, orders |-> idx]
    BY <1>2, <2>2, <2>3 DEF forget
  <2>5. c \in [ok : BOOLEAN, side : [Sides -> SideShape], orders : Indexes] /\ c.side = b.side
    BY <1>9, <2>2, <2>4 DEF Indexed
  <2>6. removeAt(b, sd, p, i) = [c EXCEPT !.side[sd] = outOfSide(@, p, i)]
    BY <2>3 DEF removeAt
  <2>7. [c EXCEPT !.side[sd] = outOfSide(@, p, i)] = [c EXCEPT !.side[sd] = s]
    BY <1>1, <2>5
  <2>8. [c EXCEPT !.side[sd] = s] = [ok |-> c.ok, side |-> [c.side EXCEPT ![sd] = s], orders |-> c.orders]
    BY <2>5
  <2> QED  BY <2>1, <2>4, <2>6, <2>7, <2>8 DEF setSide
<1>11. /\ GoodBook(setSide(b, sd, s, idx))
       /\ Resting(setSide(b, sd, s, idx)) = Resting(b) \ {x}
       /\ setSide(b, sd, s, idx).orders = idx
  <2>1. Indexed(idx, Entries(s) \cup Entries(b.side[oppositeSide(sd)]))
    BY <1>8, <1>9
  <2>2. GoodSide(s, sd)
    BY <1>4
  <2>3. /\ GoodBook(setSide(b, sd, s, idx))
        /\ Resting(setSide(b, sd, s, idx)) = Entries(s) \cup Entries(b.side[oppositeSide(sd)])
        /\ setSide(b, sd, s, idx).orders = idx
    BY <2>1, <2>2, SetSideGood
  <2> QED  BY <1>8, <2>3
<1>12. DOMAIN idx = DOMAIN b.orders \ {x.id}
  BY <1>2 DEF Restrict
<1> QED  BY <1>5, <1>6, <1>10, <1>11, <1>12

\* removeOrder finds an order by its id.
LEMMA RemoveOrderGood ==
    ASSUME NEW b, GoodBook(b), NEW id
    PROVE  /\ GoodBook(removeOrder(b, id))
           /\ Resting(removeOrder(b, id)) = {x \in Resting(b) : x.id # id}
           /\ DOMAIN removeOrder(b, id).orders = DOMAIN b.orders \ {id}
<1>1. CASE id \notin DOMAIN b.orders
  <2>1. removeOrder(b, id) = b
    BY <1>1 DEF removeOrder
  <2>2. \A x \in Resting(b) : x.id # id
    BY <1>1, RestingRests
  <2> QED  BY <1>1, <2>1, <2>2
<1>2. CASE id \in DOMAIN b.orders
  <2>1. PICK x \in Resting(b) : x.id = id
    BY <1>2 DEF GoodBook, Indexed
  <2>2. PICK sd, p : sd = x.side /\ p = x.price
    OBVIOUS
  <2>3. /\ sd \in Sides /\ p \in DOMAIN b.side[sd].levels
        /\ x \in Range(b.side[sd].levels[p])
        /\ b.orders[id] = [side |-> sd, price |-> p]
    BY <2>1, <2>2, RestingRests
  <2>4. PICK q : q = b.side[sd].levels[p]
    OBVIOUS
  <2>5. GoodQueue(q, sd, p) /\ DOMAIN q = 1..Len(q)
    BY <2>3, <2>4 DEF GoodBook, GoodSide, GoodQueue
  <2>6. PICK i \in 1..Len(q) : x = q[i]
    BY <2>3, <2>4, <2>5 DEF Range
  <2>7. SelectInSeq(q, LAMBDA y : y.id = id) = i
    <3> DEFINE I == {j \in 1..Len(q) : q[j].id = id}
    <3>1. I = {i}
      BY <2>1, <2>5, <2>6, QueueIsInjective
    <3>2. Min({i}) = i
      BY <2>6 DEF Min
    <3> QED  BY <3>1, <3>2 DEF SelectInSeq
  <2>8. i # 0
    BY <2>6
  <2>9. queueOf(b, b.orders[id]) = q
    BY <2>3, <2>4 DEF queueOf
  <2>10. removeOrder(b, id) = removeAt(b, sd, p, i)
    BY <1>2, <2>3, <2>7, <2>8, <2>9 DEF removeOrder, removeIn
  <2>11. /\ GoodBook(removeAt(b, sd, p, i)) /\ x \in Resting(b)
         /\ Resting(removeAt(b, sd, p, i)) = Resting(b) \ {x}
         /\ DOMAIN removeAt(b, sd, p, i).orders = DOMAIN b.orders \ {x.id}
    BY <2>3, <2>4, <2>6, RemoveGood
  <2>12. Resting(b) \ {x} = {y \in Resting(b) : y.id # id}
    BY <2>1, IdsAreUnique
  <2> QED  BY <2>1, <2>10, <2>11, <2>12
<1> QED  BY <1>1, <1>2

\* The first order of a queue was filled in part.
replaceHead(b, sd, p, o) == [b EXCEPT !.side[sd].levels[p][1] = o]

\* The first order of a queue is replaced by what is left of it.
LEMMA ReplaceHeadGood ==
    ASSUME NEW b, GoodBook(b), NEW sd \in Sides, NEW p \in DOMAIN b.side[sd].levels,
           NEW x, x = b.side[sd].levels[p][1], NEW o, rests(o, sd, p), o.id = x.id
    PROVE  /\ GoodBook(replaceHead(b, sd, p, o))
           /\ x \in Resting(b)
           /\ Resting(replaceHead(b, sd, p, o)) = (Resting(b) \ {x}) \cup {o}
           /\ replaceHead(b, sd, p, o).orders = b.orders
<1>1. PICK q : q = b.side[sd].levels[p]
  OBVIOUS
<1>2. GoodSide(b.side[sd], sd)
  BY DEF GoodBook
<1>3. GoodQueue(q, sd, p)
  BY <1>1, <1>2 DEF GoodSide
<1>4. PICK q2 : q2 = [q EXCEPT ![1] = o]
  OBVIOUS
<1>5. GoodQueue(q2, sd, p) /\ Range(q2) = (Range(q) \ {x}) \cup {o}
  BY <1>1, <1>3, <1>4, ReplaceGood
<1>6. PICK s : s = setQueue(b.side[sd], p, q2)
  OBVIOUS
<1>7. GoodSide(s, sd) /\ Entries(s) = (Entries(b.side[sd]) \ Range(q)) \cup Range(q2)
  BY <1>1, <1>2, <1>5, <1>6, SetQueueGood
<1>8. Range(q) \subseteq Entries(b.side[sd]) /\ x \in Range(q)
  <2>1. DOMAIN q = 1..Len(q) /\ Len(q) \in Nat /\ q # <<>> /\ q \in Seq(AnyOrder)
    BY <1>3 DEF GoodQueue
  <2>2. 1 \in DOMAIN q
    BY <2>1
  <2> QED  BY <1>1, <2>2 DEF Entries, Range
<1>9. Resting(b) = Entries(b.side[sd]) \cup Entries(b.side[oppositeSide(sd)])
  BY RestingOnSides
<1>10. x \notin Entries(b.side[oppositeSide(sd)])
  <2>1. oppositeSide(sd) \in Sides /\ oppositeSide(sd) # sd
    BY RestingOnSides
  <2>2. GoodSide(b.side[oppositeSide(sd)], oppositeSide(sd))
    BY <2>1 DEF GoodBook
  <2>3. \A y \in Entries(b.side[oppositeSide(sd)]) : y.side = oppositeSide(sd)
    BY <2>2, EntryRests DEF rests
  <2>4. x.side = sd
    BY <1>2, <1>8, EntryRests DEF rests
  <2> QED  BY <2>1, <2>3, <2>4
<1>11. Entries(s) \cup Entries(b.side[oppositeSide(sd)]) = (Resting(b) \ {x}) \cup {o}
  BY <1>5, <1>7, <1>8, <1>9, <1>10
<1>12. Indexed(b.orders, (Resting(b) \ {x}) \cup {o})
  <2>1. x \in Resting(b)
    BY <1>8, <1>9
  <2>2. o.side = sd /\ o.price = p
    BY DEF rests
  <2>3. x.side = sd /\ x.price = p
    <3>1. PICK j \in DOMAIN q : x = q[j]
      BY <1>8 DEF Range
    <3>2. DOMAIN q = 1..Len(q)
      BY <1>3 DEF GoodQueue
    <3>3. rests(q[j], sd, p)
      BY <1>3, <3>1, <3>2 DEF GoodQueue
    <3> QED  BY <3>1, <3>3 DEF rests
  <2>4. Indexed(b.orders, Resting(b))
    BY DEF GoodBook
  <2>5. PICK R : R = Resting(b)
    OBVIOUS
  <2>6. DOMAIN b.orders = {y.id : y \in R}
    BY <2>4, <2>5 DEF Indexed
  <2>7. DOMAIN b.orders = {y.id : y \in (R \ {x}) \cup {o}}
    BY <2>1, <2>5, <2>6
  <2>8. \A y \in R : b.orders[y.id] = [side |-> y.side, price |-> y.price]
    BY <2>4, <2>5 DEF Indexed
  <2>9. b.orders[o.id] = [side |-> o.side, price |-> o.price]
    BY <2>1, <2>2, <2>3, <2>5, <2>8
  <2> QED  BY <2>4, <2>5, <2>7, <2>8, <2>9 DEF Indexed
<1>13. replaceHead(b, sd, p, o) = setSide(b, sd, s, b.orders)
  <2>1. b.ok = TRUE /\ b.side[sd] \in SideShape
    BY DEF GoodBook, BookShape
  <2>2. b \in [ok : BOOLEAN, side : [Sides -> SideShape], orders : Indexes]
    BY DEF GoodBook, BookShape
  <2>3. [b EXCEPT !.side[sd].levels[p][1] = o]
        = [b EXCEPT !.side[sd] = [b.side[sd] EXCEPT !.levels[p] = [b.side[sd].levels[p] EXCEPT ![1] = o]]]
    OBVIOUS
  <2>4. [b.side[sd] EXCEPT !.levels[p] = q2] = s
    <3>1. PICK z : z = b.side[sd]
      OBVIOUS
    <3>2. z \in [prices : Seq(Prices), levels : Queues]
      BY <2>1, <3>1 DEF SideShape
    <3>3. [z EXCEPT !.levels[p] = q2] = [prices |-> z.prices, levels |-> [z.levels EXCEPT ![p] = q2]]
      BY <3>2
    <3> QED  BY <1>6, <3>1, <3>3 DEF setQueue
  <2>5. [b EXCEPT !.side[sd].levels[p][1] = o] = [b EXCEPT !.side[sd] = s]
    BY <1>1, <1>4, <2>3, <2>4
  <2>6. [b EXCEPT !.side[sd] = s] = [ok |-> b.ok, side |-> [b.side EXCEPT ![sd] = s], orders |-> b.orders]
    BY <2>2
  <2> QED  BY <2>1, <2>5, <2>6 DEF setSide, replaceHead
<1>14. /\ GoodBook(setSide(b, sd, s, b.orders))
       /\ Resting(setSide(b, sd, s, b.orders)) = (Resting(b) \ {x}) \cup {o}
       /\ setSide(b, sd, s, b.orders).orders = b.orders
  BY <1>7, <1>11, <1>12, SetSideGood
<1> QED  BY <1>8, <1>9, <1>13, <1>14

-----------------------------------------------------------------------------
(* Apply.                                                                  *)

Trade == [maker : OrderIds, taker : OrderIds, price : Nat, qty : Nat, quote : Nat]

\* What Apply works on.
ApplyRun == [book : BookShape, taker : AnyOrder, makers : Seq(AnyOrder), trades : Seq(Trade),
             halted : BOOLEAN, done : BOOLEAN, err : BOOLEAN]

Stopped(r) == r.err \/ r.halted \/ r.done \/ r.taker.remaining <= 0

\* The fields of an order that nothing changes.
SameTerms(o, n) ==
    /\ n.id = o.id /\ n.user = o.user /\ n.side = o.side
    /\ n.type = o.type /\ n.tif = o.tif /\ n.price = o.price

\* What is in the second book was, but for its fills, in the first.
Covers(b, c) ==
    \A z \in Resting(c) : \E x \in Resting(b) : x.id = z.id /\ x.side = z.side /\ x.price = z.price

\* No bid reaches an ask.
Uncrossed(b) ==
    \A x, y \in Resting(b) : x.side = "buy" /\ y.side = "sell" => x.price < y.price

\* Nothing in the book is at a price the order reaches.
FacesNone(b, o) ==
    \A x \in Resting(b) :
        x.side # o.side => IF o.side = "buy" THEN x.price > o.price ELSE x.price < o.price

\* A list of orders of which no two have the same id.
Distinct(q) ==
    /\ q \in Seq(AnyOrder)
    /\ \A i, j \in 1..Len(q) : q[i].id = q[j].id => i = j

idsOf(q) == {x.id : x \in Range(q)}

\* The second book is the first with the orders of a list taken out and put back as
\* the list has them.
Traced(b, c, q) ==
    /\ Distinct(q)
    /\ Resting(c) = {x \in Resting(b) : x.id \notin idsOf(q)} \cup {x \in Range(q) : isBookable(x)}

\* The elements of a list and one more behind it.
LEMMA AppendElements ==
    ASSUME NEW S, NEW q \in Seq(S), NEW o \in S
    PROVE  Range(Append(q, o)) = Range(q) \cup {o}
<1>1. PICK n \in Nat : n = Len(q) /\ DOMAIN q = 1..n
  OBVIOUS
<1>2. PICK p : p = Append(q, o)
  OBVIOUS
<1>3. DOMAIN p = 1..(n + 1) /\ p[n + 1] = o /\ \A i \in 1..n : p[i] = q[i]
  BY <1>1, <1>2
<1>4. \A i \in 1..(n + 1) : i \in 1..n \/ i = n + 1
  BY <1>1
<1>5. n + 1 \in 1..(n + 1) /\ \A i \in 1..n : i \in 1..(n + 1)
  BY <1>1
<1> QED  BY <1>1, <1>2, <1>3, <1>4, <1>5 DEF Range

\* One more order taken out and put back.
LEMMA TraceAppend ==
    ASSUME NEW b, NEW c, NEW d, NEW q, Traced(b, c, q), NEW o \in AnyOrder, o.id \notin idsOf(q),
           Resting(d) = {x \in Resting(c) : x.id # o.id} \cup {x \in {o} : isBookable(x)}
    PROVE  Traced(b, d, Append(q, o))
<1>1. PICK n \in Nat : n = Len(q) /\ q \in Seq(AnyOrder) /\ DOMAIN q = 1..n
  BY DEF Traced, Distinct
<1>2. PICK p : p = Append(q, o)
  OBVIOUS
<1>3. /\ p \in Seq(AnyOrder) /\ Len(p) = n + 1 /\ DOMAIN p = 1..(n + 1)
      /\ p[n + 1] = o /\ \A i \in 1..n : p[i] = q[i]
  BY <1>1, <1>2
<1>4. \A i \in 1..(n + 1) : i \in 1..n \/ i = n + 1
  BY <1>1
<1>5. n + 1 \in 1..(n + 1) /\ \A i \in 1..n : i \in 1..(n + 1)
  BY <1>1
<1>6. Range(p) = Range(q) \cup {o}
  BY <1>1, <1>2, AppendElements
<1>7. \A i \in 1..n : q[i].id # o.id
  BY <1>1 DEF idsOf, Range
<1>8. Distinct(p)
  <2>1. ASSUME NEW i \in 1..(n + 1), NEW j \in 1..(n + 1), p[i].id = p[j].id PROVE i = j
    <3>1. CASE i \in 1..n /\ j \in 1..n
      BY <1>1, <1>3, <2>1, <3>1 DEF Traced, Distinct
    <3>2. CASE i = n + 1 /\ j \in 1..n
      BY <1>3, <1>7, <2>1, <3>2
    <3>3. CASE j = n + 1 /\ i \in 1..n
      BY <1>3, <1>7, <2>1, <3>3
    <3> QED  BY <1>4, <3>1, <3>2, <3>3
  <2> QED  BY <1>3, <2>1 DEF Distinct
<1>9. idsOf(p) = idsOf(q) \cup {o.id}
  BY <1>6 DEF idsOf
<1>10. {x \in Range(p) : isBookable(x)} = {x \in Range(q) : isBookable(x)} \cup {x \in {o} : isBookable(x)}
  BY <1>6
<1>11. {x \in Resting(c) : x.id # o.id} =
         {x \in Resting(b) : x.id \notin idsOf(p)} \cup {x \in Range(q) : isBookable(x)}
  <2>1. \A x \in Range(q) : x.id # o.id
    BY DEF idsOf
  <2> QED  BY <1>9, <2>1 DEF Traced
<1> QED  BY <1>2, <1>8, <1>10, <1>11 DEF Traced

\* What holds in every round of Apply(b, o).
RoundGood(b, o, r) ==
    /\ r \in ApplyRun
    /\ SameTerms(o, r.taker)
    /\ r.err \/ o.id \notin DOMAIN b.orders
    /\ GoodBook(r.book) /\ Covers(b, r.book)
    /\ \A i \in 1..Len(r.makers) : /\ r.makers[i].id \in DOMAIN b.orders
                                   /\ r.makers[i].status \in {"filled", "partially_filled"}
    /\ Traced(b, r.book, r.makers)
    /\ r.taker.remaining > 0 => \A x \in Range(r.makers) : ~isBookable(x)
    /\ r.halted => r.taker.status = "expired"
    /\ r.done => FacesNone(r.book, r.taker)

\* A book that covers another has its ids.
LEMMA CoversIds ==
    ASSUME NEW b, GoodBook(b), NEW c, GoodBook(c), Covers(b, c)
    PROVE  DOMAIN c.orders \subseteq DOMAIN b.orders
BY DEF GoodBook, Indexed, Covers

\* Fills do not cross a book.
LEMMA CoversUncrossed ==
    ASSUME NEW b, NEW c, Covers(b, c), Uncrossed(b)
    PROVE  Uncrossed(c)
BY DEF Uncrossed, Covers

\* One round after the other.
LEMMA CoversTrans ==
    ASSUME NEW b, NEW c, NEW d, Covers(b, c), Covers(c, d)
    PROVE  Covers(b, d)
<1>1. ASSUME NEW z \in Resting(d)
      PROVE  \E x \in Resting(b) : x.id = z.id /\ x.side = z.side /\ x.price = z.price
  <2>1. PICK y \in Resting(c) : y.id = z.id /\ y.side = z.side /\ y.price = z.price
    BY DEF Covers
  <2>2. PICK x \in Resting(b) : x.id = y.id /\ x.side = y.side /\ x.price = y.price
    BY DEF Covers
  <2> QED  BY <2>1, <2>2
<1> QED  BY <1>1 DEF Covers

\* A fill of what is there.
LEMMA FillTyped ==
    ASSUME NEW o \in AnyOrder, NEW qty \in Nat, qty <= o.remaining
    PROVE  /\ filledBy(o, qty) \in AnyOrder /\ SameTerms(o, filledBy(o, qty))
           /\ filledBy(o, qty).remaining = o.remaining - qty
           /\ filledBy(o, qty).status = IF o.remaining = qty THEN "filled" ELSE "partially_filled"
<1>1. PICK left \in Nat : left = SubFloorZero(o.remaining, qty) /\ left = o.remaining - qty
  BY OrderTyped DEF SubFloorZero
<1>2. PICK st : /\ st = statusForRemaining(left) /\ st \in {"partially_filled", "filled"}
                /\ st = IF o.remaining = qty THEN "filled" ELSE "partially_filled"
  <2>1. left <= 0 <=> o.remaining = qty
    BY <1>1, OrderTyped
  <2> QED  BY <2>1 DEF statusForRemaining
<1>3. PICK sum \in Nat : sum = o.filled + qty
  BY OrderTyped
<1>4. filledBy(o, qty) = [o EXCEPT !.filled = sum, !.remaining = left, !.status = st]
  BY <1>1, <1>2, <1>3 DEF filledBy
<1> QED  BY <1>1, <1>2, <1>3, <1>4 DEF AnyOrder, SameTerms

\* The best order of a side.
LEMMA BestFirst ==
    ASSUME NEW b, GoodBook(b), NEW sd \in Sides, b.side[sd].prices # <<>>
    PROVE  LET p == b.side[sd].prices[1]
               x == b.side[sd].levels[p][1]
           IN  /\ p \in DOMAIN b.side[sd].levels /\ p \in Prices
               /\ 1 \in 1..Len(b.side[sd].levels[p])
               /\ rests(x, sd, p) /\ x \in Resting(b)
               /\ \A y \in Resting(b) : y.side = sd =>
                     y.price = p \/ IF sd = "buy" THEN p > y.price ELSE p < y.price
<1> DEFINE s == b.side[sd]
           p == s.prices[1]
<1>1. GoodSide(s, sd) /\ s \in SideShape
  BY DEF GoodBook, GoodSide
<1> HIDE DEF s
<1>2. s.prices # <<>>
  BY DEF s
<1>3. s.prices \in Seq(Prices) /\ DOMAIN s.prices = 1..Len(s.prices) /\ Len(s.prices) \in Nat
  BY <1>1 DEF SideShape
<1>4. 1 \in 1..Len(s.prices)
  BY <1>2, <1>3
<1>5. p \in Prices /\ p \in DOMAIN s.levels
  <2>1. p \in Range(s.prices)
    BY <1>3, <1>4 DEF Range
  <2> QED  BY <1>1, <1>3, <1>4, <2>1 DEF GoodSide
<1> HIDE DEF p
<1>6. PICK q : q = s.levels[p]
  OBVIOUS
<1>7. GoodQueue(q, sd, p)
  BY <1>1, <1>5, <1>6 DEF GoodSide
<1>8. 1 \in 1..Len(q) /\ DOMAIN q = 1..Len(q)
  BY <1>7 DEF GoodQueue
<1>9. rests(q[1], sd, p) /\ q[1] \in Range(q)
  BY <1>7, <1>8 DEF GoodQueue, Range
<1>10. q[1] \in Resting(b)
  <2>1. q[1] \in Entries(s)
    BY <1>5, <1>6, <1>9 DEF Entries
  <2> QED  BY <2>1 DEF s, Resting, Sides
<1>11. ASSUME NEW y \in Resting(b), y.side = sd
       PROVE  y.price = p \/ IF sd = "buy" THEN p > y.price ELSE p < y.price
  <2>1. y.price \in DOMAIN s.levels
    BY <1>11, RestingRests DEF s
  <2>2. y.price \in Range(s.prices)
    BY <1>1, <2>1 DEF GoodSide
  <2>3. PICK i \in 1..Len(s.prices) : y.price = s.prices[i]
    BY <1>3, <2>2 DEF Range
  <2>4. i # 1 => <<s.prices[1], s.prices[i]>> \in PriceOrder(sd)
    BY <1>1, <1>4 DEF GoodSide, Sorted
  <2>5. CASE i = 1
    BY <2>3, <2>5 DEF p
  <2>6. CASE i # 1
    BY <2>3, <2>4, <2>6, PriceOrderIs DEF p
  <2> QED  BY <2>5, <2>6
<1> QED  BY <1>5, <1>6, <1>8, <1>9, <1>10, <1>11 DEF p, s

\* A side without prices is empty.
LEMMA NoPricesNoOrders ==
    ASSUME NEW b, GoodBook(b), NEW sd \in Sides, b.side[sd].prices = <<>>
    PROVE  \A y \in Resting(b) : y.side # sd
<1>1. GoodSide(b.side[sd], sd)
  BY DEF GoodBook
<1>2. Range(b.side[sd].prices) = {}
  BY DEF Range
<1>3. DOMAIN b.side[sd].levels = {}
  BY <1>1, <1>2 DEF GoodSide
<1> QED  BY <1>3, RestingRests

\* A fill of the best order x, of which m1 is left, which leaves the book when it is over.
HeadFill(b, h, sd, p, x, m1) ==
    /\ GoodBook(b) /\ h \in ApplyRun /\ h.book = b /\ h.err = FALSE /\ sd \in Sides
    /\ p \in DOMAIN b.side[sd].levels /\ 1 \in 1..Len(b.side[sd].levels[p])
    /\ x = b.side[sd].levels[p][1] /\ rests(x, sd, p)
    /\ m1 \in AnyOrder /\ Last(h.makers) = m1 /\ SameTerms(x, m1)
    /\ m1.status = "filled" \/ (m1.status = "partially_filled" /\ m1.remaining > 0)

HeadFilled(b, h, x, m1, g) ==
    /\ g \in ApplyRun /\ g.taker = h.taker /\ g.makers = h.makers /\ g.trades = h.trades
    /\ g.halted = h.halted /\ g.done = h.done /\ g.err = FALSE
    /\ GoodBook(g.book) /\ Covers(b, g.book)
    /\ IF m1.status = "filled" THEN DOMAIN g.book.orders = DOMAIN b.orders \ {x.id}
                               ELSE g.book.orders = b.orders
    /\ x \in Resting(b)
    /\ Resting(g.book) = (Resting(b) \ {x}) \cup {y \in {m1} : isBookable(y)}

\* A fill of the best order, which leaves the book when it is over.
LEMMA SettleHeadGood ==
    ASSUME NEW b, NEW h, NEW sd, NEW p, NEW x, NEW m1, HeadFill(b, h, sd, p, x, m1)
    PROVE  HeadFilled(b, h, x, m1, settleHead(h, sd, p))
<1> USE DEF HeadFill, HeadFilled
<1> PICK g : g = settleHead(h, sd, p)
  OBVIOUS
<1>1. CASE m1.status = "filled"
  <2>1. PICK c : c = removeAt(b, sd, p, 1)
    OBVIOUS
  <2>2. /\ GoodBook(c) /\ x \in Resting(b) /\ Resting(c) = Resting(b) \ {x}
        /\ DOMAIN c.orders = DOMAIN b.orders \ {x.id}
    BY <2>1, RemoveGood
  <2>3. g = [h EXCEPT !.book = c]
    BY <1>1, <2>1 DEF settleHead
  <2>4. c \in BookShape
    BY <2>2 DEF GoodBook
  <2>5. /\ g \in ApplyRun /\ g.taker = h.taker /\ g.makers = h.makers /\ g.book = c
        /\ g.halted = h.halted /\ g.done = h.done /\ g.err = h.err /\ g.trades = h.trades
    BY <2>3, <2>4 DEF ApplyRun
  <2>6. {y \in {m1} : isBookable(y)} = {}
    BY <1>1 DEF isBookable, OpenStatuses
  <2> QED  BY <1>1, <2>2, <2>5, <2>6 DEF Covers
<1>2. CASE m1.status # "filled"
  <2>1. PICK c : c = replaceHead(b, sd, p, m1)
    OBVIOUS
  <2>2. rests(m1, sd, p) /\ m1.id = x.id
    BY <1>2 DEF rests, SameTerms, isBookable, OpenStatuses
  <2>3. /\ GoodBook(c) /\ x \in Resting(b)
        /\ Resting(c) = (Resting(b) \ {x}) \cup {m1} /\ c.orders = b.orders
    BY <2>1, <2>2, ReplaceHeadGood
  <2>4. g = [h EXCEPT !.book = c]
    <3>1. g = [h EXCEPT !.book.side[sd].levels[p][1] = m1]
      BY <1>2 DEF settleHead
    <3> QED  BY <2>1, <3>1 DEF replaceHead
  <2>5. c \in BookShape
    BY <2>3 DEF GoodBook
  <2>6. /\ g \in ApplyRun /\ g.taker = h.taker /\ g.makers = h.makers /\ g.book = c
        /\ g.halted = h.halted /\ g.done = h.done /\ g.err = h.err /\ g.trades = h.trades
    BY <2>4, <2>5 DEF ApplyRun
  <2>7. Covers(b, c)
    BY <2>3 DEF Covers, SameTerms
  <2>8. {y \in {m1} : isBookable(y)} = {m1}
    BY <2>2 DEF rests
  <2> QED  BY <1>2, <2>3, <2>6, <2>7, <2>8
<1> QED  BY <1>1, <1>2

\* One round of Apply.
LEMMA RoundStep ==
    ASSUME NEW b, GoodBook(b), NEW o \in AnyOrder, NEW r, RoundGood(b, o, r),
           NEW g, g = applyRound(r)
    PROVE  /\ RoundGood(b, o, g)
           /\ Stopped(r) => g = r
           /\ ~Stopped(r) => Stopped(g) \/ \E id \in DOMAIN r.book.orders :
                                               DOMAIN g.book.orders = DOMAIN r.book.orders \ {id}
<1>1. PICK t \in AnyOrder : t = r.taker /\ SameTerms(o, t)
  BY DEF RoundGood, ApplyRun
<1>2. PICK bk : bk = r.book /\ GoodBook(bk) /\ Covers(b, bk)
  BY DEF RoundGood
<1>3. r \in ApplyRun
  BY DEF RoundGood
<1>4. PICK yes : yes = TRUE
  BY Zenon
<1>5. CASE Stopped(r)
  <2>1. g = r
    BY <1>5 DEF applyRound, Stopped
  <2> QED  BY <1>5, <2>1
<1>6. CASE ~Stopped(r)
  <2>1. ~r.err /\ ~r.halted /\ ~r.done /\ t.remaining > 0 /\ t.remaining \in Nat
    BY <1>1, <1>6, OrderTyped DEF Stopped
  <2>2. /\ o.id \notin DOMAIN b.orders /\ o.id \notin DOMAIN bk.orders
        /\ t.id = o.id /\ t.side \in Sides
    <3>1. DOMAIN bk.orders \subseteq DOMAIN b.orders
      BY <1>2, CoversIds
    <3> QED  BY <1>1, <1>2, <2>1, <3>1, OrderTyped DEF RoundGood, SameTerms
  <2>3. PICK sd \in Sides : sd = oppositeSide(t.side) /\ sd # t.side
    BY <2>2, RestingOnSides
  <2>4. \A y \in Sides : y = sd \/ y = t.side
    BY <2>2, <2>3 DEF Sides
  <2>5. g = nextMaker(r, bk.side[sd])
    BY <1>1, <1>2, <1>6, <2>3 DEF applyRound, Stopped
  <2>6. ASSUME g = [r EXCEPT !.done = yes], FacesNone(bk, t)
        PROVE  RoundGood(b, o, g) /\ Stopped(g)
    <3>1. /\ g \in ApplyRun /\ g.taker = t /\ g.book = bk /\ g.makers = r.makers
          /\ g.halted = r.halted /\ g.err = r.err /\ g.done = yes
      BY <1>1, <1>2, <1>3, <1>4, <2>6 DEF ApplyRun
    <3>2. RoundGood(b, o, g)
      BY <1>1, <1>2, <2>6, <3>1 DEF RoundGood
    <3> QED  BY <1>4, <3>1, <3>2 DEF Stopped
  <2>7. CASE bk.side[sd].prices = <<>>
    <3>1. g = [r EXCEPT !.done = yes]
      BY <1>4, <2>5, <2>7 DEF nextMaker
    <3>2. FacesNone(bk, t)
      <4>1. \A y \in Resting(bk) : y.side # sd
        BY <1>2, <2>7, NoPricesNoOrders
      <4>2. \A y \in Resting(bk) : y.side \in Sides
        BY <1>2, RestingRests
      <4> QED  BY <2>4, <4>1, <4>2 DEF FacesNone
    <3> QED  BY <1>6, <2>6, <3>1, <3>2
  <2>8. CASE bk.side[sd].prices # <<>>
    <3>1. PICK p : p = bk.side[sd].prices[1]
      OBVIOUS
    <3>2. PICK x : x = bk.side[sd].levels[p][1]
      OBVIOUS
    <3>3. /\ p \in DOMAIN bk.side[sd].levels /\ p \in Prices
          /\ 1 \in 1..Len(bk.side[sd].levels[p])
          /\ rests(x, sd, p) /\ x \in Resting(bk)
          /\ \A y \in Resting(bk) : y.side = sd =>
                y.price = p \/ IF sd = "buy" THEN p > y.price ELSE p < y.price
      BY <1>2, <2>8, <3>1, <3>2, BestFirst
    <3>4. /\ x \in AnyOrder /\ x.side = sd /\ x.price = p /\ isBookable(x)
          /\ x.id \in DOMAIN bk.orders /\ x.id # t.id
      <4>1. x \in AnyOrder /\ x.side = sd /\ x.price = p /\ isBookable(x)
        BY <3>3 DEF rests
      <4>2. x.id \in DOMAIN bk.orders
        BY <1>2, <3>3, RestingRests
      <4> QED  BY <2>2, <4>1, <4>2
    <3>5. g = meetMaker(r, x)
      BY <2>5, <2>8, <3>1, <3>2 DEF nextMaker
    <3>6. t.price \in Nat /\ p \in Nat /\ x.remaining \in Nat /\ x.remaining > 0
      BY <1>1, <3>4, OrderTyped DEF isBookable
    <3>7. crossesPrice(t, x) <=> IF t.side = "buy" THEN p <= t.price ELSE p >= t.price
      BY <2>3, <3>4 DEF crossesPrice, isBookable
    <3>8. CASE eligibleMaker(t, x)
      <4>1. g = settleHead(tradeWith(r, x), sd, p)
        BY <1>1, <3>4, <3>5, <3>8 DEF meetMaker
      <4>2. PICK qty \in Nat : /\ qty = IF t.remaining <= x.remaining THEN t.remaining ELSE x.remaining
                               /\ qty <= t.remaining /\ qty <= x.remaining
        BY <2>1, <3>6
      <4>3. PICK quote \in Nat : quote = Mul(qty, p)
        BY <3>6, MulType
      <4>4. PICK trade : trade = [maker |-> x.id, taker |-> t.id, price |-> p, qty |-> qty, quote |-> quote]
        OBVIOUS
      <4>5. PICK t1 : t1 = filledBy(t, qty)
        OBVIOUS
      <4>6. PICK m1 : m1 = filledBy(x, qty)
        OBVIOUS
      <4>7. /\ t1 \in AnyOrder /\ SameTerms(t, t1) /\ t1.remaining = t.remaining - qty
            /\ m1 \in AnyOrder /\ SameTerms(x, m1) /\ m1.remaining = x.remaining - qty
            /\ m1.status = IF x.remaining = qty THEN "filled" ELSE "partially_filled"
        BY <3>4, <4>2, <4>5, <4>6, FillTyped
      <4>8. PICK h : h = [r EXCEPT !.taker = t1, !.makers = Append(@, m1), !.trades = Append(@, trade)]
        OBVIOUS
      <4>9. tradeWith(r, x) = IF quote <= 0 THEN [r EXCEPT !.err = yes] ELSE h
        BY <1>1, <1>4, <3>4, <4>2, <4>3, <4>4, <4>5, <4>6, <4>8 DEF tradeWith
      <4>10. CASE quote <= 0
        <5>1. PICK e : e = [r EXCEPT !.err = yes]
          OBVIOUS
        <5>2. /\ e \in ApplyRun /\ e.taker = t /\ e.book = bk /\ e.makers = r.makers
              /\ e.halted = r.halted /\ e.err = yes /\ e.done = r.done
          BY <1>1, <1>2, <1>3, <1>4, <5>1 DEF ApplyRun
        <5>3. g = e
          BY <1>4, <4>1, <4>9, <4>10, <5>1, <5>2 DEF settleHead
        <5>4. RoundGood(b, o, g)
          BY <1>1, <1>2, <1>4, <5>2, <5>3 DEF RoundGood
        <5> QED  BY <1>4, <1>6, <5>2, <5>3, <5>4 DEF Stopped
      <4>11. CASE ~(quote <= 0)
        <5>1. PICK ms, ts : ms = r.makers /\ ts = r.trades /\ ms \in Seq(AnyOrder) /\ ts \in Seq(Trade)
          BY <1>3 DEF ApplyRun
        <5>2. trade \in Trade
          BY <1>1, <3>4, <3>6, <4>2, <4>3, <4>4, OrderTyped DEF Trade
        <5>3. PICK ns, us : ns = Append(ms, m1) /\ us = Append(ts, trade)
          OBVIOUS
        <5>4. /\ ns \in Seq(AnyOrder) /\ us \in Seq(Trade) /\ Last(ns) = m1
              /\ Len(ns) = Len(ms) + 1 /\ ns[Len(ms) + 1] = m1
              /\ \A i \in 1..Len(ms) : ns[i] = ms[i]
          BY <4>7, <5>1, <5>2, <5>3 DEF Last
        <5>5. h = [r EXCEPT !.taker = t1, !.makers = ns, !.trades = us]
          BY <1>3, <4>8, <5>1, <5>3 DEF ApplyRun
        <5>6. /\ h \in ApplyRun /\ h.taker = t1 /\ h.book = bk /\ h.makers = ns
              /\ h.halted = r.halted /\ h.err = r.err /\ h.done = r.done
          BY <1>2, <1>3, <4>7, <5>4, <5>5 DEF ApplyRun
        <5>7. g = settleHead(h, sd, p)
          BY <4>1, <4>9, <4>11
        <5>8. h.err = FALSE
          BY <1>3, <2>1, <5>6 DEF ApplyRun
        <5>9. m1.status = "filled" \/ (m1.status = "partially_filled" /\ m1.remaining > 0)
          BY <3>6, <4>2, <4>7
        <5>10. /\ g \in ApplyRun /\ g.taker = t1 /\ g.makers = ns
               /\ g.halted = r.halted /\ g.done = r.done /\ g.err = FALSE
               /\ GoodBook(g.book) /\ Covers(bk, g.book)
               /\ IF m1.status = "filled" THEN DOMAIN g.book.orders = DOMAIN bk.orders \ {x.id}
                                          ELSE g.book.orders = bk.orders
               /\ x \in Resting(bk)
               /\ Resting(g.book) = (Resting(bk) \ {x}) \cup {y \in {m1} : isBookable(y)}
          <6>1. Last(h.makers) = m1
            BY <5>4, <5>6
          <6>2. m1 \in AnyOrder /\ SameTerms(x, m1)
            BY <4>7
          <6>3. h \in ApplyRun /\ h.book = bk
            BY <5>6
          <6>4. GoodBook(bk) /\ p \in DOMAIN bk.side[sd].levels /\ rests(x, sd, p)
            BY <1>2, <3>3
          <6>5. 1 \in 1..Len(bk.side[sd].levels[p])
            BY <3>3
          <6>7. HeadFill(bk, h, sd, p, x, m1)
            BY <3>2, <5>8, <5>9, <6>1, <6>2, <6>3, <6>4, <6>5 DEF HeadFill
          <6>8. HeadFilled(bk, h, x, m1, g)
            BY <5>7, <6>7, SettleHeadGood
          <6> QED  BY <5>6, <6>8 DEF HeadFilled
        <5>15. /\ Traced(b, g.book, ns)
               /\ t1.remaining > 0 => \A y \in Range(ns) : ~isBookable(y)
          <6>1. Traced(b, bk, ms) /\ \A y \in Range(ms) : ~isBookable(y)
            BY <1>1, <1>2, <2>1, <5>1 DEF RoundGood
          <6>2. x.id \notin idsOf(ms)
            BY <5>10, <6>1 DEF Traced
          <6>3. m1.id = x.id
            BY <4>7 DEF SameTerms
          <6>4. \A y \in Resting(bk) : y.id = x.id => y = x
            BY <1>2, <5>10, IdsAreUnique
          <6>5. Resting(g.book) = {y \in Resting(bk) : y.id # m1.id} \cup {y \in {m1} : isBookable(y)}
            BY <5>10, <6>3, <6>4
          <6>6. m1 \in AnyOrder /\ m1.id \notin idsOf(ms)
            BY <4>7, <6>2, <6>3
          <6>7. Traced(b, g.book, Append(ms, m1))
            BY <6>1, <6>5, <6>6, TraceAppend
          <6>8. ASSUME t1.remaining > 0 PROVE \A y \in Range(ns) : ~isBookable(y)
            <7>1. m1.status = "filled"
              BY <2>1, <3>6, <4>2, <4>7, <6>8
            <7>2. ~isBookable(m1)
              BY <7>1 DEF isBookable, OpenStatuses
            <7>3. \A i \in 1..Len(ns) : i \in 1..Len(ms) \/ i = Len(ms) + 1
              BY <5>1, <5>4
            <7>4. DOMAIN ns = 1..Len(ns) /\ DOMAIN ms = 1..Len(ms)
              BY <5>1, <5>4
            <7>5. \A i \in 1..Len(ns) : ns[i] = m1 \/ ns[i] \in Range(ms)
              BY <5>4, <7>3, <7>4 DEF Range
            <7> QED  BY <6>1, <7>2, <7>4, <7>5 DEF Range
          <6> QED  BY <5>3, <6>7, <6>8
        <5>11. RoundGood(b, o, g)
          <6>1. SameTerms(o, t1)
            BY <1>1, <4>7 DEF SameTerms
          <6>3. Covers(b, g.book)
            BY <1>2, <5>10, CoversTrans
          <6>4. \A i \in 1..Len(ns) : /\ ns[i].id \in DOMAIN b.orders
                                      /\ ns[i].status \in {"filled", "partially_filled"}
            <7>1. DOMAIN bk.orders \subseteq DOMAIN b.orders
              BY <1>2, CoversIds
            <7>2. m1.id \in DOMAIN b.orders /\ m1.status \in {"filled", "partially_filled"}
              BY <3>4, <4>7, <7>1 DEF SameTerms
            <7>3. \A i \in 1..Len(ns) : i \in 1..Len(ms) \/ i = Len(ms) + 1
              BY <5>1, <5>4
            <7> QED  BY <5>1, <5>4, <7>2, <7>3 DEF RoundGood
          <6> QED  BY <2>1, <2>2, <5>10, <5>15, <6>1, <6>3, <6>4 DEF RoundGood
        <5>12. CASE m1.status = "filled"
          BY <1>2, <1>6, <3>4, <5>10, <5>11, <5>12
        <5>13. CASE m1.status # "filled"
          <6>1. t1.remaining <= 0
            BY <2>1, <3>6, <4>2, <4>7, <5>13
          <6> QED  BY <1>6, <5>10, <5>11, <6>1 DEF Stopped
        <5> QED  BY <5>12, <5>13
      <4> QED  BY <4>10, <4>11
    <3>9. CASE ~eligibleMaker(t, x) /\ isSelfTrade(t, x) /\ crossesPrice(t, x)
      <4>1. g = [r EXCEPT !.taker.status = "expired", !.halted = yes]
        BY <1>1, <1>4, <3>5, <3>9 DEF meetMaker
      <4>2. PICK t1 : t1 = [t EXCEPT !.status = "expired"]
        OBVIOUS
      <4>3. /\ t1 \in AnyOrder /\ t1.status = "expired" /\ SameTerms(t, t1)
            /\ t1.remaining = t.remaining
        BY <4>2 DEF AnyOrder, SameTerms
      <4>4. g = [r EXCEPT !.taker = t1, !.halted = yes]
        BY <1>1, <1>3, <4>1, <4>2 DEF ApplyRun
      <4>5. /\ g \in ApplyRun /\ g.taker = t1 /\ g.book = bk /\ g.makers = r.makers
            /\ g.halted = yes /\ g.err = r.err /\ g.done = r.done
        BY <1>2, <1>3, <1>4, <4>3, <4>4 DEF ApplyRun
      <4>6. SameTerms(o, t1)
        BY <1>1, <4>3 DEF SameTerms
      <4>7. RoundGood(b, o, g)
        BY <1>1, <1>2, <2>1, <4>3, <4>5, <4>6 DEF RoundGood
      <4> QED  BY <1>4, <1>6, <4>5, <4>7 DEF Stopped
    <3>10. CASE ~crossesPrice(t, x)
      <4>1. g = [r EXCEPT !.done = yes]
        BY <1>1, <1>4, <2>3, <3>4, <3>5, <3>10 DEF meetMaker, eligibleMaker
      <4>2. FacesNone(bk, t)
        <5>1. ASSUME NEW y \in Resting(bk), y.side # t.side
              PROVE  IF t.side = "buy" THEN y.price > t.price ELSE y.price < t.price
          <6>1. y.side = sd /\ y.price \in Nat
            BY <1>2, <2>4, <5>1, RestingRests, OrderTyped DEF rests
          <6>2. y.price = p \/ IF sd = "buy" THEN p > y.price ELSE p < y.price
            BY <3>3, <6>1
          <6>3. sd = "buy" <=> t.side # "buy"
            BY <2>2, <2>3 DEF Sides
          <6> QED  BY <3>6, <3>7, <3>10, <6>1, <6>2, <6>3
        <5> QED  BY <5>1 DEF FacesNone
      <4> QED  BY <1>6, <2>6, <4>1, <4>2
    <3> QED  BY <3>8, <3>9, <3>10 DEF eligibleMaker
  <2> QED  BY <2>7, <2>8
<1> QED  BY <1>5, <1>6

applyStep(c, r, i) == applyRound(r)

Rounds == INSTANCE FoldLemmas WITH step <- applyStep, Good <- noClaim

\* The index is finite.
LEMMA IndexFinite ==
    ASSUME NEW b, GoodBook(b)
    PROVE  /\ IsFiniteSet(DOMAIN b.orders) /\ Cardinality(DOMAIN b.orders) \in Nat
           /\ DOMAIN b.orders \subseteq OrderIds
<1>1. PICK D \in SUBSET OrderIds : b.orders \in [D -> [side : Sides, price : Prices]]
  BY DEF GoodBook, Indexed, Indexes
<1>2. DOMAIN b.orders = D
  BY <1>1
<1>3. IsFiniteSet(OrderIds)
  BY FS_Interval, LedgerAssumption DEF OrderIds
<1>4. IsFiniteSet(D)
  BY <1>3, FS_Subset
<1> QED  BY <1>2, <1>4, FS_CardinalityType

\* The start of Apply, and its list of rounds.
applyStart(b, o) ==
    [book |-> b, taker |-> o, makers |-> <<>>, trades |-> <<>>,
     halted |-> FALSE, done |-> FALSE,
     err |-> o.id \in DOMAIN b.orders \/ ~validTaker(o)]

applyList(b) == [i \in 1..(Cardinality(DOMAIN b.orders) + 1) |-> i]

\* Nothing was met yet.
AtStart(b, o, z) ==
    /\ RoundGood(b, o, z)
    /\ z.taker = o /\ z.book = b /\ z.makers = <<>> /\ z.trades = <<>>
    /\ z.halted = FALSE /\ z.done = FALSE
    /\ z.err = (o.id \in DOMAIN b.orders \/ ~validTaker(o))

\* The start is good.
LEMMA StartGood ==
    ASSUME NEW b, GoodBook(b), NEW o \in AnyOrder, NEW z, z = applyStart(b, o)
    PROVE  AtStart(b, o, z)
<1>1. PICK e : e = (o.id \in DOMAIN b.orders \/ ~validTaker(o)) /\ e \in BOOLEAN
  BY Zenon
<1>2. z = [book |-> b, taker |-> o, makers |-> <<>>, trades |-> <<>>,
           halted |-> FALSE, done |-> FALSE, err |-> e]
  BY <1>1 DEF applyStart
<1>3. b \in BookShape /\ <<>> \in Seq(AnyOrder) /\ <<>> \in Seq(Trade)
  BY DEF GoodBook
<1>4. z \in ApplyRun
  BY <1>1, <1>2, <1>3 DEF ApplyRun
<1>5. /\ z.taker = o /\ z.book = b /\ z.makers = <<>> /\ z.trades = <<>>
      /\ z.halted = FALSE /\ z.done = FALSE /\ z.err = e
  BY <1>2
<1>6. SameTerms(o, o) /\ Covers(b, b)
  BY DEF SameTerms, Covers
<1>7. e \/ o.id \notin DOMAIN b.orders
  BY <1>1
<1>8. Range(<<>>) = {} /\ Traced(b, b, <<>>)
  BY DEF Range, Traced, Distinct, idsOf
<1>9. RoundGood(b, o, z)
  BY <1>4, <1>5, <1>6, <1>7, <1>8 DEF RoundGood
<1>10. z.err = (o.id \in DOMAIN b.orders \/ ~validTaker(o))
  BY <1>1, <1>5, Zenon
<1> QED  BY <1>5, <1>9, <1>10, Zenon DEF AtStart

\* The rounds are enough: every round but the last takes an order out of the book.
LEMMA RoundsEnd ==
    ASSUME NEW b, GoodBook(b), NEW o \in AnyOrder, NEW r,
           r = Rounds!FoldFrom(0, applyStart(b, o), applyList(b))
    PROVE  RoundGood(b, o, r) /\ Stopped(r)
<1>1. PICK N \in Nat : N = Cardinality(DOMAIN b.orders)
  BY IndexFinite
<1>2. PICK l : l = applyList(b)
  OBVIOUS
<1>3. PICK n \in Nat : n = N + 1
  OBVIOUS
<1>4. DOMAIN l = 1..n
  BY <1>1, <1>2, <1>3 DEF applyList
<1>5. PICK acc : Rounds!AreValues(acc, 0, applyStart(b, o), l, n)
  BY <1>4, Rounds!FoldLeftSteps
<1>6. /\ acc[0] = applyStart(b, o) /\ acc[n] = r
      /\ \A i \in 1..n : acc[i] = applyRound(acc[i - 1])
  BY <1>2, <1>5 DEF Rounds!AreValues, applyStep
<1> DEFINE left(i) == Cardinality(DOMAIN acc[i].book.orders)
           K == {i \in 0..n : RoundGood(b, o, acc[i]) /\ (Stopped(acc[i]) \/ left(i) + i <= N)}
<1>7. 0 \in K
  <2>1. RoundGood(b, o, acc[0]) /\ acc[0].book = b
    BY <1>6, StartGood DEF AtStart
  <2>2. left(0) + 0 <= N
    BY <1>1, <2>1
  <2> QED  BY <1>3, <2>1, <2>2
<1>8. ASSUME NEW i \in 1..n, i - 1 \in K PROVE i \in K
  <2>1. PICK k \in Nat : k = i - 1 /\ i = k + 1
    OBVIOUS
  <2>2. PICK x, y : x = acc[k] /\ y = acc[i] /\ y = applyRound(x)
    BY <1>6, <2>1
  <2>3. RoundGood(b, o, x) /\ (Stopped(x) \/ left(k) + k <= N)
    BY <1>8, <2>1, <2>2
  <2>4. /\ RoundGood(b, o, y) /\ (Stopped(x) => y = x)
        /\ ~Stopped(x) => Stopped(y) \/ \E id \in DOMAIN x.book.orders :
                                            DOMAIN y.book.orders = DOMAIN x.book.orders \ {id}
    BY <2>2, <2>3, RoundStep
  <2>5. Stopped(y) \/ left(i) + i <= N
    <3>1. CASE Stopped(x) \/ Stopped(y)
      BY <2>4, <3>1
    <3>2. CASE ~Stopped(x) /\ ~Stopped(y)
      <4>1. PICK id \in DOMAIN x.book.orders : DOMAIN y.book.orders = DOMAIN x.book.orders \ {id}
        BY <2>4, <3>2
      <4>2. GoodBook(x.book)
        BY <2>3 DEF RoundGood
      <4>3. IsFiniteSet(DOMAIN x.book.orders) /\ Cardinality(DOMAIN x.book.orders) \in Nat
        BY <4>2, IndexFinite
      <4>4. Cardinality(DOMAIN y.book.orders) = Cardinality(DOMAIN x.book.orders) - 1
        <5>1. PICK D : D = DOMAIN x.book.orders /\ IsFiniteSet(D)
          BY <4>3
        <5>2. Cardinality(D \ {id}) = Cardinality(D) - 1
          BY <5>1, FS_RemoveElement
        <5> QED  BY <4>1, <5>1, <5>2
      <4>5. left(k) = Cardinality(DOMAIN x.book.orders) /\ left(i) = Cardinality(DOMAIN y.book.orders)
        BY <2>2
      <4>6. left(i) = left(k) - 1 /\ left(k) \in Nat
        BY <4>3, <4>4, <4>5
      <4> QED  BY <2>1, <2>3, <3>2, <4>6
    <3> QED  BY <3>1, <3>2
  <2>6. i \in 0..n
    BY <1>3
  <2>7. RoundGood(b, o, acc[i]) /\ (Stopped(acc[i]) \/ left(i) + i <= N)
    BY <2>2, <2>4, <2>5
  <2> HIDE DEF left
  <2> QED  BY <2>6, <2>7
<1> HIDE DEF K
<1>9. n \in K
  BY <1>7, <1>8, Rounds!CountTo
<1>10. RoundGood(b, o, r) /\ (Stopped(r) \/ left(n) + n <= N)
  BY <1>6, <1>9 DEF K
<1>11. left(n) \in Nat
  <2>1. GoodBook(r.book)
    BY <1>10 DEF RoundGood
  <2> QED  BY <1>6, <2>1, IndexFinite
<1>12. ~(left(n) + n <= N)
  BY <1>3, <1>11
<1> QED  BY <1>10, <1>12

\* What Apply returns.
Applied(b, o, r) ==
    /\ r.taker \in AnyOrder /\ SameTerms(o, r.taker)
    /\ r.makers \in Seq(AnyOrder) /\ r.trades \in Seq(Trade)
    /\ r.taker.status \in {"open", "partially_filled", "filled", "expired"}
    /\ o.id \notin DOMAIN b.orders
    /\ GoodBook(r.book)
    /\ Uncrossed(b) => Uncrossed(r.book)
    /\ DOMAIN r.book.orders \subseteq DOMAIN b.orders \cup {o.id}
    /\ Traced(b, r.book, Append(r.makers, r.taker))
    /\ \A i \in 1..Len(r.makers) : /\ r.makers[i] \in AnyOrder
                                   /\ r.makers[i].id \in DOMAIN b.orders
                                   /\ r.makers[i].status \in {"filled", "partially_filled"}

\* The rest of an order that faces nothing goes into the book and does not cross it.
LEMMA RestRests ==
    ASSUME NEW b, GoodBook(b), NEW t \in AnyOrder, t.id \notin DOMAIN b.orders,
           FacesNone(b, t), t.remaining > 0, t.type # "market",
           NEW st \in {"open", "partially_filled"}, NEW t1, t1 = [t EXCEPT !.status = st]
    PROVE  /\ t1 \in AnyOrder /\ SameTerms(t, t1) /\ t1.status = st
           /\ GoodBook(insertResting(b, t1))
           /\ Uncrossed(b) => Uncrossed(insertResting(b, t1))
           /\ DOMAIN insertResting(b, t1).orders = DOMAIN b.orders \cup {t.id}
           /\ isBookable(t1)
           /\ Resting(insertResting(b, t1)) = Resting(b) \cup {t1}
<1>1. t1 \in AnyOrder /\ SameTerms(t, t1) /\ t1.status = st /\ t1.remaining = t.remaining
  BY DEF AnyOrder, SameTerms
<1>2. isBookable(t1) /\ t1.id = t.id
  BY <1>1 DEF isBookable, OpenStatuses, SameTerms
<1>3. PICK c : c = insertResting(b, t1)
  OBVIOUS
<1>4. /\ GoodBook(c) /\ Resting(c) = Resting(b) \cup {t1}
      /\ DOMAIN c.orders = DOMAIN b.orders \cup {t.id}
  <2>1. t1 \in AnyOrder /\ isBookable(t1) /\ t1.id \notin DOMAIN b.orders
    BY <1>1, <1>2
  <2>2. /\ GoodBook(insertResting(b, t1)) /\ Resting(insertResting(b, t1)) = Resting(b) \cup {t1}
        /\ DOMAIN insertResting(b, t1).orders = DOMAIN b.orders \cup {t1.id}
    BY <2>1, InsertGood
  <2> QED  BY <1>2, <1>3, <2>2
<1>5. ASSUME Uncrossed(b), NEW x \in Resting(c), NEW y \in Resting(c), x.side = "buy", y.side = "sell"
      PROVE  x.price < y.price
  <2>1. t1.side = t.side /\ t1.price = t.price
    BY <1>1 DEF SameTerms
  <2>2. t.price \in Nat /\ \A z \in Resting(b) : z.price \in Nat
    <3>1. \A z \in Resting(b) : z \in AnyOrder
      BY RestingRests DEF rests
    <3> QED  BY <3>1, OrderTyped
  <2>3. CASE x = t1 /\ y \in Resting(b)
    BY <1>5, <2>1, <2>2, <2>3 DEF FacesNone
  <2>4. CASE y = t1 /\ x \in Resting(b)
    BY <1>5, <2>1, <2>2, <2>4 DEF FacesNone
  <2>5. CASE x \in Resting(b) /\ y \in Resting(b)
    BY <1>5, <2>5 DEF Uncrossed
  <2>6. ~(x = t1 /\ y = t1)
    BY <1>5
  <2> QED  BY <1>4, <2>3, <2>4, <2>5, <2>6
<1>6. Uncrossed(b) => Uncrossed(c)
  BY <1>5 DEF Uncrossed
<1> QED  BY <1>1, <1>2, <1>3, <1>4, <1>6

\* What is left of the taker rests, expires or is nothing.
LEMMA FinishGood ==
    ASSUME NEW b, GoodBook(b), NEW o \in AnyOrder, NEW m, RoundGood(b, o, m), Stopped(m), ~m.err
    PROVE  ~finishApply(m).err /\ Applied(b, o, finishApply(m))
<1>1. PICK t \in AnyOrder : t = m.taker /\ SameTerms(o, t) /\ t.id = o.id
  BY DEF RoundGood, ApplyRun, SameTerms
<1>2. /\ m \in ApplyRun /\ GoodBook(m.book) /\ Covers(b, m.book)
      /\ o.id \notin DOMAIN b.orders
      /\ \A i \in 1..Len(m.makers) : /\ m.makers[i].id \in DOMAIN b.orders
                                     /\ m.makers[i].status \in {"filled", "partially_filled"}
  BY DEF RoundGood
<1>3. /\ m.makers \in Seq(AnyOrder) /\ m.trades \in Seq(Trade)
      /\ \A i \in 1..Len(m.makers) : m.makers[i] \in AnyOrder
  BY <1>2 DEF ApplyRun
<1>4. PICK g : g = finishApply(m)
  OBVIOUS
<1>5. DOMAIN m.book.orders \subseteq DOMAIN b.orders /\ (Uncrossed(b) => Uncrossed(m.book))
  BY <1>2, CoversIds, CoversUncrossed
<1>6. t.remaining \in Nat
  BY OrderTyped
<1>7. ASSUME NEW st \in {"open", "partially_filled", "filled", "expired"}, NEW t1,
             t1 = [t EXCEPT !.status = st]
      PROVE  t1 \in AnyOrder /\ SameTerms(o, t1) /\ t1.status = st
  <2>1. t1 \in AnyOrder /\ SameTerms(t, t1) /\ t1.status = st
    BY <1>7 DEF AnyOrder, SameTerms
  <2> QED  BY <1>1, <2>1 DEF SameTerms
<1>15. ASSUME NEW d, NEW t1 \in AnyOrder, SameTerms(o, t1),
              Resting(d) = Resting(m.book) \cup {x \in {t1} : isBookable(x)}
       PROVE  Traced(b, d, Append(m.makers, t1))
  <2>1. Traced(b, m.book, m.makers) /\ DOMAIN m.makers = 1..Len(m.makers)
    BY <1>2 DEF RoundGood, ApplyRun
  <2>2. t1.id = o.id
    BY <1>15 DEF SameTerms
  <2>3. t1.id \notin idsOf(m.makers)
    BY <1>2, <2>1, <2>2 DEF idsOf, Range
  <2>4. \A x \in Resting(m.book) : x.id # t1.id
    BY <1>2, <1>5, <2>2, RestingRests
  <2>5. Resting(d) = {x \in Resting(m.book) : x.id # t1.id} \cup {x \in {t1} : isBookable(x)}
    BY <1>15, <2>4
  <2> QED  BY <2>1, <2>3, <2>5, TraceAppend
<1>8. ASSUME NEW t1, t1 \in AnyOrder, SameTerms(o, t1),
             t1.status \in {"filled", "expired"},
             g.taker = t1, g.book = m.book, g.makers = m.makers, g.trades = m.trades, g.err = m.err
      PROVE  ~g.err /\ Applied(b, o, g)
  <2>1. {x \in {t1} : isBookable(x)} = {}
    BY <1>8 DEF isBookable, OpenStatuses
  <2>2. Traced(b, g.book, Append(g.makers, g.taker))
    BY <1>8, <1>15, <2>1
  <2> QED  BY <1>2, <1>3, <1>5, <1>8, <2>2 DEF Applied
<1>9. ASSUME NEW st \in {"filled", "expired"}, g = [m EXCEPT !.taker.status = st]
      PROVE  ~g.err /\ Applied(b, o, g)
  <2>1. PICK t1 : t1 = [t EXCEPT !.status = st]
    OBVIOUS
  <2>2. g = [m EXCEPT !.taker = t1]
    BY <1>1, <1>2, <1>9, <2>1 DEF ApplyRun
  <2>3. t1 \in AnyOrder /\ SameTerms(o, t1) /\ t1.status = st
    BY <1>7, <2>1
  <2>4. /\ g.taker = t1 /\ g.book = m.book /\ g.makers = m.makers
        /\ g.trades = m.trades /\ g.err = m.err
    BY <1>2, <2>2 DEF ApplyRun
  <2> QED  BY <1>8, <2>3, <2>4
<1>10. ASSUME NEW st \in {"open", "partially_filled"}, ~m.halted, t.remaining > 0, t.type # "market",
              g = [m EXCEPT !.taker.status = st,
                            !.book = insertResting(@, [m.taker EXCEPT !.status = st])]
       PROVE  ~g.err /\ Applied(b, o, g)
  <2>1. PICK t1 : t1 = [t EXCEPT !.status = st]
    OBVIOUS
  <2>2. PICK c : c = insertResting(m.book, t1)
    OBVIOUS
  <2>3. m.done
    BY <1>1, <1>6, <1>10 DEF Stopped
  <2>4. FacesNone(m.book, t)
    BY <1>1, <2>3 DEF RoundGood
  <2>5. t.id \notin DOMAIN m.book.orders
    BY <1>1, <1>2, <1>5
  <2>6. /\ GoodBook(c) /\ (Uncrossed(m.book) => Uncrossed(c))
        /\ DOMAIN c.orders = DOMAIN m.book.orders \cup {t.id}
        /\ isBookable(t1) /\ Resting(c) = Resting(m.book) \cup {t1}
    BY <1>2, <1>10, <2>1, <2>2, <2>4, <2>5, RestRests
  <2>7. t1 \in AnyOrder /\ SameTerms(o, t1) /\ t1.status = st
    BY <1>7, <2>1
  <2>8. c \in BookShape
    BY <2>6 DEF GoodBook
  <2>9. g = [m EXCEPT !.taker = t1, !.book = c]
    BY <1>1, <1>2, <1>10, <2>1, <2>2 DEF ApplyRun
  <2>10. /\ g.taker = t1 /\ g.book = c /\ g.makers = m.makers
         /\ g.trades = m.trades /\ g.err = m.err
    BY <1>2, <2>9 DEF ApplyRun
  <2>11. Resting(c) = Resting(m.book) \cup {x \in {t1} : isBookable(x)}
    BY <2>6
  <2>12. Traced(b, g.book, Append(g.makers, g.taker))
    BY <1>15, <2>7, <2>10, <2>11
  <2> QED  BY <1>1, <1>2, <1>3, <1>5, <2>6, <2>7, <2>10, <2>12 DEF Applied
<1>11. CASE m.halted
  <2>1. g = m
    BY <1>4, <1>11 DEF finishApply
  <2>2. t.status = "expired"
    BY <1>1, <1>11 DEF RoundGood
  <2> QED  BY <1>1, <1>4, <1>8, <2>1, <2>2
<1>12. CASE ~m.halted /\ t.remaining <= 0
  <2>1. g = [m EXCEPT !.taker.status = "filled"]
    BY <1>1, <1>4, <1>12 DEF finishApply
  <2> QED  BY <1>4, <1>9, <2>1
<1>13. CASE ~m.halted /\ ~(t.remaining <= 0) /\ isImmediateOnlyBookOrder(t)
  <2>1. g = [m EXCEPT !.taker.status = "expired"]
    BY <1>1, <1>4, <1>13 DEF finishApply
  <2> QED  BY <1>4, <1>9, <2>1
<1>14. CASE ~m.halted /\ ~(t.remaining <= 0) /\ ~isImmediateOnlyBookOrder(t)
  <2>1. t.remaining > 0 /\ t.type # "market"
    BY <1>6, <1>14 DEF isImmediateOnlyBookOrder
  <2>2. \/ g = [m EXCEPT !.taker.status = "open",
                         !.book = insertResting(@, [m.taker EXCEPT !.status = "open"])]
        \/ g = [m EXCEPT !.taker.status = "partially_filled",
                         !.book = insertResting(@, [m.taker EXCEPT !.status = "partially_filled"])]
    BY <1>1, <1>4, <1>14 DEF finishApply
  <2> QED  BY <1>4, <1>10, <1>14, <2>1, <2>2
<1> QED  BY <1>11, <1>12, <1>13, <1>14

\* An order applied to a well-formed book.
LEMMA ApplyGood ==
    ASSUME NEW b, GoodBook(b), NEW o \in AnyOrder
    PROVE  Apply(b, o).err \/ Applied(b, o, Apply(b, o))
<1>1. PICK m : m = Rounds!FoldFrom(0, applyStart(b, o), applyList(b))
  OBVIOUS
<1>2. RoundGood(b, o, m) /\ Stopped(m)
  BY <1>1, RoundsEnd
<1>3. FoldLeft(LAMBDA r, i : applyRound(r), applyStart(b, o), applyList(b)) = m
  BY <1>1 DEF Rounds!FoldFrom, Rounds!FoldLeft, Rounds!MapThenFoldSet, Rounds!Max,
     FoldLeft, MapThenFoldSet, Max, applyStep
<1>4. Apply(b, o) = finishApply(m)
  BY <1>3 DEF Apply, applyStart, applyList
<1>5. CASE m.err
  <2>1. finishApply(m) = m
    BY <1>5 DEF finishApply
  <2> QED  BY <1>4, <1>5, <2>1
<1>6. CASE ~m.err
  BY <1>2, <1>4, <1>6, FinishGood
<1> QED  BY <1>5, <1>6

-----------------------------------------------------------------------------
(* Copies of the book.                                                     *)

\* The new book.
LEMMA EmptyGood == GoodBook(NewMarketBook) /\ Resting(NewMarketBook) = {}
<1>1. PICK b : b = NewMarketBook
  OBVIOUS
<1>2. PICK f : f = [p \in {} |-> <<>>]
  OBVIOUS
<1>3. PICK s : s = [prices |-> <<>>, levels |-> f]
  OBVIOUS
<1>4. f \in [{} -> Seq(AnyOrder)] /\ DOMAIN f = {} /\ f \in [{} -> [side : Sides, price : Prices]]
  BY <1>2
<1>5. f \in Queues
  <2>1. {} \in SUBSET Prices
    OBVIOUS
  <2> QED  BY <1>4, <2>1 DEF Queues
<1>6. s.prices = <<>> /\ s.levels = f /\ s \in SideShape
  BY <1>3, <1>5 DEF SideShape
<1>7. GoodSide(s, "buy") /\ GoodSide(s, "sell")
  <2>1. Range(<<>>) = {}
    BY DEF Range
  <2>2. \A R : Sorted(R, <<>>)
    BY DEF Sorted
  <2> QED  BY <1>4, <1>6, <2>1, <2>2 DEF GoodSide
<1>8. PICK g : g = [x \in Sides |-> s]
  OBVIOUS
<1>9. g \in [Sides -> SideShape] /\ g["buy"] = s /\ g["sell"] = s
  BY <1>6, <1>8 DEF Sides
<1>10. f \in Indexes
  <2>1. {} \in SUBSET OrderIds
    OBVIOUS
  <2> QED  BY <1>4, <2>1 DEF Indexes
<1>11. PICK yes : yes = TRUE
  BY Zenon
<1>12. b = [ok |-> yes, side |-> g, orders |-> f]
  BY <1>1, <1>2, <1>3, <1>8, <1>11 DEF NewMarketBook
<1>13. b.ok = yes /\ b.side = g /\ b.orders = f /\ b \in BookShape
  BY <1>9, <1>10, <1>11, <1>12 DEF BookShape
<1>14. Entries(s) = {}
  BY <1>4, <1>6 DEF Entries
<1>15. Resting(b) = {}
  BY <1>9, <1>13, <1>14 DEF Resting
<1>16. Indexed(f, {})
  BY <1>4, <1>10 DEF Indexed
<1>17. \A sd \in Sides : GoodSide(b.side[sd], sd)
  BY <1>7, <1>9, <1>13 DEF Sides
<1>18. GoodBook(b)
  BY <1>11, <1>13, <1>15, <1>16, <1>17 DEF GoodBook
<1> QED  BY <1>1, <1>15, <1>18

\* Load puts the orders of a list into the book.
LEMMA LoadGood ==
    ASSUME NEW b, GoodBook(b), NEW items, Distinct(items),
           \A x \in Range(items) : x.id \notin DOMAIN b.orders
    PROVE  /\ GoodBook(Load(b, items))
           /\ Resting(Load(b, items)) = Resting(b) \cup {x \in Range(items) : isBookable(x)}
<1>1. PICK n \in Nat : n = Len(items) /\ DOMAIN items = 1..n
  BY DEF Distinct
<1>2. PICK acc : Loads!AreValues(acc, 0, b, items, n)
  BY <1>1, Loads!FoldLeftSteps
<1>3. acc[0] = b /\ \A i \in 1..n : acc[i] = loadOrder(acc[i - 1], items[i])
  BY <1>2 DEF Loads!AreValues, loadStep
<1>4. Load(b, items) = acc[n]
  BY <1>2 DEF Load, Loads!AreValues, Loads!FoldFrom, Loads!FoldLeft, Loads!MapThenFoldSet,
     Loads!Max, FoldLeft, MapThenFoldSet, Max, loadStep
<1> DEFINE first(i) == {items[j] : j \in 1..i}
           K == {i \in 0..n : /\ GoodBook(acc[i])
                              /\ Resting(acc[i]) = Resting(b) \cup {x \in first(i) : isBookable(x)}}
<1>5. 0 \in K
  BY <1>3
<1>6. ASSUME NEW i \in 1..n, i - 1 \in K PROVE i \in K
  <2>1. PICK k \in Nat : k = i - 1 /\ i = k + 1 /\ k \in 0..n /\ i \in 0..n
    BY <1>1
  <2>2. PICK x : x = acc[k]
    OBVIOUS
  <2>3. PICK y : y = acc[i]
    OBVIOUS
  <2>4. PICK o : o = items[i]
    OBVIOUS
  <2>5. y = loadOrder(x, o) /\ o \in AnyOrder /\ o \in Range(items)
    <3>1. y = loadOrder(x, o)
      BY <1>3, <2>1, <2>2, <2>3, <2>4
    <3>2. items \in Seq(AnyOrder) /\ i \in 1..Len(items)
      BY <1>1 DEF Distinct
    <3>3. o \in AnyOrder
      BY <2>4, <3>2
    <3>4. o \in Range(items)
      BY <1>1, <2>4 DEF Range
    <3> QED  BY <3>1, <3>3, <3>4
  <2>6. GoodBook(x) /\ Resting(x) = Resting(b) \cup {z \in first(k) : isBookable(z)}
    BY <1>6, <2>1, <2>2
  <2>7. first(i) = first(k) \cup {o}
    BY <2>1, <2>4
  <2>8. CASE isBookable(o)
    <3>1. o.id \notin DOMAIN x.orders
      <4>1. o.id \notin DOMAIN b.orders
        BY <2>5
      <4>2. \A z \in Resting(b) : z.id # o.id
        BY <4>1, RestingRests
      <4>3. \A z \in first(k) : z.id # o.id
        <5>1. ASSUME NEW j \in 1..k PROVE items[j].id # o.id
          <6>1. j \in 1..Len(items) /\ i \in 1..Len(items) /\ j # i
            BY <1>1, <2>1
          <6> QED  BY <2>4, <6>1 DEF Distinct
        <5> QED  BY <5>1
      <4>4. \A z \in Resting(x) : z.id # o.id
        BY <2>6, <4>2, <4>3
      <4> QED  BY <2>6, <4>4 DEF GoodBook, Indexed
    <3>2. GoodBook(insertResting(x, o)) /\ Resting(insertResting(x, o)) = Resting(x) \cup {o}
      BY <2>5, <2>6, <2>8, <3>1, InsertGood
    <3>3. y = insertResting(x, o)
      BY <2>5, <2>8 DEF loadOrder
    <3> QED  BY <2>1, <2>3, <2>6, <2>7, <2>8, <3>2, <3>3
  <2>9. CASE ~isBookable(o)
    <3>1. y = x
      BY <2>5, <2>9 DEF loadOrder
    <3> QED  BY <2>1, <2>3, <2>6, <2>7, <2>9, <3>1
  <2> QED  BY <2>8, <2>9
<1>7. n \in K
  <2> HIDE DEF K
  <2> QED  BY <1>5, <1>6, Loads!CountTo
<1>8. first(n) = Range(items)
  BY <1>1 DEF Range
<1> QED  BY <1>4, <1>7, <1>8

\* RestoreMarketBook makes a book of the orders of a list.
LEMMA RestoreGood ==
    ASSUME NEW items, Distinct(items)
    PROVE  /\ GoodBook(RestoreMarketBook(items))
           /\ Resting(RestoreMarketBook(items)) = {x \in Range(items) : isBookable(x)}
<1>1. PICK b : b = NewMarketBook
  OBVIOUS
<1>2. GoodBook(b) /\ Resting(b) = {}
  BY <1>1, EmptyGood
<1>3. DOMAIN b.orders = {}
  BY <1>2 DEF GoodBook, Indexed
<1>4. GoodBook(Load(b, items)) /\ Resting(Load(b, items)) = Resting(b) \cup {x \in Range(items) : isBookable(x)}
  BY <1>2, <1>3, LoadGood
<1> QED  BY <1>1, <1>2, <1>4 DEF RestoreMarketBook

-----------------------------------------------------------------------------
(* The orders of a book as a list.                                         *)

concatStep(c, x, y) == x \o y

Concats == INSTANCE FoldLemmas WITH step <- concatStep, Good <- noClaim

IsFlat(g, seqs, n) == g = [i \in 1..n |-> IF i = 1 THEN seqs[i] ELSE g[i - 1] \o seqs[i]]

\* A list of length 0.
LEMMA NoElements ==
    ASSUME NEW S, NEW s \in Seq(S), Len(s) = 0
    PROVE  s = <<>>
OBVIOUS

\* f has the lists that are put together one by one.
Joins(f, seqs, n) ==
    /\ f[0] = <<>>
    /\ \A i \in 1..n : f[i] = f[i - 1] \o seqs[i]
    /\ FlattenSeq(seqs) = f[n]

\* FlattenSeq puts one list behind the other.
LEMMA FlattenSteps ==
    ASSUME NEW S, NEW seqs \in Seq(Seq(S)), NEW n, n = Len(seqs)
    PROVE  \E f : Joins(f, seqs, n)
<1>1. n \in Nat /\ DOMAIN seqs = 1..n
  OBVIOUS
<1>2. CASE n = 0
  <2>1. seqs = <<>>
    BY <1>2, NoElements
  <2>3. Len(seqs) = 0
    BY <1>2
  <2>4. FlattenSeq(seqs) = seqs
    BY <2>3, Zenon DEF FlattenSeq
  <2>2. PICK f : f = [i \in {0} |-> <<>>]
    OBVIOUS
  <2>5. f[0] = <<>>
    BY <2>2
  <2>6. \A i \in 1..n : f[i] = f[i - 1] \o seqs[i]
    BY <1>2
  <2>7. FlattenSeq(seqs) = f[n]
    BY <1>2, <2>1, <2>4, <2>5
  <2> QED  BY <2>5, <2>6, <2>7 DEF Joins
<1>3. CASE n # 0
  <2>1. PICK acc : Concats!AreValues(acc, 0, <<>>, seqs, n)
    BY <1>1, Concats!FoldLeftSteps
  <2>2. acc[0] = <<>> /\ \A i \in 1..n : acc[i] = acc[i - 1] \o seqs[i]
    BY <2>1 DEF Concats!AreValues, concatStep
  <2>3. PICK h : h = [i \in 1..n |-> acc[i]]
    OBVIOUS
  <2>4. 1 \in 1..n /\ seqs[1] \in Seq(S)
    BY <1>1, <1>3
  <2>5. acc[1] = seqs[1]
    <3>1. acc[1] = acc[1 - 1] \o seqs[1]
      BY <2>2, <2>4, Zenon
    <3>2. 1 - 1 = 0
      OBVIOUS
    <3>3. acc[1] = <<>> \o seqs[1]
      BY <2>2, <3>1, <3>2
    <3> QED  BY <2>4, <3>3
  <2>6. ASSUME NEW i \in 1..n PROVE h[i] = IF i = 1 THEN seqs[i] ELSE h[i - 1] \o seqs[i]
    <3>1. CASE i = 1
      BY <2>3, <2>5, <3>1
    <3>2. CASE i # 1
      <4>1. i - 1 \in 1..n
        BY <3>2
      <4> QED  BY <2>2, <2>3, <3>2, <4>1
    <3> QED  BY <3>1, <3>2
  <2>7. IsFlat(h, seqs, n)
    <3>1. h = [i \in 1..n |-> IF i = 1 THEN seqs[i] ELSE h[i - 1] \o seqs[i]]
      BY <2>3, <2>6
    <3> QED  BY <3>1 DEF IsFlat
  <2> DEFINE g == CHOOSE x : IsFlat(x, seqs, n)
  <2>8. IsFlat(g, seqs, n)
    BY <2>7
  <2>9. FlattenSeq(seqs) = g[n]
    BY <1>3 DEF FlattenSeq, IsFlat
  <2> HIDE DEF g
  <2>10. \A i \in 1..n : g[i] = IF i = 1 THEN seqs[i] ELSE g[i - 1] \o seqs[i]
    BY <2>8 DEF IsFlat
  <2>11. PICK f : f = [i \in 0..n |-> IF i = 0 THEN <<>> ELSE g[i]]
    OBVIOUS
  <2>12. ASSUME NEW i \in 1..n PROVE f[i] = f[i - 1] \o seqs[i]
    <3>1. i \in 0..n /\ i # 0 /\ i - 1 \in 0..n /\ f[i] = g[i]
      BY <1>1, <2>11
    <3>2. CASE i = 1
      <4>1. f[0] = <<>>
        BY <1>1, <2>11
      <4>2. i - 1 = 0
        BY <3>2
      <4>3. f[i - 1] = <<>>
        BY <4>1, <4>2, Zenon
      <4>4. <<>> \o seqs[i] = seqs[i]
        BY <2>4, <3>2
      <4> QED  BY <2>10, <3>1, <3>2, <4>3, <4>4
    <3>3. CASE i # 1
      <4>1. i - 1 # 0 /\ f[i - 1] = g[i - 1]
        BY <2>11, <3>1, <3>3
      <4> QED  BY <2>10, <3>1, <3>3, <4>1
    <3> QED  BY <3>2, <3>3
  <2>13. f[0] = <<>> /\ f[n] = g[n]
    BY <1>1, <1>3, <2>11
  <2> QED  BY <2>9, <2>12, <2>13 DEF Joins
<1> QED  BY <1>2, <1>3

\* Two lists without an id in common, one behind the other.
LEMMA ConcatDistinct ==
    ASSUME NEW p, Distinct(p), NEW q, Distinct(q),
           \A x \in Range(p), y \in Range(q) : x.id # y.id
    PROVE  Distinct(p \o q) /\ Range(p \o q) = Range(p) \cup Range(q)
<1>1. /\ p \in Seq(AnyOrder) /\ q \in Seq(AnyOrder)
      /\ DOMAIN p = 1..Len(p) /\ DOMAIN q = 1..Len(q)
  BY DEF Distinct
<1>2. Len(p) \in Nat /\ Len(q) \in Nat
  BY <1>1
<1>10. PICK k \in Nat : k = Len(p)
  BY <1>2
<1>11. PICK l \in Nat : l = Len(q)
  BY <1>2
<1>3. PICK c : c = p \o q
  OBVIOUS
<1>4. /\ c \in Seq(AnyOrder) /\ Len(c) = k + l
      /\ \A i \in 1..k : c[i] = p[i]
      /\ \A i \in (k + 1)..(k + l) : c[i] = q[i - k]
  BY <1>1, <1>10, <1>11, <1>3
<1>5. DOMAIN c = 1..(k + l)
  BY <1>4
<1>6. \A i \in 1..(k + l) : \/ i \in 1..k /\ c[i] = p[i] /\ c[i] \in Range(p)
                            \/ /\ i \in (k + 1)..(k + l) /\ i - k \in 1..l
                               /\ c[i] = q[i - k] /\ c[i] \in Range(q)
  <2>1. ASSUME NEW i \in 1..(k + l), i <= k PROVE i \in 1..k /\ c[i] = p[i] /\ c[i] \in Range(p)
    <3>1. i \in 1..k
      BY <2>1
    <3> QED  BY <1>1, <1>10, <1>11, <1>4, <3>1 DEF Range
  <2>2. ASSUME NEW i \in 1..(k + l), i > k
        PROVE  i \in (k + 1)..(k + l) /\ i - k \in 1..l /\ c[i] = q[i - k] /\ c[i] \in Range(q)
    <3>1. i \in (k + 1)..(k + l) /\ i - k \in 1..l
      BY <2>2
    <3> QED  BY <1>1, <1>10, <1>11, <1>4, <3>1 DEF Range
  <2> QED  BY <2>1, <2>2
<1>7. ASSUME NEW i \in 1..(k + l), NEW j \in 1..(k + l), c[i].id = c[j].id PROVE i = j
  <2>1. CASE i \in 1..k /\ j \in 1..k
    BY <1>10, <1>11, <1>4, <1>7, <2>1 DEF Distinct
  <2>2. CASE i \in (k + 1)..(k + l) /\ j \in (k + 1)..(k + l)
    <3>1. i - k \in 1..l /\ j - k \in 1..l /\ q[i - k].id = q[j - k].id
      BY <1>4, <1>7, <2>2
    <3>2. i - k = j - k
      BY <1>10, <1>11, <3>1 DEF Distinct
    <3> QED  BY <1>10, <1>11, <3>2
  <2>3. CASE i \in 1..k /\ j \in (k + 1)..(k + l)
    <3>1. c[i] \in Range(p) /\ c[j] \in Range(q)
      BY <1>6, <2>3
    <3> QED  BY <1>7, <3>1
  <2>4. CASE j \in 1..k /\ i \in (k + 1)..(k + l)
    <3>1. c[j] \in Range(p) /\ c[i] \in Range(q)
      BY <1>6, <2>4
    <3> QED  BY <1>7, <3>1
  <2> QED  BY <1>6, <2>1, <2>2, <2>3, <2>4
<1>8. Range(c) = Range(p) \cup Range(q)
  <2>1. Range(c) \subseteq Range(p) \cup Range(q)
    BY <1>5, <1>6 DEF Range
  <2>2. ASSUME NEW i \in 1..k PROVE p[i] \in Range(c)
    <3>1. i \in 1..(k + l)
      BY <1>10, <1>11
    <3> QED  BY <1>4, <1>5, <3>1 DEF Range
  <2>3. ASSUME NEW i \in 1..l PROVE q[i] \in Range(c)
    <3>1. k + i \in (k + 1)..(k + l) /\ (k + i) - k = i /\ k + i \in 1..(k + l)
      BY <1>10, <1>11
    <3>2. c[k + i] = q[i]
      BY <1>4, <3>1
    <3> QED  BY <1>5, <3>1, <3>2 DEF Range
  <2>4. Range(p) \subseteq Range(c)
    BY <1>1, <1>10, <2>2 DEF Range
  <2>5. Range(q) \subseteq Range(c)
    BY <1>1, <1>11, <2>3 DEF Range
  <2> QED  BY <2>1, <2>4, <2>5
<1>9. Distinct(c)
  BY <1>4, <1>7 DEF Distinct
<1> QED  BY <1>3, <1>8, <1>9

\* A list behind another, when what is in the first comes first.
LEMMA ConcatSorted ==
    ASSUME NEW S, NEW R, NEW p \in Seq(S), NEW q \in Seq(S), Sorted(R, p), Sorted(R, q),
           \A x \in Range(p), y \in Range(q) : <<x, y>> \in R
    PROVE  Sorted(R, p \o q)
<1>1. PICK k \in Nat : k = Len(p) /\ DOMAIN p = 1..k
  OBVIOUS
<1>2. PICK m \in Nat : m = Len(q) /\ DOMAIN q = 1..m
  OBVIOUS
<1>3. PICK c : c = p \o q
  OBVIOUS
<1>4. /\ Len(c) = k + m
      /\ \A i \in 1..k : c[i] = p[i]
      /\ \A i \in (k + 1)..(k + m) : c[i] = q[i - k]
  BY <1>1, <1>2, <1>3
<1>5. ASSUME NEW i \in 1..(k + m), NEW j \in 1..(k + m), i < j PROVE <<c[i], c[j]>> \in R
  <2>1. CASE j <= k
    <3>1. i \in 1..k /\ j \in 1..k
      BY <1>5, <2>1
    <3> QED  BY <1>1, <1>4, <1>5, <3>1 DEF Sorted
  <2>2. CASE i <= k /\ j > k
    <3>1. i \in 1..k /\ j \in (k + 1)..(k + m) /\ j - k \in 1..m
      BY <2>2
    <3>2. c[i] \in Range(p) /\ c[j] \in Range(q)
      BY <1>1, <1>2, <1>4, <3>1 DEF Range
    <3> QED  BY <3>2
  <2>3. CASE i > k
    <3>1. /\ i \in (k + 1)..(k + m) /\ j \in (k + 1)..(k + m)
          /\ i - k \in 1..m /\ j - k \in 1..m /\ i - k < j - k
      BY <1>5, <2>3
    <3>2. <<q[i - k], q[j - k]>> \in R
      BY <1>2, <3>1 DEF Sorted
    <3> QED  BY <1>4, <3>1, <3>2
  <2> QED  BY <2>1, <2>2, <2>3
<1> QED  BY <1>3, <1>4, <1>5 DEF Sorted

\* Price-time priority.
PriorityOrder == {x \in AnyOrder \X AnyOrder : ahead(x[1], x[2])}

\* The orders of a side, level by level, which is in price-time priority.
LEMMA SideListed ==
    ASSUME NEW sd, NEW s, GoodSide(s, sd),
           \A x, y \in Entries(s) : x.id = y.id => x = y
    PROVE  /\ Distinct(levelsInOrder(s)) /\ Range(levelsInOrder(s)) = Entries(s)
           /\ Sorted(PriorityOrder, levelsInOrder(s))
<1>1. PICK n \in Nat : n = Len(s.prices)
  BY DEF GoodSide, SideShape
<1>2. DOMAIN s.prices = 1..n /\ \A i \in 1..n : s.prices[i] \in DOMAIN s.levels
  BY <1>1 DEF GoodSide, SideShape, Range
<1>3. PICK seqs : seqs = [i \in 1..n |-> s.levels[s.prices[i]]]
  OBVIOUS
<1>4. \A i \in 1..n : GoodQueue(seqs[i], sd, s.prices[i])
  BY <1>2, <1>3 DEF GoodSide
<1>5. \A i \in 1..n : seqs[i] \in Seq(AnyOrder)
  BY <1>4 DEF GoodQueue
<1>6. seqs \in Seq(Seq(AnyOrder)) /\ n = Len(seqs)
  BY <1>3, <1>5
<1>15. PICK f : Joins(f, seqs, n)
  BY <1>6, FlattenSteps
<1>7. /\ f[0] = <<>>
      /\ \A i \in 1..n : f[i] = f[i - 1] \o seqs[i]
      /\ FlattenSeq(seqs) = f[n]
  BY <1>15 DEF Joins
<1>8. levelsInOrder(s) = f[n]
  BY <1>1, <1>3, <1>7 DEF levelsInOrder
<1>9. ASSUME NEW i \in 1..n PROVE Distinct(seqs[i]) /\ Range(seqs[i]) = Range(s.levels[s.prices[i]])
  <2>1. PICK q : q = seqs[i]
    OBVIOUS
  <2>2. GoodQueue(q, sd, s.prices[i]) /\ q \in Seq(AnyOrder)
    BY <1>4, <1>5, <2>1
  <2>3. \A k, l \in 1..Len(q) : q[k].id = q[l].id => k = l
    BY <2>2, QueueIsInjective
  <2>4. Distinct(q)
    BY <2>2, <2>3 DEF Distinct
  <2> QED  BY <1>3, <2>1, <2>4
<1>10. ASSUME NEW i \in 1..n, NEW x \in Range(seqs[i]) PROVE x \in Entries(s) /\ x.price = s.prices[i]
  <2>1. x \in Entries(s)
    BY <1>2, <1>9 DEF Entries
  <2>2. PICK q : q = seqs[i]
    OBVIOUS
  <2>3. GoodQueue(q, sd, s.prices[i])
    BY <1>4, <2>2
  <2>4. PICK k \in 1..Len(q) : x = q[k]
    BY <1>5, <2>2 DEF Range
  <2>5. x.price = s.prices[i]
    BY <2>3, <2>4 DEF GoodQueue, rests
  <2> QED  BY <2>1, <2>5
<1> DEFINE upTo(i) == UNION {Range(seqs[j]) : j \in 1..i}
           K == {i \in 0..n : /\ Distinct(f[i]) /\ Range(f[i]) = upTo(i)
                              /\ Sorted(PriorityOrder, f[i])}
<1>16. ASSUME NEW x \in Entries(s) PROVE x \in AnyOrder /\ x.side = sd
  BY EntryRests DEF rests
<1>17. ASSUME NEW i \in 1..n PROVE Sorted(PriorityOrder, seqs[i])
  <2>1. PICK q : q = seqs[i]
    OBVIOUS
  <2>2. GoodQueue(q, sd, s.prices[i])
    BY <1>4, <2>1
  <2>3. ASSUME NEW k \in 1..Len(q), NEW l \in 1..Len(q), k < l PROVE <<q[k], q[l]>> \in PriorityOrder
    <3>1. /\ q[k] \in AnyOrder /\ q[l] \in AnyOrder
          /\ q[k].price = q[l].price
      BY <2>2 DEF GoodQueue, rests
    <3>2. <<q[k], q[l]>> \in IdOrder
      BY <2>2, <2>3 DEF GoodQueue, Sorted
    <3>3. ahead(q[k], q[l])
      BY <3>1, <3>2, IdOrderIs DEF ahead
    <3> QED  BY <3>1, <3>3 DEF PriorityOrder
  <2> QED  BY <2>1, <2>3 DEF Sorted
<1>11. 0 \in K
  <2>1. Distinct(<<>>) /\ Range(<<>>) = {} /\ Sorted(PriorityOrder, <<>>)
    BY DEF Distinct, Range, Sorted
  <2>2. upTo(0) = {}
    OBVIOUS
  <2> QED  BY <1>7, <2>1, <2>2
<1>12. ASSUME NEW i \in 1..n, i - 1 \in K PROVE i \in K
  <2>1. PICK k \in Nat : k = i - 1 /\ i = k + 1 /\ k \in 0..n /\ i \in 0..n
    OBVIOUS
  <2>2. PICK p : p = f[k]
    OBVIOUS
  <2>3. PICK q : q = seqs[i]
    OBVIOUS
  <2>4. f[i] = p \o q
    BY <1>7, <2>1, <2>2, <2>3
  <2>5. Distinct(p) /\ Range(p) = upTo(k) /\ Sorted(PriorityOrder, p)
    BY <1>12, <2>1, <2>2
  <2>6. Distinct(q)
    BY <1>9, <2>3
  <2>7. ASSUME NEW x \in Range(p), NEW y \in Range(q), x.id = y.id PROVE FALSE
    <3>1. PICK j \in 1..k : x \in Range(seqs[j])
      BY <2>5
    <3>2. j \in 1..n /\ j # i
      BY <2>1
    <3>3. x \in Entries(s) /\ x.price = s.prices[j]
      BY <1>10, <3>1, <3>2
    <3>4. y \in Entries(s) /\ y.price = s.prices[i]
      BY <1>10, <2>3
    <3>5. s.prices[i] = s.prices[j]
      BY <2>7, <3>3, <3>4
    <3> QED  BY <1>1, <3>2, <3>5, PricesAreInjective
  <2>8. Distinct(p \o q) /\ Range(p \o q) = Range(p) \cup Range(q)
    BY <2>5, <2>6, <2>7, ConcatDistinct
  <2>9. upTo(i) = upTo(k) \cup Range(q)
    BY <2>1, <2>3
  <2>10. ASSUME NEW x \in Range(p), NEW y \in Range(q) PROVE <<x, y>> \in PriorityOrder
    <3>1. PICK j \in 1..k : x \in Range(seqs[j])
      BY <2>5
    <3>2. j \in 1..n /\ j < i
      BY <2>1
    <3>3. x \in Entries(s) /\ x.price = s.prices[j]
      BY <1>10, <3>1, <3>2
    <3>4. y \in Entries(s) /\ y.price = s.prices[i]
      BY <1>10, <2>3
    <3>5. <<x.price, y.price>> \in PriceOrder(sd)
      BY <1>1, <3>2, <3>3, <3>4 DEF GoodSide, Sorted
    <3>6. /\ x.price \in Nat /\ y.price \in Nat
          /\ IF sd = "buy" THEN x.price > y.price ELSE x.price < y.price
      BY <3>5, PriceOrderIs
    <3>7. x \in AnyOrder /\ y \in AnyOrder /\ x.side = sd /\ sd \in Sides
      BY <1>16, <3>3, <3>4, OrderTyped
    <3>8. ahead(x, y)
      BY <3>6, <3>7 DEF ahead, Sides
    <3> QED  BY <3>7, <3>8 DEF PriorityOrder
  <2>11. Sorted(PriorityOrder, p \o q)
    BY <1>17, <2>3, <2>5, <2>6, <2>10, ConcatSorted DEF Distinct
  <2> QED  BY <2>1, <2>4, <2>5, <2>8, <2>9, <2>11
<1>13. n \in K
  <2> HIDE DEF K
  <2> QED  BY <1>11, <1>12, Loads!CountTo
<1>14. upTo(n) = Entries(s)
  <2>1. upTo(n) \subseteq Entries(s)
    BY <1>10
  <2>2. ASSUME NEW p \in DOMAIN s.levels PROVE Range(s.levels[p]) \subseteq upTo(n)
    <3>1. PICK i \in 1..n : p = s.prices[i]
      BY <1>2 DEF GoodSide, Range
    <3> QED  BY <1>3, <3>1
  <2> HIDE DEF upTo
  <2>3. Entries(s) \subseteq upTo(n)
    BY <2>2 DEF Entries
  <2> QED  BY <2>1, <2>3
<1> QED  BY <1>8, <1>13, <1>14

\* CaptureState lists the orders of the book.
LEMMA CaptureListed ==
    ASSUME NEW b, GoodBook(b)
    PROVE  Distinct(CaptureState(b)) /\ Range(CaptureState(b)) = Resting(b)
<1>1. PICK p : p = levelsInOrder(b.side["buy"])
  OBVIOUS
<1>2. PICK q : q = levelsInOrder(b.side["sell"])
  OBVIOUS
<1>3. GoodSide(b.side["buy"], "buy") /\ GoodSide(b.side["sell"], "sell")
  BY DEF GoodBook, Sides
<1>4. \A x, y \in Resting(b) : x.id = y.id => x = y
  BY IdsAreUnique
<1>5. Entries(b.side["buy"]) \subseteq Resting(b) /\ Entries(b.side["sell"]) \subseteq Resting(b)
  BY DEF Resting
<1>6. Distinct(p) /\ Range(p) = Entries(b.side["buy"])
  BY <1>1, <1>3, <1>4, <1>5, SideListed
<1>7. Distinct(q) /\ Range(q) = Entries(b.side["sell"])
  BY <1>2, <1>3, <1>4, <1>5, SideListed
<1>8. ASSUME NEW x \in Range(p), NEW y \in Range(q) PROVE x.id # y.id
  <2>1. x.side = "buy"
    BY <1>3, <1>6, EntryRests DEF rests
  <2>2. y.side = "sell"
    BY <1>3, <1>7, EntryRests DEF rests
  <2>3. x # y
    BY <2>1, <2>2
  <2> QED  BY <1>4, <1>5, <1>6, <1>7, <2>3
<1>9. Distinct(p \o q) /\ Range(p \o q) = Range(p) \cup Range(q)
  BY <1>6, <1>7, <1>8, ConcatDistinct
<1> QED  BY <1>1, <1>2, <1>6, <1>7, <1>9 DEF CaptureState, Resting

\* A copy of the book, restored, has the orders of the book.
LEMMA CopyGood ==
    ASSUME NEW b, GoodBook(b)
    PROVE  /\ GoodBook(RestoreMarketBook(CaptureState(b)))
           /\ Resting(RestoreMarketBook(CaptureState(b))) = Resting(b)
<1>1. PICK items : items = CaptureState(b)
  OBVIOUS
<1>2. Distinct(items) /\ Range(items) = Resting(b)
  BY <1>1, CaptureListed
<1>3. \A x \in Resting(b) : isBookable(x)
  BY RestingRests DEF rests
<1>4. /\ GoodBook(RestoreMarketBook(items))
      /\ Resting(RestoreMarketBook(items)) = {x \in Range(items) : isBookable(x)}
  BY <1>2, RestoreGood
<1> QED  BY <1>1, <1>2, <1>3, <1>4

-----------------------------------------------------------------------------
(* What is checked of a well-formed book.                                  *)

\* A queue has at most as many orders as there are ids.
LEMMA QueueBounded ==
    ASSUME NEW sd, NEW p, NEW q, GoodQueue(q, sd, p)
    PROVE  Len(q) <= MaxOrders
<1>1. PICK n \in Nat : n = Len(q)
  BY DEF GoodQueue
<1>2. \A i \in 1..n : q[i] \in AnyOrder
  BY <1>1 DEF GoodQueue
<1>3. \A i \in 1..n : q[i].id \in Nat /\ q[i].id >= 1 /\ q[i].id <= MaxOrders
  <2>1. ASSUME NEW i \in 1..n PROVE q[i].id \in Nat /\ q[i].id >= 1 /\ q[i].id <= MaxOrders
    <3>1. q[i].id \in OrderIds
      BY <1>2, OrderTyped
    <3> QED  BY <3>1, LedgerAssumption DEF OrderIds
  <2> QED  BY <2>1
<1>4. ASSUME NEW i \in 1..n, NEW j \in 1..n, i < j PROVE q[i].id < q[j].id
  <2>1. <<q[i], q[j]>> \in IdOrder
    BY <1>1, <1>4 DEF GoodQueue, Sorted
  <2> QED  BY <2>1, IdOrderIs
<1> DEFINE K == {i \in 0..n : i > 0 => q[i].id >= i}
<1>5. 0 \in K
  BY <1>1
<1>6. ASSUME NEW i \in 1..n, i - 1 \in K PROVE i \in K
  <2>1. CASE i = 1
    BY <1>3, <2>1
  <2>2. CASE i # 1
    <3>1. PICK k \in 1..n : k = i - 1 /\ k < i /\ k > 0
      BY <2>2
    <3>2. q[k].id >= k /\ q[k].id < q[i].id
      BY <1>4, <1>6, <3>1
    <3>3. q[k].id \in Nat /\ q[i].id \in Nat
      BY <1>3
    <3>4. q[i].id >= i
      BY <3>1, <3>2, <3>3
    <3> QED  BY <3>4
  <2> QED  BY <2>1, <2>2
<1>7. n \in K
  <2> HIDE DEF K
  <2> QED  BY <1>5, <1>6, Loads!CountTo
<1>8. CASE n = 0
  BY <1>1, <1>8, LedgerAssumption
<1>9. CASE n # 0
  <2>1. n \in 1..n /\ q[n].id >= n
    BY <1>7, <1>9
  <2>2. q[n].id \in Nat /\ q[n].id <= MaxOrders
    BY <1>3, <2>1
  <2> QED  BY <1>1, <2>1, <2>2, LedgerAssumption
<1> QED  BY <1>8, <1>9

\* What is queued on a side are its orders.
LEMMA QueuedOnSide ==
    ASSUME NEW sd, NEW s, GoodSide(s, sd)
    PROVE  /\ \A p, i : <<p, i>> \in queued(s) <=> p \in DOMAIN s.levels /\ i \in 1..Len(s.levels[p])
           /\ inSide(s) = Entries(s)
<1>1. ASSUME NEW p \in DOMAIN s.levels
      PROVE  /\ GoodQueue(s.levels[p], sd, p) /\ Len(s.levels[p]) \in Nat
             /\ Len(s.levels[p]) <= MaxOrders
             /\ DOMAIN s.levels[p] = 1..Len(s.levels[p])
  <2>1. PICK q : q = s.levels[p]
    OBVIOUS
  <2>2. GoodQueue(q, sd, p)
    BY <2>1 DEF GoodSide
  <2>3. Len(q) <= MaxOrders
    BY <2>2, QueueBounded
  <2> QED  BY <2>1, <2>2, <2>3 DEF GoodQueue
<1>2. ASSUME NEW p, NEW i
      PROVE  <<p, i>> \in queued(s) <=> p \in DOMAIN s.levels /\ i \in 1..Len(s.levels[p])
  <2>1. <<p, i>> \in queued(s) <=> p \in DOMAIN s.levels /\ i \in OrderIds /\ i <= Len(s.levels[p])
    BY DEF queued
  <2>2. p \in DOMAIN s.levels => (i \in OrderIds /\ i <= Len(s.levels[p]) <=> i \in 1..Len(s.levels[p]))
    BY <1>1, LedgerAssumption DEF OrderIds
  <2> QED  BY <2>1, <2>2
<1>3. ASSUME NEW x \in queued(s)
      PROVE  x = <<x[1], x[2]>> /\ x[1] \in DOMAIN s.levels /\ x[2] \in 1..Len(s.levels[x[1]])
  <2>1. x \in (DOMAIN s.levels) \X OrderIds
    BY DEF queued
  <2>2. x = <<x[1], x[2]>>
    BY <2>1
  <2> QED  BY <1>2, <2>2
<1>4. inSide(s) \subseteq Entries(s)
  <2>1. ASSUME NEW x \in queued(s) PROVE s.levels[x[1]][x[2]] \in Entries(s)
    <3>1. s.levels[x[1]][x[2]] \in Range(s.levels[x[1]])
      BY <1>1, <1>3 DEF Range
    <3> QED  BY <1>3, <3>1 DEF Entries
  <2> QED  BY <2>1 DEF inSide
<1>5. ASSUME NEW o \in Entries(s) PROVE o \in inSide(s)
  <2>1. PICK p \in DOMAIN s.levels : o \in Range(s.levels[p])
    BY DEF Entries
  <2>2. PICK i \in 1..Len(s.levels[p]) : o = s.levels[p][i]
    BY <1>1, <2>1 DEF Range
  <2>3. PICK x : x = <<p, i>>
    OBVIOUS
  <2>4. x \in queued(s) /\ x[1] = p /\ x[2] = i
    BY <1>2, <2>3
  <2> QED  BY <2>2, <2>4 DEF inSide
<1> QED  BY <1>2, <1>4, <1>5

\* The list of prices has each price once.
LEMMA PricesCounted ==
    ASSUME NEW sd, NEW s, GoodSide(s, sd)
    PROVE  sameSet(s.prices, DOMAIN s.levels)
<1>1. PICK n \in Nat : n = Len(s.prices)
  BY DEF GoodSide, SideShape
<1>2. DOMAIN s.prices = 1..n /\ {s.prices[i] : i \in 1..n} = DOMAIN s.levels
  BY <1>1 DEF GoodSide, SideShape, Range
<1>3. PICK f : f = s.prices
  OBVIOUS
<1>4. f \in [1..n -> DOMAIN s.levels]
  <2>1. f \in Seq(Prices) /\ DOMAIN f = 1..n
    BY <1>2, <1>3 DEF GoodSide, SideShape
  <2>2. f = [i \in 1..n |-> f[i]]
    BY <1>1, <1>3, <2>1
  <2>3. \A i \in 1..n : f[i] \in DOMAIN s.levels
    BY <1>2, <1>3
  <2> QED  BY <2>2, <2>3
<1>5. \A i, j \in 1..n : f[i] = f[j] => i = j
  BY <1>1, <1>3, PricesAreInjective
<1>6. \A p \in DOMAIN s.levels : \E i \in 1..n : f[i] = p
  BY <1>2, <1>3
<1>7. f \in Bijection(1..n, DOMAIN s.levels)
  BY <1>4, <1>5, <1>6 DEF Bijection, Injection, Surjection, IsInjective
<1>8. Cardinality(DOMAIN s.levels) = n
  BY <1>7, FS_CountingElements DEF ExistsBijection
<1> QED  BY <1>1, <1>2, <1>8 DEF sameSet

\* A well-formed book in which no bid reaches an ask is consistent.
LEMMA GoodIsConsistent ==
    ASSUME GoodBook(book), Uncrossed(book)
    PROVE  BookConsistent
<1>1. ASSUME NEW sd \in Sides
      PROVE  GoodSide(book.side[sd], sd) /\ inSide(book.side[sd]) = Entries(book.side[sd])
  <2>1. GoodSide(book.side[sd], sd)
    BY DEF GoodBook
  <2> QED  BY <2>1, QueuedOnSide
<1>2. ASSUME NEW sd \in Sides
      PROVE  /\ sameSet(book.side[sd].prices, DOMAIN book.side[sd].levels)
             /\ \A i, j \in 1..Len(book.side[sd].prices) : i < j =>
                   IF sd = "buy" THEN book.side[sd].prices[i] > book.side[sd].prices[j]
                                 ELSE book.side[sd].prices[i] < book.side[sd].prices[j]
  <2>1. PICK s : s = book.side[sd]
    OBVIOUS
  <2>2. GoodSide(s, sd)
    BY <1>1, <2>1
  <2>3. sameSet(s.prices, DOMAIN s.levels)
    BY <2>2, PricesCounted
  <2>4. ASSUME NEW i \in 1..Len(s.prices), NEW j \in 1..Len(s.prices), i < j
        PROVE  IF sd = "buy" THEN s.prices[i] > s.prices[j] ELSE s.prices[i] < s.prices[j]
    <3>1. <<s.prices[i], s.prices[j]>> \in PriceOrder(sd)
      BY <2>2, <2>4 DEF GoodSide, Sorted
    <3> QED  BY <3>1, PriceOrderIs
  <2> QED  BY <2>1, <2>3, <2>4
<1>3. ASSUME NEW sd \in Sides, NEW x \in queued(book.side[sd])
      PROVE  LET o == book.side[sd].levels[x[1]][x[2]]
             IN  /\ o.price = x[1] /\ o.side = sd /\ isBookable(o)
                 /\ x[2] > 1 => book.side[sd].levels[x[1]][x[2] - 1].id < o.id
  <2>1. PICK s : s = book.side[sd]
    OBVIOUS
  <2>2. GoodSide(s, sd)
    BY <1>1, <2>1
  <2>3. PICK p, i : p = x[1] /\ i = x[2]
    OBVIOUS
  <2>4. x = <<p, i>>
    BY <2>3 DEF queued
  <2>5. p \in DOMAIN s.levels /\ i \in 1..Len(s.levels[p])
    BY <2>1, <2>2, <2>4, QueuedOnSide
  <2>6. PICK q : q = s.levels[p]
    OBVIOUS
  <2>7. GoodQueue(q, sd, p) /\ i \in 1..Len(q)
    BY <2>2, <2>5, <2>6 DEF GoodSide
  <2>8. q[i].price = p /\ q[i].side = sd /\ isBookable(q[i])
    BY <2>7 DEF GoodQueue, rests
  <2>9. ASSUME i > 1 PROVE q[i - 1].id < q[i].id
    <3>1. PICK k \in 1..Len(q) : k = i - 1 /\ k < i
      BY <2>7, <2>9
    <3>2. <<q[k], q[i]>> \in IdOrder
      BY <2>7, <3>1 DEF GoodQueue, Sorted
    <3> QED  BY <3>1, <3>2, IdOrderIs
  <2> QED  BY <2>1, <2>3, <2>6, <2>8, <2>9
<1>4. inSide(book.side["buy"]) \cup inSide(book.side["sell"]) = Resting(book)
  BY <1>1 DEF Resting, Sides
<1>5. DOMAIN book.orders = {o.id : o \in inSide(book.side["buy"]) \cup inSide(book.side["sell"])}
  BY <1>4 DEF GoodBook, Indexed
<1>6. ASSUME NEW sd \in Sides, NEW o \in inSide(book.side[sd])
      PROVE  book.orders[o.id] = [side |-> sd, price |-> o.price] /\ o.side = sd /\ o \in Resting(book)
  <2>1. o \in Entries(book.side[sd])
    BY <1>1
  <2>2. o \in Resting(book)
    BY <2>1 DEF Resting, Sides
  <2>3. o.side = sd
    BY <1>1, <2>1, EntryRests DEF rests
  <2> QED  BY <2>2, <2>3, RestingRests
<1>7. StructuresAgree
  <2>1. book.ok
    BY DEF GoodBook
  <2>2. \A sd \in Sides : \A x \in queued(book.side[sd]) :
           LET o == book.side[sd].levels[x[1]][x[2]]
           IN  /\ o.price = x[1] /\ o.side = sd /\ isBookable(o)
               /\ x[2] > 1 => book.side[sd].levels[x[1]][x[2] - 1].id < o.id
    BY <1>3
  <2>3. \A sd \in Sides : \A o \in inSide(book.side[sd]) :
           book.orders[o.id] = [side |-> sd, price |-> o.price]
    BY <1>6
  <2> QED  BY <1>2, <1>5, <2>1, <2>2, <2>3 DEF StructuresAgree
<1>8. BookNeverCrossed
  <2>1. ASSUME NEW x \in inSide(book.side["buy"]), NEW y \in inSide(book.side["sell"])
        PROVE  x.price < y.price
    <3>1. x \in Resting(book) /\ x.side = "buy" /\ y \in Resting(book) /\ y.side = "sell"
      BY <1>6 DEF Sides
    <3> QED  BY <3>1 DEF Uncrossed
  <2> QED  BY <2>1 DEF BookNeverCrossed
<1> QED  BY <1>7, <1>8 DEF BookConsistent

-----------------------------------------------------------------------------
(* The orders of a book determine the book.                                *)

\* Two lists in the same strict order with the same elements are the same.
LEMMA SortedUnique ==
    ASSUME NEW S, NEW R, NEW s \in Seq(S), NEW t \in Seq(S), Sorted(R, s), Sorted(R, t),
           Range(s) = Range(t), \A x, y \in S : <<x, y>> \in R => <<y, x>> \notin R
    PROVE  s = t
<1>1. PICK m \in Nat : m = Len(s) /\ DOMAIN s = 1..m
  OBVIOUS
<1>2. PICK n \in Nat : n = Len(t) /\ DOMAIN t = 1..n
  OBVIOUS
<1>3. \A i \in 1..m : s[i] \in S
  BY <1>1
<1>4. \A i \in 1..n : t[i] \in S
  BY <1>2
<1>5. \A i, j \in 1..m : i < j => <<s[i], s[j]>> \in R
  BY <1>1 DEF Sorted
<1>6. \A i, j \in 1..n : i < j => <<t[i], t[j]>> \in R
  BY <1>2 DEF Sorted
<1>7. \A i \in 1..m : \E j \in 1..n : s[i] = t[j]
  BY <1>1, <1>2 DEF Range
<1>8. \A j \in 1..n : \E i \in 1..m : s[i] = t[j]
  BY <1>1, <1>2 DEF Range
<1> DEFINE B == {i \in 1..m : i \notin 1..n \/ s[i] # t[i]}
<1>9. B = {}
  <2> SUFFICES ASSUME B # {} PROVE FALSE
    OBVIOUS
  <2>1. B \in SUBSET Nat
    OBVIOUS
  <2>2. PICK i \in B : \A k \in B : i <= k
    <3> HIDE DEF B
    <3> QED  BY <2>1, Loads!LeastNumber
  <2>3. i \in 1..m /\ \A k \in 1..m : k < i => k \in 1..n /\ s[k] = t[k]
    BY <2>2
  <2>4. PICK j \in 1..n : s[i] = t[j]
    BY <1>7, <2>3
  <2>5. ~(j < i)
    <3>1. ASSUME j < i PROVE FALSE
      <4>1. j \in 1..m /\ s[j] = t[j]
        BY <2>3, <3>1
      <4>2. <<s[j], s[i]>> \in R
        BY <1>5, <2>3, <3>1, <4>1
      <4>3. <<s[i], s[i]>> \in R /\ s[i] \in S
        BY <1>3, <2>3, <2>4, <4>1, <4>2
      <4> QED  BY <4>3
    <3> QED  BY <3>1
  <2>6. i \in 1..n
    BY <1>1, <1>2, <2>3, <2>4, <2>5
  <2>7. s[i] # t[i] /\ i < j
    BY <2>2, <2>4, <2>5, <2>6
  <2>8. <<t[i], s[i]>> \in R
    BY <1>6, <2>4, <2>6, <2>7
  <2>9. PICK k \in 1..m : s[k] = t[i]
    BY <1>8, <2>6
  <2>10. ~(k < i)
    <3>1. ASSUME k < i PROVE FALSE
      <4>1. k \in 1..n /\ s[k] = t[k]
        BY <2>3, <3>1
      <4>2. <<t[k], t[i]>> \in R
        BY <1>6, <2>6, <3>1, <4>1
      <4>3. <<t[i], t[i]>> \in R /\ t[i] \in S
        BY <1>4, <2>6, <2>9, <4>1, <4>2
      <4> QED  BY <4>3
    <3> QED  BY <3>1
  <2>11. i < k
    BY <2>3, <2>7, <2>9, <2>10
  <2>12. <<s[i], t[i]>> \in R
    BY <1>5, <2>3, <2>9, <2>11
  <2>13. s[i] \in S /\ t[i] \in S
    BY <1>3, <1>4, <2>3, <2>6
  <2> QED  BY <2>8, <2>12, <2>13
<1>10. \A i \in 1..m : i \in 1..n /\ s[i] = t[i]
  BY <1>9
<1>11. m <= n
  BY <1>1, <1>2, <1>10
<1>12. ~(m < n)
  <2>1. ASSUME m < n PROVE FALSE
    <3>1. n \in 1..n
      BY <1>1, <1>2, <2>1
    <3>2. PICK i \in 1..m : s[i] = t[n]
      BY <1>8, <3>1
    <3>3. i < n /\ i \in 1..n /\ t[i] = t[n]
      BY <1>10, <2>1, <3>2
    <3>4. <<t[i], t[n]>> \in R
      BY <1>6, <3>1, <3>3
    <3>5. <<t[n], t[n]>> \in R /\ t[n] \in S
      BY <1>4, <3>1, <3>3, <3>4
    <3> QED  BY <3>5
  <2> QED  BY <2>1
<1>13. m = n
  BY <1>1, <1>2, <1>11, <1>12
<1> QED  BY <1>1, <1>2, <1>10, <1>13

\* A side is made of its orders.
LEMMA SidesEqual ==
    ASSUME NEW sd, NEW s, GoodSide(s, sd), NEW t, GoodSide(t, sd), Entries(s) = Entries(t)
    PROVE  s = t
<1>1. ASSUME NEW u, GoodSide(u, sd), NEW p
      PROVE  /\ p \in DOMAIN u.levels <=> \E x \in Entries(u) : x.price = p
             /\ p \in DOMAIN u.levels => Range(u.levels[p]) = {x \in Entries(u) : x.price = p}
  <2>1. ASSUME p \in DOMAIN u.levels
        PROVE  Range(u.levels[p]) = {x \in Entries(u) : x.price = p} /\ Range(u.levels[p]) # {}
    <3>1. PICK q : q = u.levels[p]
      OBVIOUS
    <3>2. GoodQueue(q, sd, p)
      BY <1>1, <2>1, <3>1 DEF GoodSide
    <3>3. DOMAIN q = 1..Len(q) /\ Len(q) \in Nat /\ Len(q) # 0
      BY <3>2 DEF GoodQueue
    <3>4. Range(q) # {}
      <4>1. q[1] \in Range(q)
        BY <3>3 DEF Range
      <4> QED  BY <4>1
    <3>5. \A x \in Range(q) : x.price = p
      BY <3>2, <3>3 DEF GoodQueue, Range, rests
    <3>6. \A x \in Entries(u) : x.price = p => x \in Range(q)
      BY <1>1, <3>1, EntryRests
    <3>7. Range(q) \subseteq Entries(u)
      BY <2>1, <3>1 DEF Entries
    <3> QED  BY <3>1, <3>4, <3>5, <3>6, <3>7
  <2>2. ASSUME NEW x \in Entries(u), x.price = p PROVE p \in DOMAIN u.levels
    BY <1>1, <2>2, EntryRests
  <2> QED  BY <2>1, <2>2
<1>2. DOMAIN s.levels = DOMAIN t.levels
  <2>1. ASSUME NEW p PROVE p \in DOMAIN s.levels <=> p \in DOMAIN t.levels
    <3>1. p \in DOMAIN s.levels <=> \E x \in Entries(s) : x.price = p
      BY <1>1
    <3>2. p \in DOMAIN t.levels <=> \E x \in Entries(t) : x.price = p
      BY <1>1
    <3> QED  BY <3>1, <3>2
  <2> QED  BY <2>1
<1>3. ASSUME NEW p \in DOMAIN s.levels PROVE s.levels[p] = t.levels[p]
  <2>1. PICK a, c : a = s.levels[p] /\ c = t.levels[p]
    OBVIOUS
  <2>2. GoodQueue(a, sd, p) /\ GoodQueue(c, sd, p)
    BY <1>2, <2>1 DEF GoodSide
  <2>3. Range(a) = Range(c)
    <3>1. Range(a) = {x \in Entries(s) : x.price = p}
      BY <1>1, <2>1
    <3>2. Range(c) = {x \in Entries(t) : x.price = p}
      BY <1>1, <1>2, <2>1
    <3> QED  BY <3>1, <3>2
  <2>4. /\ a \in Seq(AnyOrder) /\ c \in Seq(AnyOrder)
        /\ Sorted(IdOrder, a) /\ Sorted(IdOrder, c)
    BY <2>2 DEF GoodQueue
  <2>5. \A x, y \in AnyOrder : <<x, y>> \in IdOrder => <<y, x>> \notin IdOrder
    <3>1. ASSUME NEW x \in AnyOrder, NEW y \in AnyOrder, <<x, y>> \in IdOrder, <<y, x>> \in IdOrder
          PROVE  FALSE
      <4>1. x.id < y.id /\ y.id < x.id
        BY <3>1, IdOrderIs
      <4>2. x.id \in Nat /\ y.id \in Nat
        BY OrderTyped
      <4> QED  BY <4>1, <4>2
    <3> QED  BY <3>1
  <2> QED  BY <2>1, <2>3, <2>4, <2>5, SortedUnique
<1>4. s.prices = t.prices
  <2>1. PICK a, c : a = s.prices /\ c = t.prices
    OBVIOUS
  <2>2. /\ a \in Seq(Prices) /\ c \in Seq(Prices) /\ Range(a) = Range(c)
        /\ Sorted(PriceOrder(sd), a) /\ Sorted(PriceOrder(sd), c)
    BY <1>2, <2>1 DEF GoodSide, SideShape
  <2>3. \A x, y \in Prices : <<x, y>> \in PriceOrder(sd) => <<y, x>> \notin PriceOrder(sd)
    <3>1. ASSUME NEW x, NEW y, <<x, y>> \in PriceOrder(sd), <<y, x>> \in PriceOrder(sd)
          PROVE  FALSE
      <4>1. x \in Nat /\ y \in Nat /\ IF sd = "buy" THEN x > y ELSE x < y
        BY <3>1, PriceOrderIs
      <4>2. IF sd = "buy" THEN y > x ELSE y < x
        BY <3>1, PriceOrderIs
      <4> QED  BY <4>1, <4>2
    <3> QED  BY <3>1
  <2> QED  BY <2>1, <2>2, <2>3, SortedUnique
<1>5. PICK D, E : /\ s.levels \in [D -> Seq(AnyOrder)] /\ t.levels \in [E -> Seq(AnyOrder)]
  BY DEF GoodSide, SideShape, Queues
<1>6. s.levels = t.levels
  BY <1>2, <1>3, <1>5
<1>7. s \in SideShape /\ t \in SideShape
  BY DEF GoodSide
<1> QED  BY <1>4, <1>6, <1>7 DEF SideShape

\* The orders on a side of a book.
LEMMA EntriesAre ==
    ASSUME NEW b, GoodBook(b), NEW sd \in Sides
    PROVE  Entries(b.side[sd]) = {x \in Resting(b) : x.side = sd}
<1>1. GoodSide(b.side[sd], sd)
  BY DEF GoodBook
<1>2. ASSUME NEW x \in Entries(b.side[sd]) PROVE x.side = sd
  BY <1>1, <1>2, EntryRests DEF rests
<1>3. Entries(b.side[sd]) \subseteq Resting(b)
  BY DEF Resting, Sides
<1>4. ASSUME NEW x \in Resting(b), x.side = sd PROVE x \in Entries(b.side[sd])
  BY <1>4, RestingRests
<1> QED  BY <1>2, <1>3, <1>4

\* Well-formed books with the same orders are the same, down to the queues.
LEMMA BooksEqual ==
    ASSUME NEW b, GoodBook(b), NEW c, GoodBook(c), Resting(b) = Resting(c)
    PROVE  b = c
<1>2. ASSUME NEW sd \in Sides PROVE b.side[sd] = c.side[sd]
  <2>1. PICK s, t : s = b.side[sd] /\ t = c.side[sd]
    OBVIOUS
  <2>2. GoodSide(s, sd) /\ GoodSide(t, sd)
    BY <2>1 DEF GoodBook
  <2>3. Entries(s) = Entries(t)
    <3>1. Entries(s) = {x \in Resting(b) : x.side = sd}
      BY <2>1, EntriesAre
    <3>2. Entries(t) = {x \in Resting(c) : x.side = sd}
      BY <2>1, EntriesAre
    <3> QED  BY <3>1, <3>2
  <2> QED  BY <2>1, <2>2, <2>3, SidesEqual
<1>3. b \in BookShape /\ c \in BookShape /\ b.ok = TRUE /\ c.ok = TRUE
  BY DEF GoodBook, BookShape
<1>4. b.side = c.side
  <2>1. b.side \in [Sides -> SideShape] /\ c.side \in [Sides -> SideShape]
    BY <1>3 DEF BookShape
  <2> QED  BY <1>2, <2>1
<1>5. b.orders = c.orders
  <2>1. PICK D, E : /\ b.orders \in [D -> [side : Sides, price : Prices]]
                    /\ c.orders \in [E -> [side : Sides, price : Prices]]
    BY <1>3 DEF BookShape, Indexes
  <2>2. DOMAIN b.orders = DOMAIN c.orders
    BY DEF GoodBook, Indexed
  <2>3. ASSUME NEW id \in DOMAIN b.orders PROVE b.orders[id] = c.orders[id]
    <3>1. PICK x \in Resting(b) : x.id = id
      BY DEF GoodBook, Indexed
    <3>2. b.orders[x.id] = [side |-> x.side, price |-> x.price]
      BY <3>1, RestingRests
    <3>3. c.orders[x.id] = [side |-> x.side, price |-> x.price]
      BY <3>1, RestingRests
    <3> QED  BY <3>1, <3>2, <3>3
  <2> QED  BY <2>1, <2>2, <2>3
<1> QED  BY <1>3, <1>4, <1>5 DEF BookShape

-----------------------------------------------------------------------------
(* Results replayed.                                                       *)

putBack(c, b, o) == loadOrder(removeOrder(b, o.id), o)
replayStep(c, b, result) == ApplyResult(b, result)
removeStep(c, b, id) == removeOrder(b, id)

Puts == INSTANCE FoldLemmas WITH step <- putBack, Good <- noClaim
Replays == INSTANCE FoldLemmas WITH step <- replayStep, Good <- noClaim
Removals == INSTANCE FoldLemmas WITH step <- removeStep, Good <- noClaim

\* An order is taken out and put back as a result has it.
LEMMA PutBackGood ==
    ASSUME NEW b, GoodBook(b), NEW o \in AnyOrder
    PROVE  /\ GoodBook(loadOrder(removeOrder(b, o.id), o))
           /\ Resting(loadOrder(removeOrder(b, o.id), o)) =
                {x \in Resting(b) : x.id # o.id} \cup {x \in {o} : isBookable(x)}
<1>1. PICK c : c = removeOrder(b, o.id)
  OBVIOUS
<1>2. /\ GoodBook(c) /\ Resting(c) = {x \in Resting(b) : x.id # o.id}
      /\ DOMAIN c.orders = DOMAIN b.orders \ {o.id}
  BY <1>1, RemoveOrderGood
<1>3. CASE isBookable(o)
  <2>1. loadOrder(c, o) = insertResting(c, o)
    BY <1>3 DEF loadOrder
  <2>2. GoodBook(insertResting(c, o)) /\ Resting(insertResting(c, o)) = Resting(c) \cup {o}
    BY <1>2, <1>3, InsertGood
  <2>3. {x \in {o} : isBookable(x)} = {o}
    BY <1>3
  <2> QED  BY <1>1, <1>2, <2>1, <2>2, <2>3
<1>4. CASE ~isBookable(o)
  <2>1. loadOrder(c, o) = c
    BY <1>4 DEF loadOrder
  <2>2. {x \in {o} : isBookable(x)} = {}
    BY <1>4
  <2> QED  BY <1>1, <1>2, <2>1, <2>2
<1> QED  BY <1>3, <1>4

\* ApplyResult does to the book what the match did.
LEMMA ResultGood ==
    ASSUME NEW b, GoodBook(b), NEW result, NEW q, q = Append(result.makers, result.taker),
           Distinct(q)
    PROVE  GoodBook(ApplyResult(b, result)) /\ Traced(b, ApplyResult(b, result), q)
<1>1. PICK n \in Nat : n = Len(q) /\ q \in Seq(AnyOrder) /\ DOMAIN q = 1..n
  BY DEF Distinct
<1>2. PICK acc : Puts!AreValues(acc, 0, b, q, n)
  BY <1>1, Puts!FoldLeftSteps
<1>3. acc[0] = b /\ \A i \in 1..n : acc[i] = loadOrder(removeOrder(acc[i - 1], q[i].id), q[i])
  BY <1>2 DEF Puts!AreValues, putBack
<1>10. ApplyResult(b, result) = FoldLeft(LAMBDA x, o : loadOrder(removeOrder(x, o.id), o), b, q)
  BY DEF ApplyResult
<1>11. FoldLeft(LAMBDA x, o : loadOrder(removeOrder(x, o.id), o), b, q) = acc[n]
  BY <1>2 DEF Puts!AreValues, Puts!FoldFrom, Puts!FoldLeft, Puts!MapThenFoldSet,
     Puts!Max, FoldLeft, MapThenFoldSet, Max, putBack
<1>4. ApplyResult(b, result) = acc[n]
  BY <1>10, <1>11
<1> DEFINE first(i) == {q[j] : j \in 1..i}
           put(i) == {x \in Resting(b) : \A z \in first(i) : x.id # z.id} \cup {x \in first(i) : isBookable(x)}
           K == {i \in 0..n : GoodBook(acc[i]) /\ Resting(acc[i]) = put(i)}
<1>5. 0 \in K
  <2>1. first(0) = {}
    OBVIOUS
  <2>2. put(0) = Resting(b)
    BY <2>1
  <2> HIDE DEF put
  <2> QED  BY <1>3, <2>2
<1>6. ASSUME NEW i \in 1..n, i - 1 \in K PROVE i \in K
  <2>1. PICK k \in Nat : k = i - 1 /\ i = k + 1 /\ k \in 0..n /\ i \in 0..n
    BY <1>1
  <2>2. PICK x : x = acc[k]
    OBVIOUS
  <2>3. PICK o \in AnyOrder : o = q[i]
    BY <1>1
  <2>4. GoodBook(x) /\ Resting(x) = put(k)
    BY <1>6, <2>1, <2>2
  <2>5. acc[i] = loadOrder(removeOrder(x, o.id), o)
    BY <1>3, <2>1, <2>2, <2>3
  <2>6. GoodBook(acc[i]) /\ Resting(acc[i]) = {z \in put(k) : z.id # o.id} \cup {z \in {o} : isBookable(z)}
    BY <2>4, <2>5, PutBackGood
  <2>7. first(i) = first(k) \cup {o}
    <3>1. (\A j \in 1..i : j \in 1..k \/ j = i) /\ (\A j \in 1..k : j \in 1..i) /\ i \in 1..i
      BY <2>1
    <3> QED  BY <2>3, <3>1
  <2>8. \A z \in first(k) : z.id # o.id
    <3>1. ASSUME NEW j \in 1..k PROVE q[j].id # o.id
      <4>1. j \in 1..Len(q) /\ i \in 1..Len(q) /\ j # i
        BY <1>1, <2>1
      <4> QED  BY <2>3, <4>1 DEF Distinct
    <3> QED  BY <3>1
  <2> HIDE DEF first
  <2>9. put(i) = {z \in put(k) : z.id # o.id} \cup {z \in {o} : isBookable(z)}
    BY <2>7, <2>8
  <2> HIDE DEF put
  <2> QED  BY <2>1, <2>6, <2>9
<1>7. n \in K
  <2> HIDE DEF K
  <2> QED  BY <1>5, <1>6, Loads!CountTo
<1>8. first(n) = Range(q)
  BY <1>1 DEF Range
<1>9. put(n) = {x \in Resting(b) : x.id \notin idsOf(q)} \cup {x \in Range(q) : isBookable(x)}
  <2> HIDE DEF first
  <2> QED  BY <1>8 DEF idsOf
<1> QED  BY <1>4, <1>7, <1>9 DEF Traced

\* The orders of a list of ids are taken out.
LEMMA RemoveAllGood ==
    ASSUME NEW b, GoodBook(b), NEW l, NEW n \in Nat, DOMAIN l = 1..n
    PROVE  /\ GoodBook(FoldLeft(removeOrder, b, l))
           /\ Resting(FoldLeft(removeOrder, b, l)) = {x \in Resting(b) : x.id \notin Range(l)}
<1>1. PICK acc : Removals!AreValues(acc, 0, b, l, n)
  BY Removals!FoldLeftSteps
<1>2. acc[0] = b /\ \A i \in 1..n : acc[i] = removeOrder(acc[i - 1], l[i])
  BY <1>1 DEF Removals!AreValues, removeStep
<1>3. FoldLeft(removeOrder, b, l) = acc[n]
  BY <1>1 DEF Removals!AreValues, Removals!FoldFrom, Removals!FoldLeft, Removals!MapThenFoldSet,
     Removals!Max, FoldLeft, MapThenFoldSet, Max, removeStep
<1> DEFINE first(i) == {l[j] : j \in 1..i}
           K == {i \in 0..n : GoodBook(acc[i]) /\ Resting(acc[i]) = {x \in Resting(b) : x.id \notin first(i)}}
<1>4. 0 \in K
  BY <1>2
<1>5. ASSUME NEW i \in 1..n, i - 1 \in K PROVE i \in K
  <2>1. PICK k \in Nat : k = i - 1 /\ i = k + 1 /\ k \in 0..n /\ i \in 0..n
    OBVIOUS
  <2>2. PICK x, id : x = acc[k] /\ id = l[i]
    OBVIOUS
  <2>3. GoodBook(x) /\ Resting(x) = {z \in Resting(b) : z.id \notin first(k)}
    BY <1>5, <2>1, <2>2
  <2>4. acc[i] = removeOrder(x, id)
    BY <1>2, <2>1, <2>2
  <2>5. GoodBook(acc[i]) /\ Resting(acc[i]) = {z \in Resting(x) : z.id # id}
    BY <2>3, <2>4, RemoveOrderGood
  <2>6. first(i) = first(k) \cup {id}
    BY <2>1, <2>2
  <2> QED  BY <2>1, <2>3, <2>5, <2>6
<1>6. n \in K
  <2> HIDE DEF K
  <2> QED  BY <1>4, <1>5, Loads!CountTo
<1>7. first(n) = Range(l)
  BY DEF Range
<1> QED  BY <1>3, <1>6, <1>7

\* A finite set as a list.
LEMMA SetListed ==
    ASSUME NEW S, IsFiniteSet(S)
    PROVE  /\ Cardinality(S) \in Nat
           /\ DOMAIN SetToSeq(S) = 1..Cardinality(S) /\ Range(SetToSeq(S)) = S
<1>1. PICK n \in Nat : n = Cardinality(S)
  BY FS_CardinalityType
<1>2. PICK f : f \in Bijection(1..n, S)
  BY <1>1, FS_CardinalityType DEF ExistsBijection
<1>3. f \in [1..n -> S] /\ IsInjective(f)
  BY <1>2 DEF Bijection, Injection
<1>4. PICK g : g = SetToSeq(S)
  OBVIOUS
<1>5. g \in [1..n -> S] /\ IsInjective(g)
  BY <1>1, <1>3, <1>4 DEF SetToSeq
<1>6. g \in Injection(1..n, S)
  BY <1>5 DEF Injection
<1>7. Cardinality(1..n) = n
  BY FS_Interval
<1>8. g \in Surjection(1..n, S)
  BY <1>1, <1>6, <1>7, FS_Injection
<1>9. Range(g) = S
  BY <1>5, <1>8 DEF Range, Surjection
<1> QED  BY <1>1, <1>4, <1>5, <1>9

-----------------------------------------------------------------------------
(* The invariant.                                                          *)

Result == [taker : AnyOrder, makers : Seq(AnyOrder), trades : Seq(Trade)]

\* The book rebuilt from a snapshot and results.
rebuilt(items, results) == FoldLeft(ApplyResult, RestoreMarketBook(items), results)

\* The book is well formed and uncrossed; it has the orders of the book rebuilt from
\* the snapshot, but for the canceled; and only orders that were applied are in it
\* or were canceled.
ReplayInv ==
    /\ GoodBook(book) /\ Uncrossed(book)
    /\ tape \in Seq(Result)
    /\ GoodBook(rebuilt(snap, tape))
    /\ Resting(book) = {x \in Resting(rebuilt(snap, tape)) : x.id \notin gone}
    /\ DOMAIN book.orders \subseteq applied /\ gone \subseteq applied
    /\ applied \subseteq OrderIds

\* The commands are orders.
LEMMA TakersAreOrders == Takers \subseteq AnyOrder
BY MarketBookAssumption DEF Taker, AnyOrder

\* With no results the book is the restored snapshot.
LEMMA RebuiltFromSnapshot ==
    ASSUME NEW items
    PROVE  rebuilt(items, <<>>) = RestoreMarketBook(items)
<1>1. PICK b : b = RestoreMarketBook(items)
  OBVIOUS
<1>2. DOMAIN <<>> = 1..0
  OBVIOUS
<1>3. PICK acc : Replays!AreValues(acc, 0, b, <<>>, 0)
  BY <1>2, Replays!FoldLeftSteps
<1>4. FoldLeft(ApplyResult, b, <<>>) = b
  BY <1>3 DEF Replays!AreValues, Replays!FoldFrom, Replays!FoldLeft, Replays!MapThenFoldSet,
     Replays!Max, FoldLeft, MapThenFoldSet, Max, replayStep
<1> QED  BY <1>1, <1>4 DEF rebuilt

\* One more result is applied to what was rebuilt.
LEMMA RebuiltAppend ==
    ASSUME NEW items, NEW results \in Seq(Result), NEW x \in Result
    PROVE  rebuilt(items, Append(results, x)) = ApplyResult(rebuilt(items, results), x)
<1>1. PICK b : b = RestoreMarketBook(items)
  OBVIOUS
<1>2. PICK n \in Nat : n = Len(results) /\ DOMAIN results = 1..n
  OBVIOUS
<1>3. PICK t : t = Append(results, x)
  OBVIOUS
<1>4. DOMAIN t = 1..(n + 1) /\ t[n + 1] = x /\ \A i \in 1..n : t[i] = results[i]
  BY <1>2, <1>3
<1>5. Replays!FoldFrom(0, b, t) = replayStep(0, Replays!FoldFrom(0, b, results), t[n + 1])
  BY <1>2, <1>4, Replays!FoldLeftAppend
<1>6. \A s : Replays!FoldFrom(0, b, s) = FoldLeft(ApplyResult, b, s)
  BY DEF Replays!FoldFrom, Replays!FoldLeft, Replays!MapThenFoldSet,
     Replays!Max, FoldLeft, MapThenFoldSet, Max, replayStep
<1> QED  BY <1>1, <1>3, <1>4, <1>5, <1>6 DEF rebuilt, replayStep

\* The empty book.
LEMMA InitReplay == ReplayInit => ReplayInv
<1> SUFFICES ASSUME ReplayInit PROVE ReplayInv
  OBVIOUS
<1>1. /\ book = NewMarketBook /\ applied = {} /\ snap = <<>> /\ tape = <<>> /\ gone = {}
  BY DEF ReplayInit
<1>2. Distinct(<<>>) /\ Range(<<>>) = {}
  BY DEF Distinct, Range
<1>3. PICK c : c = RestoreMarketBook(<<>>)
  OBVIOUS
<1>4. GoodBook(c) /\ Resting(c) = {}
  <2>1. /\ GoodBook(RestoreMarketBook(<<>>))
        /\ Resting(RestoreMarketBook(<<>>)) = {x \in Range(<<>>) : isBookable(x)}
    BY <1>2, RestoreGood
  <2> QED  BY <1>2, <1>3, <2>1
<1>5. rebuilt(snap, tape) = c
  BY <1>1, <1>3, RebuiltFromSnapshot
<1>6. GoodBook(book) /\ Resting(book) = {}
  BY <1>1, EmptyGood
<1>7. Uncrossed(book) /\ DOMAIN book.orders = {}
  BY <1>6 DEF Uncrossed, GoodBook, Indexed
<1>8. tape \in Seq(Result)
  BY <1>1
<1>9. Resting(book) = {x \in Resting(rebuilt(snap, tape)) : x.id \notin gone}
  BY <1>4, <1>5, <1>6
<1> QED  BY <1>1, <1>4, <1>5, <1>6, <1>7, <1>8, <1>9 DEF ReplayInv

\* An order applied.
LEMMA ApplySucceedsKeeps ==
    ASSUME ReplayInv, NEW t \in Takers, t.id \notin applied, ApplySucceeds(t, Apply(book, t))
    PROVE  ReplayInv'
<1>1. t \in AnyOrder
  BY TakersAreOrders
<1>2. PICK r : r = Apply(book, t)
  OBVIOUS
<1>3. PICK res : res = [taker |-> r.taker, makers |-> r.makers, trades |-> r.trades]
  OBVIOUS
<1>4. /\ ~r.err /\ book' = r.book /\ tape' = Append(tape, res)
      /\ applied' = applied \cup {t.id} /\ snap' = snap /\ gone' = gone
  BY <1>2, <1>3 DEF ApplySucceeds
<1>5. GoodBook(book) /\ Uncrossed(book) /\ tape \in Seq(Result)
  BY DEF ReplayInv
<1>6. Applied(book, t, r)
  BY <1>1, <1>2, <1>4, <1>5, ApplyGood
<1>7. PICK q : q = Append(r.makers, r.taker)
  OBVIOUS
<1>8. /\ r.taker \in AnyOrder /\ r.taker.id = t.id
      /\ r.makers \in Seq(AnyOrder) /\ r.trades \in Seq(Trade)
      /\ GoodBook(r.book) /\ Uncrossed(r.book)
      /\ DOMAIN r.book.orders \subseteq DOMAIN book.orders \cup {t.id}
      /\ Traced(book, r.book, q)
      /\ \A i \in 1..Len(r.makers) : r.makers[i].id \in DOMAIN book.orders
  BY <1>5, <1>6, <1>7 DEF Applied, SameTerms
<1>9. res \in Result /\ res.makers = r.makers /\ res.taker = r.taker
  BY <1>3, <1>8 DEF Result
<1>10. PICK old : old = rebuilt(snap, tape) /\ GoodBook(old)
  BY DEF ReplayInv
<1>11. PICK new : new = ApplyResult(old, res)
  OBVIOUS
<1>12. GoodBook(new) /\ Traced(old, new, q)
  <2>1. q = Append(res.makers, res.taker) /\ Distinct(q)
    BY <1>7, <1>8, <1>9 DEF Traced
  <2> QED  BY <1>10, <1>11, <2>1, ResultGood
<1>13. rebuilt(snap', tape') = new
  BY <1>4, <1>5, <1>9, <1>10, <1>11, RebuiltAppend
<1>14. \A id \in idsOf(q) : id \notin gone
  <2>1. PICK n \in Nat : n = Len(r.makers)
    BY <1>8
  <2>2. /\ DOMAIN q = 1..(n + 1) /\ q[n + 1] = r.taker
        /\ \A i \in 1..n : q[i] = r.makers[i]
    BY <1>7, <1>8, <2>1
  <2>3. \A id \in DOMAIN book.orders : id \notin gone
    <3>1. ASSUME NEW id \in DOMAIN book.orders PROVE id \notin gone
      <4>1. PICK x \in Resting(book) : x.id = id
        BY <1>5 DEF GoodBook, Indexed
      <4> QED  BY <4>1 DEF ReplayInv
    <3> QED  BY <3>1
  <2>4. t.id \notin gone
    BY DEF ReplayInv
  <2>5. \A i \in 1..n : q[i].id \notin gone
    BY <1>8, <2>1, <2>2, <2>3
  <2>6. \A i \in 1..(n + 1) : i \in 1..n \/ i = n + 1
    BY <2>1
  <2>7. \A i \in 1..(n + 1) : q[i].id \notin gone
    BY <1>8, <2>2, <2>4, <2>5, <2>6
  <2> QED  BY <2>2, <2>7 DEF idsOf, Range
<1>15. Resting(r.book) = {x \in Resting(new) : x.id \notin gone}
  <2>1. Resting(book) = {x \in Resting(old) : x.id \notin gone}
    BY <1>10 DEF ReplayInv
  <2>2. Resting(r.book) = {x \in Resting(book) : x.id \notin idsOf(q)} \cup {x \in Range(q) : isBookable(x)}
    BY <1>8 DEF Traced
  <2>3. Resting(new) = {x \in Resting(old) : x.id \notin idsOf(q)} \cup {x \in Range(q) : isBookable(x)}
    BY <1>12 DEF Traced
  <2>4. \A x \in Range(q) : x.id \notin gone
    BY <1>14 DEF idsOf
  <2> QED  BY <2>1, <2>2, <2>3, <2>4
<1>16. tape' \in Seq(Result)
  BY <1>4, <1>5, <1>9
<1>17. /\ DOMAIN r.book.orders \subseteq applied' /\ gone' \subseteq applied'
       /\ applied' \subseteq OrderIds
  <2>1. t.id \in OrderIds
    BY <1>1, OrderTyped
  <2> QED  BY <1>4, <1>8, <2>1 DEF ReplayInv
<1> QED  BY <1>4, <1>8, <1>12, <1>13, <1>15, <1>16, <1>17 DEF ReplayInv

\* A failed match: the copy of the book has its orders.
LEMMA ApplyFailsKeeps ==
    ASSUME ReplayInv, NEW t, NEW r, ApplyFails(t, r)
    PROVE  ReplayInv' /\ book' = book
<1>1. PICK c : c = RestoreMarketBook(CaptureState(book))
  OBVIOUS
<1>2. GoodBook(book)
  BY DEF ReplayInv
<1>3. GoodBook(c) /\ Resting(c) = Resting(book)
  BY <1>1, <1>2, CopyGood
<1>4. c = book
  BY <1>2, <1>3, BooksEqual
<1>5. book' = book /\ applied' = applied /\ snap' = snap /\ tape' = tape /\ gone' = gone
  BY <1>1, <1>4 DEF ApplyFails
<1> QED  BY <1>5 DEF ReplayInv

\* An order canceled.
LEMMA CancelKeeps ==
    ASSUME ReplayInv, NEW id, Cancel(id)
    PROVE  ReplayInv'
<1>1. PICK c : c = removeOrder(book, id)
  OBVIOUS
<1>2. /\ id \in DOMAIN book.orders /\ book' = c /\ gone' = gone \cup {id}
      /\ applied' = applied /\ snap' = snap /\ tape' = tape
  BY <1>1 DEF Cancel
<1>3. /\ GoodBook(c) /\ Resting(c) = {x \in Resting(book) : x.id # id}
      /\ DOMAIN c.orders = DOMAIN book.orders \ {id}
  BY <1>1, RemoveOrderGood DEF ReplayInv
<1>4. Uncrossed(c)
  BY <1>3 DEF ReplayInv, Uncrossed
<1>5. PICK old : old = rebuilt(snap, tape)
  OBVIOUS
<1>6. Resting(c) = {x \in Resting(old) : x.id \notin gone \cup {id}}
  BY <1>3, <1>5 DEF ReplayInv
<1>7. /\ DOMAIN c.orders \subseteq applied /\ gone \cup {id} \subseteq applied
      /\ applied \subseteq OrderIds /\ tape \in Seq(Result) /\ GoodBook(old)
  BY <1>2, <1>3, <1>5 DEF ReplayInv
<1>8. rebuilt(snap', tape') = old
  BY <1>2, <1>5
<1> QED  BY <1>2, <1>3, <1>4, <1>6, <1>7, <1>8 DEF ReplayInv

\* A snapshot taken.
LEMMA SnapshotKeeps ==
    ASSUME ReplayInv, TakeSnapshot
    PROVE  ReplayInv'
<1>1. PICK c : c = RestoreMarketBook(CaptureState(book))
  OBVIOUS
<1>2. /\ snap' = CaptureState(book) /\ tape' = <<>> /\ gone' = {}
      /\ book' = book /\ applied' = applied
  BY DEF TakeSnapshot
<1>3. GoodBook(c) /\ Resting(c) = Resting(book)
  BY <1>1, CopyGood DEF ReplayInv
<1>4. rebuilt(snap', tape') = c
  BY <1>1, <1>2, RebuiltFromSnapshot
<1>5. tape' \in Seq(Result)
  BY <1>2
<1> QED  BY <1>2, <1>3, <1>4, <1>5 DEF ReplayInv

\* The snapshot and the results, replayed without the canceled, are the book.
LEMMA RebuiltIsBook == ReplayInv => ReplayRebuilds
<1> SUFFICES ASSUME ReplayInv PROVE ReplayRebuilds
  OBVIOUS
<1>1. PICK old : old = rebuilt(snap, tape)
  OBVIOUS
<1>2. GoodBook(old) /\ GoodBook(book) /\ Resting(book) = {x \in Resting(old) : x.id \notin gone}
  BY <1>1 DEF ReplayInv
<1>3. IsFiniteSet(gone)
  <2>1. gone \in SUBSET OrderIds
    BY DEF ReplayInv
  <2>2. IsFiniteSet(OrderIds)
    BY FS_Interval, LedgerAssumption DEF OrderIds
  <2> QED  BY <2>1, <2>2, FS_Subset
<1>4. PICK l : l = SetToSeq(gone)
  OBVIOUS
<1>5. PICK n \in Nat : DOMAIN l = 1..n /\ Range(l) = gone
  BY <1>3, <1>4, SetListed
<1>6. PICK c : c = FoldLeft(removeOrder, old, l)
  OBVIOUS
<1>7. GoodBook(c) /\ Resting(c) = {x \in Resting(old) : x.id \notin gone}
  BY <1>2, <1>5, <1>6, RemoveAllGood
<1>8. c = book
  BY <1>2, <1>7, BooksEqual
<1> QED  BY <1>1, <1>4, <1>6, <1>8 DEF ReplayRebuilds, rebuilt

\* Every command keeps the invariant.
LEMMA ReplayStep == ReplayInv /\ [ReplayNext]_replayVars => ReplayInv'
<1> SUFFICES ASSUME ReplayInv, [ReplayNext]_replayVars PROVE ReplayInv'
  OBVIOUS
<1>1. ASSUME NEW t \in Takers, ProcessCommand(t) PROVE ReplayInv'
  <2>1. CASE ApplySucceeds(t, Apply(book, t))
    BY <1>1, <2>1, ApplySucceedsKeeps DEF ProcessCommand
  <2>2. CASE ApplyFails(t, Apply(book, t))
    BY <2>2, ApplyFailsKeeps
  <2> QED  BY <1>1, <2>1, <2>2 DEF ProcessCommand
<1>2. ASSUME NEW id \in OrderIds, Cancel(id) PROVE ReplayInv'
  BY <1>2, CancelKeeps
<1>3. CASE TakeSnapshot
  BY <1>3, SnapshotKeeps
<1>4. CASE UNCHANGED replayVars
  BY <1>4 DEF replayVars, ReplayInv
<1> QED  BY <1>1, <1>2, <1>3, <1>4 DEF ReplayNext

\* The inductive invariant of the book.
THEOREM ReplayInvariant == ReplaySpec => []ReplayInv
<1> QED  BY InitReplay, ReplayStep, PTL DEF ReplaySpec

\* However orders are applied, canceled and fail, the prices, the queues and the
\* index of the resident book agree, and no bid in it reaches an ask.
THEOREM BookStaysConsistent == ReplaySpec => []BookConsistent
<1>1. ReplayInv => BookConsistent
  BY GoodIsConsistent DEF ReplayInv
<1> QED  BY <1>1, ReplayInvariant, PTL

\* A book rebuilt from the last snapshot and the results logged since is the live
\* book, down to the order in its queues, but for the canceled orders.
THEOREM ReplayAlwaysRebuilds == ReplaySpec => []ReplayRebuilds
<1> QED  BY RebuiltIsBook, ReplayInvariant, PTL

-----------------------------------------------------------------------------
(* The engine on the same orders.                                          *)

\* A list of the orders of a set, each once, in price-time priority.
Prioritized(l, S, n) ==
    /\ n \in Nat /\ DOMAIN l = 1..n /\ l \in Seq(S) /\ Range(l) = S
    /\ \A i, j \in 1..n : i < j => l[i] # l[j] /\ ahead(l[i], l[j])

\* A side has such a list, its levels one after the other.
LEMMA PriorityList ==
    ASSUME NEW sd, NEW s, GoodSide(s, sd),
           \A x, y \in Entries(s) : x.id = y.id => x = y
    PROVE  /\ IsFiniteSet(Entries(s))
           /\ Prioritized(inPriority(Entries(s)), Entries(s), Cardinality(Entries(s)))
<1>1. PICK S : S = Entries(s)
  OBVIOUS
<1>2. PICK v : v = levelsInOrder(s) /\ Distinct(v) /\ Range(v) = S /\ Sorted(PriorityOrder, v)
  BY <1>1, SideListed
<1>3. PICK m \in Nat : m = Len(v) /\ DOMAIN v = 1..m
  BY <1>2 DEF Distinct
<1>4. v \in [1..m -> S]
  BY <1>2, <1>3 DEF Distinct, Range
<1>5. \A i, j \in 1..m : v[i] = v[j] => i = j
  BY <1>2, <1>3 DEF Distinct
<1>6. \A i, j \in 1..m : i < j => ahead(v[i], v[j])
  BY <1>2, <1>3 DEF Sorted, PriorityOrder
<1>7. v \in Bijection(1..m, S)
  BY <1>2, <1>3, <1>4, <1>5 DEF Bijection, Injection, Surjection, IsInjective, Range
<1>8. IsFiniteSet(1..m) /\ Cardinality(1..m) = m
  BY FS_Interval
<1>9. IsFiniteSet(S) /\ Cardinality(S) = m
  BY <1>7, <1>8, FS_Bijection DEF ExistsBijection
<1>10. v \in SetToSeqs(S)
  BY <1>4, <1>5, <1>9 DEF SetToSeqs
<1>11. PICK l : l = inPriority(S)
  OBVIOUS
<1>12. l \in SetToSeqs(S) /\ \A i, j \in 1..m : i < j => ahead(l[i], l[j])
  BY <1>6, <1>9, <1>10, <1>11 DEF inPriority
<1>13. l \in [1..m -> S] /\ \A i, j \in 1..m : i # j => l[i] # l[j]
  BY <1>9, <1>12 DEF SetToSeqs
<1>14. l \in Injection(1..m, S)
  BY <1>13 DEF Injection, IsInjective
<1>15. l \in Surjection(1..m, S)
  BY <1>8, <1>9, <1>14, FS_Injection
<1>16. Range(l) = S
  BY <1>13, <1>15 DEF Range, Surjection
<1>17. l \in Seq(S)
  BY <1>13
<1> QED  BY <1>1, <1>9, <1>11, <1>12, <1>13, <1>16, <1>17 DEF Prioritized

\* A side has no more orders than the index.
LEMMA SideFewer ==
    ASSUME NEW b, GoodBook(b), NEW sd \in Sides
    PROVE  /\ Prioritized(inPriority(Entries(b.side[sd])), Entries(b.side[sd]),
                          Cardinality(Entries(b.side[sd])))
           /\ Cardinality(Entries(b.side[sd])) <= Cardinality(DOMAIN b.orders)
<1>1. PICK S : S = Entries(b.side[sd])
  OBVIOUS
<1>2. S \subseteq Resting(b)
  BY <1>1 DEF Resting, Sides
<1>3. \A x, y \in S : x.id = y.id => x = y
  BY <1>2, IdsAreUnique
<1>4. GoodSide(b.side[sd], sd)
  BY DEF GoodBook
<1>5. IsFiniteSet(S) /\ Prioritized(inPriority(S), S, Cardinality(S))
  BY <1>1, <1>3, <1>4, PriorityList
<1>6. PICK f : f = [x \in S |-> x.id]
  OBVIOUS
<1>7. PICK D : D = DOMAIN b.orders /\ IsFiniteSet(D)
  BY IndexFinite
<1>8. \A x \in S : x.id \in D
  BY <1>2, <1>7, RestingRests
<1>9. f \in Injection(S, D)
  BY <1>3, <1>6, <1>8 DEF Injection, IsInjective
<1>10. Cardinality(S) <= Cardinality(D)
  BY <1>7, <1>9, FS_Injection
<1> QED  BY <1>1, <1>5, <1>7, <1>10

\* The first order of the best queue comes before every other of its side.
LEMMA HeadIsAhead ==
    ASSUME NEW b, GoodBook(b), NEW sd \in Sides, b.side[sd].prices # <<>>,
           NEW p, p = b.side[sd].prices[1], NEW x, x = b.side[sd].levels[p][1],
           NEW y \in Entries(b.side[sd])
    PROVE  y = x \/ ahead(x, y)
<1>1. /\ p \in DOMAIN b.side[sd].levels /\ 1 \in 1..Len(b.side[sd].levels[p])
      /\ rests(x, sd, p)
      /\ \A z \in Resting(b) : z.side = sd =>
            z.price = p \/ IF sd = "buy" THEN p > z.price ELSE p < z.price
  BY BestFirst
<1>2. GoodSide(b.side[sd], sd)
  BY DEF GoodBook
<1>3. y \in Resting(b)
  BY DEF Resting, Sides
<1>4. rests(y, sd, y.price) /\ y \in Range(b.side[sd].levels[y.price])
  BY <1>2, EntryRests
<1>5. y.price = p \/ IF sd = "buy" THEN p > y.price ELSE p < y.price
  BY <1>1, <1>3, <1>4 DEF rests
<1>6. x.side = sd /\ x.price = p /\ p \in Nat /\ y.price \in Nat
  BY <1>1, <1>4, OrderTyped DEF rests
<1>7. CASE y.price # p
  BY <1>5, <1>6, <1>7 DEF ahead, Sides
<1>8. CASE y.price = p
  <2>1. PICK q : q = b.side[sd].levels[p]
    OBVIOUS
  <2>6. GoodQueue(q, sd, p) /\ 1 \in 1..Len(q)
    BY <1>1, <1>2, <2>1 DEF GoodSide
  <2>2. DOMAIN q = 1..Len(q) /\ Sorted(IdOrder, q)
    BY <2>6 DEF GoodQueue
  <2>3. PICK k \in 1..Len(q) : y = q[k]
    BY <1>4, <1>8, <2>1, <2>2 DEF Range
  <2>4. CASE k = 1
    BY <2>1, <2>3, <2>4
  <2>5. CASE k # 1
    <3>1. <<q[1], q[k]>> \in IdOrder
      BY <2>2, <2>5, <2>6 DEF Sorted
    <3>2. x.id < y.id
      BY <2>1, <2>3, <3>1, IdOrderIs
    <3> QED  BY <1>6, <1>8, <3>2 DEF ahead
  <2> QED  BY <2>4, <2>5
<1> QED  BY <1>7, <1>8

\* Two orders of a side are not each before the other.
LEMMA AheadIsStrict ==
    ASSUME NEW x \in AnyOrder, NEW y \in AnyOrder, x.side = y.side, ahead(x, y)
    PROVE  ~ahead(y, x)
<1>1. x.price \in Nat /\ y.price \in Nat /\ x.id \in Nat /\ y.id \in Nat
  BY OrderTyped
<1> QED  BY <1>1 DEF ahead

\* What MatchLimit works on.
EngineRun == [taker : AnyOrder, makers : Seq(AnyOrder), trades : Seq(Trade),
              halted : BOOLEAN, err : BOOLEAN]

\* The engine is where the book is.
SameRun(e, r) ==
    /\ e \in EngineRun /\ e.taker = r.taker /\ e.makers = r.makers /\ e.trades = r.trades
    /\ e.halted = r.halted /\ e.err = r.err

\* What the status of the taker is as long as it has not met an order of its user.
TakerSays(o, r) ==
    r.halted \/ IF r.trades = <<>> THEN r.taker = o
                                  ELSE r.taker.status = statusForRemaining(r.taker.remaining)

\* The side of the book after the best order was met: that order is gone, unless
\* the rounds are over.
HeadMet(r, g, sd, x) ==
    /\ (Entries(r.book.side[sd]) \ {x}) \subseteq Entries(g.book.side[sd])
    /\ Stopped(g) \/ Entries(g.book.side[sd]) = Entries(r.book.side[sd]) \ {x}

\* The best order of the other side of a book that is in the midst of Apply(b, o).
Meets(b, o, r, e, sd, x) ==
    /\ GoodBook(b) /\ o \in AnyOrder /\ RoundGood(b, o, r) /\ ~Stopped(r)
    /\ SameRun(e, r) /\ TakerSays(o, r)
    /\ sd = oppositeSide(o.side)
    /\ r.book.side[sd].prices # <<>>
    /\ x = r.book.side[sd].levels[r.book.side[sd].prices[1]][1]

\* The engine and the book make the same of it.
LEMMA MeetSame ==
    ASSUME NEW b, NEW o, NEW r, NEW e, NEW sd, NEW x, Meets(b, o, r, e, sd, x),
           NEW g, g = applyRound(r), NEW h, h = matchMaker(e, x)
    PROVE  SameRun(h, g) /\ TakerSays(o, g) /\ HeadMet(r, g, sd, x)
<1>1. PICK t \in AnyOrder : t = r.taker /\ SameTerms(o, t)
  BY DEF Meets, RoundGood, ApplyRun
<1>2. PICK bk : bk = r.book /\ GoodBook(bk)
  BY DEF Meets, RoundGood
<1>3. r \in ApplyRun /\ e \in EngineRun
  BY DEF Meets, RoundGood, SameRun
<1>4. PICK yes : yes = TRUE
  BY Zenon
<1>5. /\ ~r.err /\ ~r.halted /\ ~r.done /\ t.remaining > 0 /\ t.remaining \in Nat
  <2>1. ~r.err /\ ~r.halted /\ ~r.done /\ ~(t.remaining <= 0)
    BY <1>1 DEF Meets, Stopped
  <2>2. t.remaining \in Nat
    BY OrderTyped
  <2> QED  BY <2>1, <2>2
<1>6. o.id \notin DOMAIN b.orders /\ o.id \notin DOMAIN bk.orders /\ t.id = o.id /\ t.side = o.side
  <2>1. DOMAIN bk.orders \subseteq DOMAIN b.orders
    BY <1>2, CoversIds DEF Meets, RoundGood
  <2> QED  BY <1>1, <1>5, <2>1 DEF Meets, RoundGood, SameTerms
<1>7. sd \in Sides /\ sd # t.side /\ sd = oppositeSide(t.side) /\ t.side \in Sides
  BY <1>1, <1>6, OrderTyped, RestingOnSides DEF Meets
<1>8. PICK p : p = bk.side[sd].prices[1]
  OBVIOUS
<1>9. x = bk.side[sd].levels[p][1]
  BY <1>2, <1>8 DEF Meets
<1>10. /\ p \in DOMAIN bk.side[sd].levels /\ p \in Prices
       /\ 1 \in 1..Len(bk.side[sd].levels[p])
       /\ rests(x, sd, p) /\ x \in Resting(bk)
  BY <1>2, <1>7, <1>8, <1>9, BestFirst DEF Meets
<1>11. /\ x \in AnyOrder /\ x.side = sd /\ x.price = p /\ isBookable(x) /\ x.id # t.id
       /\ x.remaining \in Nat /\ x.remaining > 0 /\ p \in Nat
  <2>1. x \in AnyOrder /\ x.side = sd /\ x.price = p /\ isBookable(x)
    BY <1>10 DEF rests
  <2>2. x.id \in DOMAIN bk.orders
    BY <1>2, <1>10, RestingRests
  <2> QED  BY <1>6, <2>1, <2>2, OrderTyped DEF isBookable
<1>12. g = meetMaker(r, x)
  <2>1. g = nextMaker(r, bk.side[sd])
    BY <1>1, <1>2, <1>7 DEF Meets, applyRound, Stopped
  <2> QED  BY <1>2, <1>8, <1>9, <2>1 DEF Meets, nextMaker
<1>13. /\ e.taker = t /\ e.makers = r.makers /\ e.trades = r.trades
       /\ e.halted = r.halted /\ e.err = r.err
  BY <1>1 DEF Meets, SameRun
<1>14. TakerSays(o, r)
  BY DEF Meets
<1>15. /\ eligibleMaker(t, x) => h = tradeWith(e, x)
       /\ ~eligibleMaker(t, x) /\ isSelfTrade(t, x) /\ crossesPrice(t, x) =>
             h = [e EXCEPT !.taker.status = "expired", !.halted = yes]
       /\ ~crossesPrice(t, x) => h = e
  <2>1. ~e.err /\ ~e.halted /\ ~(e.taker.remaining <= 0)
    BY <1>5, <1>13
  <2> QED  BY <1>4, <1>13, <2>1 DEF matchMaker, eligibleMaker
<1>16. ASSUME g.book = bk, Stopped(g) PROVE HeadMet(r, g, sd, x)
  BY <1>2, <1>16 DEF HeadMet
<1>17. CASE eligibleMaker(t, x)
  <2>1. g = settleHead(tradeWith(r, x), sd, p)
    BY <1>1, <1>11, <1>12, <1>17 DEF meetMaker
  <2>2. PICK qty \in Nat : /\ qty = IF t.remaining <= x.remaining THEN t.remaining ELSE x.remaining
                           /\ qty <= t.remaining /\ qty <= x.remaining
    BY <1>5, <1>11
  <2>3. PICK quote \in Nat : quote = Mul(qty, p)
    BY <1>11, MulType
  <2>4. PICK trade : trade = [maker |-> x.id, taker |-> t.id, price |-> p, qty |-> qty, quote |-> quote]
    OBVIOUS
  <2>5. PICK t1 : t1 = filledBy(t, qty)
    OBVIOUS
  <2>6. PICK m1 : m1 = filledBy(x, qty)
    OBVIOUS
  <2>7. /\ t1 \in AnyOrder /\ SameTerms(t, t1) /\ t1.remaining = t.remaining - qty
        /\ t1.status = IF t.remaining = qty THEN "filled" ELSE "partially_filled"
        /\ m1 \in AnyOrder /\ SameTerms(x, m1) /\ m1.remaining = x.remaining - qty
        /\ m1.status = IF x.remaining = qty THEN "filled" ELSE "partially_filled"
    BY <1>11, <2>2, <2>5, <2>6, FillTyped
  <2>8. PICK u : u = [r EXCEPT !.taker = t1, !.makers = Append(@, m1), !.trades = Append(@, trade)]
    OBVIOUS
  <2>9. PICK v : v = [e EXCEPT !.taker = t1, !.makers = Append(@, m1), !.trades = Append(@, trade)]
    OBVIOUS
  <2>10. tradeWith(r, x) = IF quote <= 0 THEN [r EXCEPT !.err = yes] ELSE u
    BY <1>1, <1>4, <1>11, <2>2, <2>3, <2>4, <2>5, <2>6, <2>8 DEF tradeWith
  <2>11. h = IF quote <= 0 THEN [e EXCEPT !.err = yes] ELSE v
    <3>1. h = tradeWith(e, x)
      BY <1>15, <1>17
    <3> QED  BY <1>4, <1>11, <1>13, <2>2, <2>3, <2>4, <2>5, <2>6, <2>9, <3>1 DEF tradeWith
  <2>12. CASE quote <= 0
    <3>1. PICK k : k = [r EXCEPT !.err = yes]
      OBVIOUS
    <3>2. /\ k.taker = t /\ k.book = bk /\ k.makers = r.makers /\ k.trades = r.trades
          /\ k.halted = r.halted /\ k.err = yes
      BY <1>1, <1>2, <1>3, <3>1 DEF ApplyRun
    <3>3. g = k
      BY <1>4, <2>1, <2>10, <2>12, <3>1, <3>2 DEF settleHead
    <3>4. /\ h \in EngineRun /\ h.taker = t /\ h.makers = r.makers /\ h.trades = r.trades
          /\ h.halted = r.halted /\ h.err = yes
      BY <1>3, <1>4, <1>13, <2>11, <2>12 DEF EngineRun
    <3>5. TakerSays(o, g)
      BY <1>1, <1>14, <3>2, <3>3 DEF TakerSays
    <3>6. Stopped(g)
      BY <1>4, <3>2, <3>3 DEF Stopped
    <3> QED  BY <1>16, <3>2, <3>3, <3>4, <3>5, <3>6 DEF SameRun
  <2>13. CASE ~(quote <= 0)
    <3>1. PICK ms, ts : ms = r.makers /\ ts = r.trades /\ ms \in Seq(AnyOrder) /\ ts \in Seq(Trade)
      BY <1>3 DEF ApplyRun
    <3>2. trade \in Trade
      BY <1>1, <1>11, <2>2, <2>3, <2>4, OrderTyped DEF Trade
    <3>3. PICK ns, us : ns = Append(ms, m1) /\ us = Append(ts, trade)
      OBVIOUS
    <3>4. ns \in Seq(AnyOrder) /\ us \in Seq(Trade) /\ Last(ns) = m1 /\ us # <<>>
      BY <2>7, <3>1, <3>2, <3>3 DEF Last
    <3>5. u = [r EXCEPT !.taker = t1, !.makers = ns, !.trades = us]
      BY <1>3, <2>8, <3>1, <3>3 DEF ApplyRun
    <3>6. /\ u \in ApplyRun /\ u.taker = t1 /\ u.book = bk /\ u.makers = ns /\ u.trades = us
          /\ u.halted = r.halted /\ u.err = r.err /\ u.done = r.done
      BY <1>2, <1>3, <2>7, <3>4, <3>5 DEF ApplyRun
    <3>7. v = [e EXCEPT !.taker = t1, !.makers = ns, !.trades = us]
      BY <1>3, <1>13, <2>9, <3>1, <3>3 DEF EngineRun
    <3>8. /\ h \in EngineRun /\ h.taker = t1 /\ h.makers = ns /\ h.trades = us
          /\ h.halted = r.halted /\ h.err = r.err
      <4>1. h = v
        BY <2>11, <2>13
      <4> QED  BY <1>3, <1>13, <2>7, <3>4, <3>7, <4>1 DEF EngineRun
    <3>9. g = settleHead(u, sd, p)
      BY <2>1, <2>10, <2>13
    <3>10. u.err = FALSE
      BY <1>3, <1>5, <3>6 DEF ApplyRun
    <3>11. HeadFill(bk, u, sd, p, x, m1)
      <4>1. m1.status = "filled" \/ (m1.status = "partially_filled" /\ m1.remaining > 0)
        BY <1>11, <2>2, <2>7
      <4> QED  BY <1>2, <1>7, <1>9, <1>10, <2>7, <3>4, <3>6, <3>10, <4>1 DEF HeadFill
    <3>12. HeadFilled(bk, u, x, m1, g)
      BY <3>9, <3>11, SettleHeadGood
    <3>13. /\ g.taker = t1 /\ g.makers = ns /\ g.trades = us
           /\ g.halted = r.halted /\ g.err = FALSE /\ GoodBook(g.book)
           /\ Resting(g.book) = (Resting(bk) \ {x}) \cup {y \in {m1} : isBookable(y)}
      BY <3>6, <3>12 DEF HeadFilled
    <3>14. SameRun(h, g)
      BY <3>6, <3>8, <3>10, <3>13 DEF SameRun
    <3>15. TakerSays(o, g)
      <4>1. t1.status = statusForRemaining(t1.remaining)
        BY <1>5, <2>2, <2>7 DEF statusForRemaining
      <4> QED  BY <3>4, <3>13, <4>1 DEF TakerSays
    <3>16. /\ Entries(bk.side[sd]) = {y \in Resting(bk) : y.side = sd}
           /\ Entries(g.book.side[sd]) = {y \in Resting(g.book) : y.side = sd}
      BY <1>2, <1>7, <3>13, EntriesAre
    <3>17. Entries(bk.side[sd]) \ {x} \subseteq Entries(g.book.side[sd])
      BY <3>13, <3>16
    <3>18. CASE m1.status = "filled"
      <4>1. {y \in {m1} : isBookable(y)} = {}
        BY <3>18 DEF isBookable, OpenStatuses
      <4>2. Entries(g.book.side[sd]) = Entries(bk.side[sd]) \ {x}
        BY <3>13, <3>16, <4>1
      <4> QED  BY <1>2, <3>14, <3>15, <3>17, <4>2 DEF HeadMet
    <3>19. CASE m1.status # "filled"
      <4>1. t1.remaining <= 0
        BY <1>5, <1>11, <2>2, <2>7, <3>19
      <4>2. Stopped(g)
        BY <3>13, <4>1 DEF Stopped
      <4> QED  BY <1>2, <3>14, <3>15, <3>17, <4>2 DEF HeadMet
    <3> QED  BY <3>18, <3>19
  <2> QED  BY <2>12, <2>13
<1>18. CASE ~eligibleMaker(t, x) /\ isSelfTrade(t, x) /\ crossesPrice(t, x)
  <2>1. g = [r EXCEPT !.taker.status = "expired", !.halted = yes]
    BY <1>1, <1>4, <1>12, <1>18 DEF meetMaker
  <2>2. PICK t1 : t1 = [t EXCEPT !.status = "expired"]
    OBVIOUS
  <2>3. t1 \in AnyOrder
    BY <2>2 DEF AnyOrder
  <2>4. g = [r EXCEPT !.taker = t1, !.halted = yes]
    BY <1>1, <1>3, <2>1, <2>2 DEF ApplyRun
  <2>5. /\ g.taker = t1 /\ g.book = bk /\ g.makers = r.makers /\ g.trades = r.trades
        /\ g.halted = yes /\ g.err = r.err
    BY <1>2, <1>3, <2>4 DEF ApplyRun
  <2>6. h = [e EXCEPT !.taker = t1, !.halted = yes]
    BY <1>3, <1>13, <1>15, <1>18, <2>2 DEF EngineRun
  <2>7. /\ h \in EngineRun /\ h.taker = t1 /\ h.makers = r.makers /\ h.trades = r.trades
        /\ h.halted = yes /\ h.err = r.err
    BY <1>3, <1>4, <1>13, <2>3, <2>6 DEF EngineRun
  <2>8. TakerSays(o, g) /\ Stopped(g)
    BY <1>4, <2>5 DEF TakerSays, Stopped
  <2> QED  BY <1>16, <2>5, <2>7, <2>8 DEF SameRun
<1>19. CASE ~crossesPrice(t, x)
  <2>1. g = [r EXCEPT !.done = yes]
    BY <1>1, <1>4, <1>7, <1>11, <1>12, <1>19 DEF meetMaker, eligibleMaker
  <2>2. /\ g.taker = t /\ g.book = bk /\ g.makers = r.makers /\ g.trades = r.trades
        /\ g.halted = r.halted /\ g.err = r.err /\ g.done = yes
    BY <1>1, <1>2, <1>3, <2>1 DEF ApplyRun
  <2>3. h = e
    BY <1>15, <1>19
  <2>4. TakerSays(o, g) /\ Stopped(g)
    BY <1>1, <1>4, <1>14, <2>2 DEF TakerSays, Stopped
  <2> QED  BY <1>3, <1>13, <1>16, <2>2, <2>3, <2>4 DEF SameRun
<1> QED  BY <1>17, <1>18, <1>19 DEF eligibleMaker

\* After i rounds the engine, which has gone through i orders, is where the book is;
\* the other orders of the list are what the side of the book has.
InStep(b, o, r, e, sd, l, n, i) ==
    /\ RoundGood(b, o, r) /\ SameRun(e, r) /\ TakerSays(o, r)
    /\ \A j \in (i + 1)..n : l[j] \in Entries(r.book.side[sd])
    /\ Stopped(r) \/ Entries(r.book.side[sd]) = {l[j] : j \in (i + 1)..n}

\* The next order for both.
LEMMA RoundSame ==
    ASSUME NEW b, GoodBook(b), NEW o \in AnyOrder, NEW sd, sd = oppositeSide(o.side),
           NEW S, NEW l, NEW n, Prioritized(l, S, n), NEW i \in 1..n, NEW k \in Nat, i = k + 1,
           NEW r, NEW e, InStep(b, o, r, e, sd, l, n, k),
           NEW g, g = applyRound(r), NEW h, h = matchMaker(e, l[i])
    PROVE  InStep(b, o, g, h, sd, l, n, i)
<1>1. PICK x : x = l[i]
  OBVIOUS
<1>2. /\ RoundGood(b, o, r) /\ SameRun(e, r) /\ TakerSays(o, r)
      /\ \A j \in i..n : l[j] \in Entries(r.book.side[sd])
      /\ Stopped(r) \/ Entries(r.book.side[sd]) = {l[j] : j \in i..n}
  BY DEF InStep
<1>3. RoundGood(b, o, g) /\ (Stopped(r) => g = r)
  BY <1>2, RoundStep
<1>4. n \in Nat /\ i \in i..n /\ i \in Nat
  BY DEF Prioritized
<1>5. GoodBook(r.book) /\ o.side \in Sides /\ r.taker.side = o.side /\ r.taker \in AnyOrder
  BY <1>2, OrderTyped DEF RoundGood, SameTerms, ApplyRun
<1>6. sd \in Sides /\ sd # o.side
  BY <1>5, RestingOnSides
<1>7. Entries(r.book.side[sd]) = {y \in Resting(r.book) : y.side = sd}
  BY <1>5, <1>6, EntriesAre
<1>8. x \in Resting(r.book) /\ x.side = sd /\ x \in AnyOrder
  BY <1>1, <1>2, <1>4, <1>5, <1>7, RestingRests DEF rests
<1>9. \A j \in (i + 1)..n : j \in i..n /\ j \in 1..n /\ i < j
  BY <1>4
<1>10. CASE Stopped(r)
  <2>1. h = e
    <3>1. CASE r.err \/ r.halted \/ r.taker.remaining <= 0
      BY <1>2, <3>1 DEF SameRun, matchMaker
    <3>2. CASE r.done
      <4>1. IF o.side = "buy" THEN x.price > r.taker.price ELSE x.price < r.taker.price
        BY <1>2, <1>5, <1>6, <1>8, <3>2 DEF RoundGood, FacesNone
      <4>2. x.price \in Nat /\ r.taker.price \in Nat
        BY <1>5, <1>8, OrderTyped
      <4>3. ~crossesPrice(r.taker, x)
        BY <1>5, <4>1, <4>2 DEF crossesPrice
      <4> QED  BY <1>1, <1>2, <4>3 DEF SameRun, matchMaker, eligibleMaker
    <3> QED  BY <1>10, <3>1, <3>2 DEF Stopped
  <2> QED  BY <1>2, <1>3, <1>9, <1>10, <2>1 DEF InStep
<1>11. CASE ~Stopped(r)
  <2>1. PICK E : E = Entries(r.book.side[sd]) /\ E = {l[j] : j \in i..n}
    BY <1>2, <1>11
  <2>2. r.book.side[sd].prices # <<>>
    BY <1>5, <1>6, <1>8, NoPricesNoOrders
  <2>3. PICK p, y : p = r.book.side[sd].prices[1] /\ y = r.book.side[sd].levels[p][1]
    OBVIOUS
  <2>4. rests(y, sd, p) /\ y \in Resting(r.book)
    BY <1>5, <1>6, <2>2, <2>3, BestFirst
  <2>5. y \in E /\ y \in AnyOrder /\ y.side = sd
    BY <1>7, <2>1, <2>4 DEF rests
  <2>6. PICK j \in i..n : y = l[j]
    BY <2>1, <2>5
  <2>7. x = y
    <3>1. CASE j = i
      BY <1>1, <2>6, <3>1
    <3>2. CASE j # i
      <4>1. j \in 1..n /\ i < j
        BY <1>4, <3>2
      <4>2. x # y /\ ahead(x, y)
        BY <1>1, <2>6, <4>1 DEF Prioritized
      <4>3. x \in E
        BY <1>1, <1>4, <2>1
      <4>4. x = y \/ ahead(y, x)
        BY <1>5, <1>6, <2>1, <2>2, <2>3, <4>3, HeadIsAhead
      <4> QED  BY <1>8, <2>5, <4>2, <4>4, AheadIsStrict
    <3> QED  BY <3>1, <3>2
  <2>8. Meets(b, o, r, e, sd, x)
    BY <1>2, <1>11, <2>2, <2>3, <2>7 DEF Meets
  <2>9. SameRun(h, g) /\ TakerSays(o, g) /\ HeadMet(r, g, sd, x)
    BY <1>1, <2>8, MeetSame
  <2>10. \A z \in (i + 1)..n : l[z] \in E /\ l[z] # x
    BY <1>1, <1>9, <2>1 DEF Prioritized
  <2>11. E \ {x} = {l[z] : z \in (i + 1)..n}
    <3>1. \A z \in i..n : z = i \/ z \in (i + 1)..n
      BY <1>4
    <3> QED  BY <1>1, <2>1, <2>10, <3>1
  <2> QED  BY <1>3, <2>1, <2>9, <2>10, <2>11 DEF HeadMet, InStep
<1> QED  BY <1>10, <1>11

\* The rounds of the book when the engine is through with its list.
LEMMA RoundAfter ==
    ASSUME NEW b, GoodBook(b), NEW o \in AnyOrder, NEW sd, sd = oppositeSide(o.side),
           NEW l, NEW n \in Nat,
           NEW r, NEW e, InStep(b, o, r, e, sd, l, n, n), NEW g, g = applyRound(r)
    PROVE  InStep(b, o, g, e, sd, l, n, n)
<1>1. (n + 1)..n = {}
  OBVIOUS
<1>2. /\ RoundGood(b, o, r) /\ SameRun(e, r) /\ TakerSays(o, r)
      /\ Stopped(r) \/ Entries(r.book.side[sd]) = {}
  BY <1>1 DEF InStep
<1>3. RoundGood(b, o, g) /\ (Stopped(r) => g = r)
  BY <1>2, RoundStep
<1>4. CASE Stopped(r)
  BY <1>3, <1>4
<1>5. CASE ~Stopped(r)
  <2>1. GoodBook(r.book) /\ r.taker.side = o.side /\ sd \in Sides /\ r \in ApplyRun
    BY <1>2, OrderTyped, RestingOnSides DEF RoundGood, SameTerms
  <2>2. r.book.side[sd].prices = <<>>
    <3>1. SUFFICES ASSUME r.book.side[sd].prices # <<>> PROVE FALSE
      OBVIOUS
    <3>2. PICK y, p : rests(y, sd, p) /\ y \in Resting(r.book)
      BY <2>1, <3>1, BestFirst
    <3>3. y \in Entries(r.book.side[sd])
      BY <2>1, <3>2, EntriesAre DEF rests
    <3> QED  BY <1>2, <1>5, <3>3
  <2>3. PICK yes : yes = TRUE
    BY Zenon
  <2>4. g = [r EXCEPT !.done = yes]
    BY <1>5, <2>1, <2>2, <2>3 DEF applyRound, nextMaker, Stopped
  <2>5. /\ g.taker = r.taker /\ g.makers = r.makers /\ g.trades = r.trades
        /\ g.halted = r.halted /\ g.err = r.err /\ g.done = yes
    BY <2>1, <2>4 DEF ApplyRun
  <2>6. Stopped(g)
    BY <2>3, <2>5 DEF Stopped
  <2>7. SameRun(e, g)
    BY <1>2, <2>5 DEF SameRun
  <2>8. TakerSays(o, g)
    BY <1>2, <2>5 DEF TakerSays
  <2> QED  BY <1>1, <1>3, <2>6, <2>7, <2>8 DEF InStep
<1> QED  BY <1>4, <1>5

engineStep(c, e, x) == matchMaker(e, x)

Engines == INSTANCE FoldLemmas WITH step <- engineStep, Good <- noClaim

\* The start of MatchLimit.
engineStart(o) == [taker |-> o, makers |-> <<>>, trades |-> <<>>,
                   halted |-> FALSE, err |-> ~validTaker(o)]

\* Both start alike.
LEMMA StartSame ==
    ASSUME NEW b, GoodBook(b), NEW o \in AnyOrder, o.id \notin DOMAIN b.orders,
           NEW sd, sd = oppositeSide(o.side),
           NEW l, NEW n, Prioritized(l, Entries(b.side[sd]), n),
           NEW r, r = applyStart(b, o), NEW e, e = engineStart(o)
    PROVE  InStep(b, o, r, e, sd, l, n, 0)
<1>12. AtStart(b, o, r)
  BY StartGood
<1>1. /\ RoundGood(b, o, r)
      /\ r.taker = o /\ r.book = b /\ r.makers = <<>> /\ r.trades = <<>>
      /\ r.halted = FALSE
  BY <1>12 DEF AtStart
<1>11. r.err = (o.id \in DOMAIN b.orders \/ ~validTaker(o))
  BY <1>12, Zenon DEF AtStart
<1>2. PICK bad : /\ bad = ~validTaker(o) /\ bad \in BOOLEAN
                 /\ bad = (o.id \in DOMAIN b.orders \/ ~validTaker(o))
  BY Zenon
<1>10. r.err = bad
  BY <1>2, <1>11, Zenon
<1>3. e = [taker |-> o, makers |-> <<>>, trades |-> <<>>, halted |-> FALSE, err |-> bad]
  BY <1>2 DEF engineStart
<1>4. e \in EngineRun
  BY <1>2, <1>3 DEF EngineRun
<1>5. SameRun(e, r)
  <2>1. e.taker = o /\ e.makers = <<>> /\ e.trades = <<>> /\ e.halted = FALSE /\ e.err = bad
    BY <1>3
  <2>2. e.err = r.err /\ e.halted = r.halted
    BY <1>1, <1>10, <2>1
  <2> QED  BY <1>1, <1>4, <2>1, <2>2 DEF SameRun
<1>6. TakerSays(o, r)
  BY <1>1 DEF TakerSays
<1>7. n \in Nat /\ DOMAIN l = 1..n /\ Range(l) = Entries(b.side[sd])
  BY DEF Prioritized
<1>8. (0 + 1)..n = 1..n
  OBVIOUS
<1>9. Entries(r.book.side[sd]) = {l[j] : j \in 1..n}
  BY <1>1, <1>7 DEF Range
<1> QED  BY <1>1, <1>5, <1>6, <1>8, <1>9 DEF InStep

\* The rounds of the book and the loop of the engine end alike.
LEMMA RunsSame ==
    ASSUME NEW b, GoodBook(b), NEW o \in AnyOrder, o.id \notin DOMAIN b.orders,
           NEW sd, sd = oppositeSide(o.side),
           NEW l, l = inPriority(Entries(b.side[sd])),
           NEW r, r = Rounds!FoldFrom(0, applyStart(b, o), applyList(b)),
           NEW e, e = Engines!FoldFrom(0, engineStart(o), l)
    PROVE  RoundGood(b, o, r) /\ Stopped(r) /\ SameRun(e, r) /\ TakerSays(o, r)
<1>1. RoundGood(b, o, r) /\ Stopped(r)
  BY RoundsEnd
<1>2. sd \in Sides
  BY OrderTyped, RestingOnSides
<1>3. PICK S : S = Entries(b.side[sd])
  OBVIOUS
<1>4. PICK N \in Nat : N = Cardinality(DOMAIN b.orders)
  BY IndexFinite
<1>5. PICK n : n = Cardinality(S) /\ Prioritized(l, S, n) /\ n <= N
  BY <1>2, <1>3, <1>4, SideFewer
<1>6. n \in Nat /\ DOMAIN l = 1..n
  BY <1>5 DEF Prioritized
<1>7. PICK m \in Nat : m = N + 1 /\ n < m
  BY <1>4, <1>5, <1>6
<1>8. PICK w : w = applyList(b)
  OBVIOUS
<1>9. DOMAIN w = 1..m
  BY <1>4, <1>7, <1>8 DEF applyList
<1>10. PICK acc : Rounds!AreValues(acc, 0, applyStart(b, o), w, m)
  BY <1>9, Rounds!FoldLeftSteps
<1>11. /\ acc[0] = applyStart(b, o) /\ acc[m] = r
       /\ \A i \in 1..m : acc[i] = applyRound(acc[i - 1])
  BY <1>8, <1>10 DEF Rounds!AreValues, applyStep
<1>12. PICK ecc : Engines!AreValues(ecc, 0, engineStart(o), l, n)
  BY <1>6, Engines!FoldLeftSteps
<1>13. /\ ecc[0] = engineStart(o) /\ ecc[n] = e
       /\ \A i \in 1..n : ecc[i] = matchMaker(ecc[i - 1], l[i])
  BY <1>12 DEF Engines!AreValues, engineStep
<1> DEFINE J(i, k) == InStep(b, o, acc[i], ecc[k], sd, l, n, k)
           K == {i \in 0..m : IF i <= n THEN J(i, i) ELSE J(i, n)}
<1>14. J(0, 0)
  BY <1>3, <1>5, <1>11, <1>13, StartSame
<1>15. ASSUME NEW i \in 1..n, NEW k \in Nat, i = k + 1, J(k, k) PROVE J(i, i)
  <2>1. k = i - 1 /\ i \in 1..m
    BY <1>6, <1>7, <1>15
  <2>2. acc[i] = applyRound(acc[k])
    BY <1>11, <2>1
  <2>3. ecc[i] = matchMaker(ecc[k], l[i])
    BY <1>13, <2>1
  <2> QED  BY <1>5, <1>15, <2>2, <2>3, RoundSame
<1>16. ASSUME NEW i \in 1..m, NEW k \in Nat, i = k + 1, J(k, n) PROVE J(i, n)
  <2>1. k = i - 1
    BY <1>16
  <2>2. acc[i] = applyRound(acc[k])
    BY <1>11, <2>1
  <2> QED  BY <1>6, <1>16, <2>2, RoundAfter
<1> HIDE DEF J
<1>17. 0 \in K
  BY <1>6, <1>7, <1>14
<1>18. ASSUME NEW i \in 1..m, i - 1 \in K PROVE i \in K
  <2>1. PICK k \in Nat : k = i - 1 /\ i = k + 1 /\ i \in 0..m /\ k \in K
    BY <1>18
  <2>2. IF k <= n THEN J(k, k) ELSE J(k, n)
    BY <2>1
  <2>3. CASE i <= n
    <3>1. i \in 1..n /\ k <= n
      BY <1>6, <2>1, <2>3
    <3>2. J(i, i)
      BY <1>15, <2>1, <2>2, <3>1
    <3> QED  BY <2>1, <2>3, <3>2
  <2>4. CASE ~(i <= n)
    <3>1. J(k, n)
      <4>1. CASE k <= n
        <5>1. k = n
          BY <1>6, <2>1, <2>4, <4>1
        <5> QED  BY <2>2, <4>1, <5>1
      <4>2. CASE ~(k <= n)
        BY <2>2, <4>2
      <4> QED  BY <4>1, <4>2
    <3>2. J(i, n)
      BY <1>16, <2>1, <3>1
    <3> QED  BY <2>1, <2>4, <3>2
  <2> QED  BY <2>3, <2>4
<1>19. m \in K
  <2> HIDE DEF K
  <2> QED  BY <1>17, <1>18, Loads!CountTo
<1>20. J(m, n)
  BY <1>6, <1>7, <1>19
<1> QED  BY <1>1, <1>11, <1>13, <1>20 DEF J, InStep

\* What the book makes of the taker is what the order service makes of it.
LEMMA FinishSame ==
    ASSUME NEW b, GoodBook(b), NEW o \in AnyOrder,
           o.status \in {"open", "pending_stop"}, o.remaining > 0,
           NEW r, RoundGood(b, o, r), NEW e, SameRun(e, r), TakerSays(o, r),
           NEW f, f = finishApply(r), NEW h, h = [e EXCEPT !.taker = restingTaker(@)]
    PROVE  sameMatch(f, h)
<1>1. PICK t \in AnyOrder : t = r.taker /\ t = e.taker
  BY DEF RoundGood, ApplyRun, SameRun
<1>2. r \in ApplyRun /\ e \in EngineRun
  BY DEF RoundGood, SameRun
<1>3. /\ e.makers = r.makers /\ e.trades = r.trades /\ e.halted = r.halted /\ e.err = r.err
  BY DEF SameRun
<1>4. t.remaining \in Nat
  BY OrderTyped
<1>5. PICK t2 : t2 = restingTaker(t)
  OBVIOUS
<1>6. /\ h.taker = t2 /\ h.makers = r.makers /\ h.trades = r.trades /\ h.err = r.err
  BY <1>1, <1>2, <1>3, <1>5 DEF EngineRun
<1>7. SUFFICES ASSUME ~r.err
               PROVE  f.err = r.err /\ f.trades = r.trades /\ f.makers = r.makers
                      /\ f.taker = engineTaker(t2)
  <2>1. CASE r.err
    <3>1. f = r
      BY <2>1 DEF finishApply
    <3> QED  BY <1>6, <2>1, <3>1 DEF sameMatch
  <2>2. CASE ~r.err
    BY <1>6, <1>7, <2>2 DEF sameMatch
  <2> QED  BY <2>1, <2>2
<1>8. ASSUME NEW st, st \in {"open", "partially_filled", "filled", "expired"},
             f = [r EXCEPT !.taker.status = st], engineTaker(t2) = [t EXCEPT !.status = st]
      PROVE  f.err = r.err /\ f.trades = r.trades /\ f.makers = r.makers
             /\ f.taker = engineTaker(t2)
  <2>1. PICK t1 : t1 = [t EXCEPT !.status = st]
    OBVIOUS
  <2>2. f = [r EXCEPT !.taker = t1]
    BY <1>1, <1>2, <1>8, <2>1 DEF ApplyRun
  <2> QED  BY <1>2, <1>8, <2>1, <2>2 DEF ApplyRun
<1>9. ASSUME NEW st, st \in {"open", "partially_filled"},
             f = [r EXCEPT !.taker.status = st,
                           !.book = insertResting(@, [r.taker EXCEPT !.status = st])],
             engineTaker(t2) = [t EXCEPT !.status = st]
      PROVE  f.err = r.err /\ f.trades = r.trades /\ f.makers = r.makers
             /\ f.taker = engineTaker(t2)
  <2>1. PICK t1 : t1 = [t EXCEPT !.status = st]
    OBVIOUS
  <2>2. PICK c : c = insertResting(r.book, t1)
    OBVIOUS
  <2>3. f = [r EXCEPT !.taker = t1, !.book = c]
    BY <1>1, <1>2, <1>9, <2>1, <2>2 DEF ApplyRun
  <2> QED  BY <1>2, <1>9, <2>1, <2>3 DEF ApplyRun
<1>10. t \in [id : OrderIds, user : Users, side : Sides,
              type : {"limit", "market", "stop_limit"}, tif : {"gtc", "ioc"},
              status : {"none", "pending_match", "pending_stop", "open", "partially_filled",
                        "filled", "canceled", "expired"},
              price : Nat \ {0}, stop : Nat, filled : Nat, remaining : Nat]
  BY DEF AnyOrder
<1>11. CASE r.halted
  <2>1. f = r
    BY <1>11 DEF finishApply
  <2>2. t.status = "expired"
    BY <1>1, <1>11 DEF RoundGood
  <2>3. t2 = t
    BY <1>5, <2>2 DEF restingTaker
  <2>4. engineTaker(t2) = t
    <3>1. [t EXCEPT !.status = "expired"] = t
      BY <1>10, <2>2
    <3> QED  BY <2>3, <3>1 DEF engineTaker
  <2> QED  BY <1>1, <2>1, <2>4
<1>12. CASE ~r.halted /\ t.remaining <= 0
  <2>1. f = [r EXCEPT !.taker.status = "filled"]
    BY <1>1, <1>7, <1>12 DEF finishApply
  <2>2. t.status = "filled"
    <3>1. r.trades # <<>>
      <4>1. o.remaining \in Nat /\ ~(o.remaining <= 0)
        BY OrderTyped
      <4>2. t # o
        BY <1>12, <4>1
      <4> QED  BY <1>1, <1>12, <4>2 DEF TakerSays
    <3> QED  BY <1>1, <1>12, <3>1 DEF TakerSays, statusForRemaining
  <2>3. t2 = t /\ engineTaker(t2) = t
    BY <1>4, <1>5, <1>12 DEF restingTaker, engineTaker
  <2>4. [t EXCEPT !.status = "filled"] = t
    BY <1>10, <2>2
  <2> QED  BY <1>8, <2>1, <2>3, <2>4
<1>13. CASE ~r.halted /\ ~(t.remaining <= 0)
  <2>1. t.remaining > 0
    BY <1>4, <1>13
  <2>2. /\ r.trades = <<>> => t.status \in {"open", "pending_stop"}
        /\ r.trades # <<>> => t.status = "partially_filled"
    BY <1>1, <1>13 DEF TakerSays, statusForRemaining
  <2>3. PICK st : /\ st = (IF r.trades = <<>> THEN "open" ELSE "partially_filled")
                  /\ st \in {"open", "partially_filled"}
    OBVIOUS
  <2>4. t2 = [t EXCEPT !.status = st]
    <3>1. CASE r.trades = <<>>
      BY <1>5, <2>1, <2>2, <2>3, <3>1 DEF restingTaker
    <3>2. CASE r.trades # <<>>
      <4>1. t2 = t
        BY <1>5, <2>2, <3>2 DEF restingTaker
      <4>2. [t EXCEPT !.status = st] = t
        BY <1>10, <2>2, <2>3, <3>2
      <4> QED  BY <4>1, <4>2
    <3> QED  BY <3>1, <3>2
  <2>5. t2.remaining > 0 /\ (isImmediateOnlyBookOrder(t2) <=> isImmediateOnlyBookOrder(t))
    BY <1>10, <2>1, <2>4 DEF isImmediateOnlyBookOrder
  <2>6. CASE isImmediateOnlyBookOrder(t)
    <3>1. f = [r EXCEPT !.taker.status = "expired"]
      BY <1>1, <1>7, <1>13, <2>6 DEF finishApply
    <3>2. engineTaker(t2) = [t2 EXCEPT !.status = "expired"]
      BY <2>5, <2>6 DEF engineTaker
    <3>3. [t2 EXCEPT !.status = "expired"] = [t EXCEPT !.status = "expired"]
      BY <1>10, <2>4
    <3> QED  BY <1>8, <3>1, <3>2, <3>3
  <2>7. CASE ~isImmediateOnlyBookOrder(t)
    <3>1. engineTaker(t2) = t2
      BY <2>5, <2>7 DEF engineTaker
    <3>2. f = [r EXCEPT !.taker.status = st,
                        !.book = insertResting(@, [r.taker EXCEPT !.status = st])]
      BY <1>1, <1>7, <1>13, <2>3, <2>7 DEF finishApply
    <3> QED  BY <1>9, <2>3, <2>4, <3>1, <3>2
  <2> QED  BY <2>6, <2>7
<1> QED  BY <1>11, <1>12, <1>13

\* An order that is not in the book meets the same fate in both.
LEMMA MatchesSame ==
    ASSUME NEW b, GoodBook(b), NEW o \in AnyOrder, o.id \notin DOMAIN b.orders,
           o.status \in {"open", "pending_stop"}, o.remaining > 0,
           NEW l, l = inPriority(Entries(b.side[oppositeSide(o.side)]))
    PROVE  sameMatch(Apply(b, o), MatchLimit(o, l))
<1>1. PICK m : m = Rounds!FoldFrom(0, applyStart(b, o), applyList(b))
  OBVIOUS
<1>2. PICK e : e = Engines!FoldFrom(0, engineStart(o), l)
  OBVIOUS
<1>3. RoundGood(b, o, m) /\ SameRun(e, m) /\ TakerSays(o, m)
  BY <1>1, <1>2, RunsSame
<1>4. FoldLeft(LAMBDA r, i : applyRound(r), applyStart(b, o), applyList(b)) = m
  BY <1>1 DEF Rounds!FoldFrom, Rounds!FoldLeft, Rounds!MapThenFoldSet, Rounds!Max,
     FoldLeft, MapThenFoldSet, Max, applyStep
<1>5. Apply(b, o) = finishApply(m)
  BY <1>4 DEF Apply, applyStart, applyList
<1>6. FoldLeft(matchMaker, engineStart(o), l) = e
  BY <1>2 DEF Engines!FoldFrom, Engines!FoldLeft, Engines!MapThenFoldSet, Engines!Max,
     FoldLeft, MapThenFoldSet, Max, engineStep
<1>7. MatchLimit(o, l) = [e EXCEPT !.taker = restingTaker(@)]
  BY <1>6 DEF MatchLimit, engineStart
<1> QED  BY <1>3, <1>5, <1>7, FinishSame

\* Whatever order is not yet applied.
LEMMA InvAgrees == ReplayInv => AgreesWithEngine
<1> SUFFICES ASSUME ReplayInv, NEW t \in Takers, t.id \notin applied
             PROVE  sameMatch(Apply(book, t), engineResult(t))
  BY DEF AgreesWithEngine
<1>1. GoodBook(book) /\ t.id \notin DOMAIN book.orders
  BY DEF ReplayInv
<1>2. t \in AnyOrder
  BY TakersAreOrders
<1>3. t.status \in {"open", "pending_stop"} /\ t.remaining > 0
  <2>1. t \in Taker
    BY MarketBookAssumption
  <2> QED  BY <2>1 DEF Taker
<1>4. PICK sd \in Sides : sd = oppositeSide(t.side)
  BY <1>2, OrderTyped, RestingOnSides
<1>5. inSide(book.side[sd]) = Entries(book.side[sd])
  BY <1>1, QueuedOnSide DEF GoodBook
<1>6. engineResult(t) = MatchLimit(t, inPriority(Entries(book.side[sd])))
  BY <1>4, <1>5 DEF engineResult
<1> QED  BY <1>1, <1>2, <1>3, <1>4, <1>6, MatchesSame

\* Whatever was applied, canceled or restored before, an order that comes now makes
\* the same trades with the same makers and leaves the same rest in the book of queues
\* as in the engine that goes through a sorted list of the other side.
THEOREM BookMatchesLikeEngine == ReplaySpec => []AgreesWithEngine
<1>1. ReplaySpec => []ReplayInv
  BY ReplayInvariant
<1> QED  BY <1>1, InvAgrees, PTL

=============================================================================
