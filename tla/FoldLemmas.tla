----------------------------- MODULE FoldLemmas -----------------------------
(***************************************************************************)
(* Induction over a fold.  FoldLeft is defined by a function on the sets   *)
(* of places of a list; what is shown here is that it does what a loop     *)
(* does: it starts with the base, takes one element after the other, and   *)
(* keeps whatever every step keeps.  A proof about a particular loop       *)
(* instantiates the module with the body of the loop and the claim.        *)
(***************************************************************************)
EXTENDS SequencesExt, WellFoundedInduction, TLAPS

CONSTANTS
    step(_, _, _), \* context, accumulated value, element -> the next value
    Good(_, _)     \* what is claimed of a value, in a context

\* The value after the elements of a list, in order.
FoldFrom(c, base, s) == FoldLeft(LAMBDA x, y : step(c, x, y), base, s)

\* A non-empty set of natural numbers has a least one.
LEMMA LeastNumber ==
    ASSUME NEW S \in SUBSET Nat, S # {}
    PROVE  \E m \in S : \A k \in S : m <= k
<1>1. PICK R : R = OpToRel(<, Nat)
  OBVIOUS
<1>2. IsWellFoundedOn(R, Nat)
  BY <1>1, NatLessThanWellFounded
<1>3. PICK m \in S : \A y \in S : <<y, m>> \notin R
  BY <1>2, WFMin
<1>4. \A x, y \in Nat : x < y => <<x, y>> \in R
  BY <1>1 DEF OpToRel
<1>5. ASSUME NEW k \in S PROVE m <= k
  <2>1. k \in Nat /\ m \in Nat /\ <<k, m>> \notin R
    BY <1>3
  <2>2. ~(k < m)
    BY <1>4, <2>1
  <2> QED  BY <2>1, <2>2
<1> QED  BY <1>5

\* A non-empty set of places of a list has a last one.
LEMMA LastPlace ==
    ASSUME NEW n \in Nat, NEW S \in SUBSET (1..n), S # {}
    PROVE  Max(S) \in S /\ \A k \in S : k <= Max(S)
<1> DEFINE D == {k \in Nat : n - k \in S}
<1>1. D # {}
  <2>1. PICK k \in S : TRUE
    OBVIOUS
  <2>2. n - k \in Nat /\ n - (n - k) = k
    BY <2>1
  <2> QED  BY <2>1, <2>2
<1>2. PICK m \in D : \A k \in D : m <= k
  BY <1>1, LeastNumber
<1>3. n - m \in S
  BY <1>2
<1>4. ASSUME NEW k \in S PROVE n - m >= k
  <2>1. k \in 1..n /\ n - k \in Nat /\ n - (n - k) = k
    BY <1>4
  <2>2. m <= n - k
    BY <1>2, <2>1
  <2> QED  BY <1>2, <2>1, <2>2
<1>5. \E x \in S : \A y \in S : x >= y
  BY <1>3, <1>4
<1>6. Max(S) \in S /\ \A y \in S : Max(S) >= y
  BY <1>5 DEF Max
<1> QED  BY <1>6

\* The function by which the fold is defined.
IsIter(g, c, base, s, n) ==
    g = [t \in SUBSET (1..n) |->
            IF t = {} THEN base ELSE step(c, g[t \ {Max(t)}], s[Max(t)])]

\* It exists: the loop of n elements is that of n - 1 and a last step.
LEMMA IterExists ==
    ASSUME NEW c, NEW base, NEW s
    PROVE  \A n \in Nat : \E g : IsIter(g, c, base, s, n)
<1> DEFINE Bad == {n \in Nat : ~\E g : IsIter(g, c, base, s, n)}
<1>1. SUFFICES ASSUME Bad # {} PROVE FALSE
  OBVIOUS
<1>2. PICK m \in Bad : \A k \in Bad : m <= k
  BY <1>1, LeastNumber
<1>3. m # 0
  <2> SUFFICES ASSUME m = 0 PROVE FALSE
    OBVIOUS
  <2>1. IsIter([t \in SUBSET (1..0) |-> base], c, base, s, 0)
    <3>1. \A t \in SUBSET (1..0) : t = {}
      OBVIOUS
    <3> QED BY <3>1 DEF IsIter
  <2> QED  BY <1>2, <2>1
<1>4. PICK n \in Nat : m = n + 1
  <2>1. m - 1 \in Nat /\ m = (m - 1) + 1
    BY <1>2, <1>3
  <2> QED  BY <2>1
<1>5. PICK g : IsIter(g, c, base, s, n)
  BY <1>2, <1>4
<1> DEFINE h == [t \in SUBSET (1..m) |->
                    IF m \in t THEN step(c, g[t \ {m}], s[m]) ELSE g[t]]
<1>6. ASSUME NEW t \in SUBSET (1..m)
      PROVE  h[t] = IF t = {} THEN base ELSE step(c, h[t \ {Max(t)}], s[Max(t)])
  <2>1. CASE m \in t
    <3>1. Max(t) = m
      <4>1. m \in Nat /\ t # {}
        BY <1>2, <2>1
      <4>2. Max(t) \in t /\ \A k \in t : k <= Max(t)
        BY <1>6, <4>1, LastPlace
      <4>3. Max(t) \in 1..m /\ m <= Max(t)
        BY <1>6, <2>1, <4>2
      <4> QED  BY <4>1, <4>3
    <3>2. t \ {m} \in SUBSET (1..m) /\ m \notin t \ {m}
      BY <1>6
    <3>3. h[t \ {m}] = g[t \ {m}]
      BY <3>2
    <3> QED  BY <2>1, <3>1, <3>3
  <2>2. CASE m \notin t
    <3>1. t \in SUBSET (1..n) /\ h[t] = g[t]
      BY <1>4, <1>6, <2>2
    <3>2. CASE t = {}
      BY <1>5, <3>1, <3>2 DEF IsIter
    <3>3. CASE t # {}
      <4>1. Max(t) \in t
        BY <3>1, <3>3, LastPlace
      <4>2. t \ {Max(t)} \in SUBSET (1..m) /\ m \notin t \ {Max(t)}
        BY <1>6, <2>2
      <4>3. h[t \ {Max(t)}] = g[t \ {Max(t)}]
        BY <4>2
      <4>4. g[t] = step(c, g[t \ {Max(t)}], s[Max(t)])
        BY <1>5, <3>1, <3>3 DEF IsIter
      <4> QED  BY <3>1, <3>3, <4>3, <4>4
    <3> QED  BY <3>2, <3>3
  <2> QED  BY <2>1, <2>2
<1>7. IsIter(h, c, base, s, m)
  BY <1>6 DEF IsIter
<1> QED  BY <1>2, <1>7

\* acc has the values of the loop, from the base to the result.
AreValues(acc, c, base, s, n) ==
    /\ acc[0] = base
    /\ \A i \in 1..n : acc[i] = step(c, acc[i - 1], s[i])
    /\ FoldFrom(c, base, s) = acc[n]

\* A fold over a list of any length goes through such values.
LEMMA FoldLeftSteps ==
    ASSUME NEW c, NEW base, NEW s, NEW n \in Nat, DOMAIN s = 1..n
    PROVE  \E acc : AreValues(acc, c, base, s, n)
<1> DEFINE it == CHOOSE g : IsIter(g, c, base, s, n)
<1>1. IsIter(it, c, base, s, n)
  BY IterExists
<1>2. FoldFrom(c, base, s) = it[1..n]
  BY DEF FoldFrom, FoldLeft, MapThenFoldSet, IsIter
<1> DEFINE acc == [i \in 0..n |-> it[1..i]]
<1>3. acc[0] = base
  <2>1. 1..0 = {} /\ 1..0 \in SUBSET (1..n)
    OBVIOUS
  <2>2. it[{}] = base
    <3>1. {} \in SUBSET (1..n)
      OBVIOUS
    <3> QED BY <1>1, <3>1 DEF IsIter
  <2>3. acc[0] = it[1..0]
    OBVIOUS
  <2> QED BY <2>1, <2>2, <2>3
<1>4. ASSUME NEW i \in 1..n PROVE acc[i] = step(c, acc[i - 1], s[i])
  <2>1. (1..i) # {} /\ 1..i \in SUBSET (1..n)
    OBVIOUS
  <2>2. Max(1..i) = i
    <3>3. PICK T : T = 1..i
      OBVIOUS
    <3>4. T # {} /\ T \in SUBSET (1..n)
      BY <2>1, <3>3
    <3>5. Max(T) \in T /\ \A k \in T : k <= Max(T)
      BY <3>4, LastPlace
    <3>1. /\ i \in 1..i
          /\ Max(1..i) \in 1..i
          /\ \A k \in 1..i : k <= Max(1..i)
      BY <3>3, <3>5
    <3>2. i <= Max(1..i)
      BY <3>1
    <3> QED BY <3>1, <3>2
  <2>3. (1..i) \ {i} = 1..(i - 1)
    OBVIOUS
  <2>4. it[1..i] = step(c, it[1..(i - 1)], s[i])
    <3>1. it[1..i] = step(c, it[(1..i) \ {Max(1..i)}], s[Max(1..i)])
      BY <1>1, <2>1 DEF IsIter
    <3> QED BY <2>2, <2>3, <3>1
  <2>5. i \in 0..n /\ i - 1 \in 0..n
    OBVIOUS
  <2>6. acc[i] = it[1..i] /\ acc[i - 1] = it[1..(i - 1)]
    BY <2>5
  <2> QED BY <2>4, <2>6
<1>5. acc[n] = it[1..n]
  OBVIOUS
<1>6. FoldFrom(c, base, s) = acc[n]
  BY <1>2, <1>5
<1> HIDE DEF it, acc
<1> QED  BY <1>3, <1>4, <1>6 DEF AreValues

\* A claim about each place of a loop, from the start to the last.
LEMMA CountTo ==
    ASSUME NEW n \in Nat, NEW K, 0 \in K, \A i \in 1..n : i - 1 \in K => i \in K
    PROVE  n \in K
<1> DEFINE Bad == {i \in 0..n : i \notin K}
<1>1. SUFFICES ASSUME Bad # {} PROVE FALSE
  OBVIOUS
<1>2. PICK m \in Bad : \A k \in Bad : m <= k
  <2>1. Bad \in SUBSET Nat
    OBVIOUS
  <2> QED  BY <1>1, <2>1, LeastNumber
<1>3. m \in 1..n /\ m - 1 \in 0..n /\ ~(m <= m - 1)
  BY <1>2
<1>4. m - 1 \in K
  BY <1>2, <1>3
<1> QED  BY <1>2, <1>3, <1>4

\* A loop over one more element takes one more step.
LEMMA FoldLeftAppend ==
    ASSUME NEW c, NEW base, NEW n \in Nat, NEW s, DOMAIN s = 1..n,
           NEW t, DOMAIN t = 1..(n + 1), \A i \in 1..n : t[i] = s[i]
    PROVE  FoldFrom(c, base, t) = step(c, FoldFrom(c, base, s), t[n + 1])
<1>1. PICK acc : AreValues(acc, c, base, s, n)
  BY FoldLeftSteps
<1>2. PICK m \in Nat : m = n + 1
  OBVIOUS
<1>3. PICK bcc : AreValues(bcc, c, base, t, m)
  BY <1>2, FoldLeftSteps
<1> DEFINE K == {i \in 0..n : acc[i] = bcc[i]}
<1>4. 0 \in K
  BY <1>1, <1>3 DEF AreValues
<1>5. ASSUME NEW i \in 1..n, i - 1 \in K PROVE i \in K
  <2>1. acc[i] = step(c, acc[i - 1], s[i])
    BY <1>1 DEF AreValues
  <2>2. i \in 1..m
    BY <1>2
  <2>3. bcc[i] = step(c, bcc[i - 1], t[i])
    BY <1>3, <2>2 DEF AreValues
  <2> QED  BY <1>5, <2>1, <2>3
<1>6. n \in K
  <2> HIDE DEF K
  <2> QED  BY <1>4, <1>5, CountTo
<1>7. m \in 1..m /\ m - 1 = n
  BY <1>2
<1>8. bcc[m] = step(c, bcc[n], t[m])
  BY <1>3, <1>7 DEF AreValues
<1> QED  BY <1>1, <1>2, <1>3, <1>6, <1>8 DEF AreValues

\* What holds of the start and is kept by every step holds of the result.
LEMMA FoldKeeps ==
    ASSUME NEW c, NEW d, NEW base, NEW s, NEW n \in Nat, DOMAIN s = 1..n,
           Good(d, base),
           \A x : \A i \in 1..n : Good(d, x) => Good(d, step(c, x, s[i]))
    PROVE  Good(d, FoldFrom(c, base, s))
<1>1. PICK acc : AreValues(acc, c, base, s, n)
  BY FoldLeftSteps
<1> DEFINE Bad == {i \in 0..n : ~Good(d, acc[i])}
<1>2. SUFFICES ASSUME Bad # {} PROVE FALSE
  BY <1>1 DEF AreValues
<1>3. PICK m \in Bad : \A k \in Bad : m <= k
  <2>1. Bad \in SUBSET Nat
    OBVIOUS
  <2> QED BY <1>2, <2>1, LeastNumber
<1>4. m # 0
  BY <1>1 DEF AreValues
<1>5. m \in 1..n /\ m - 1 \in 0..n /\ ~(m <= m - 1)
  BY <1>3, <1>4
<1>6. Good(d, acc[m - 1])
  BY <1>3, <1>5
<1>7. Good(d, acc[m])
  BY <1>1, <1>5, <1>6 DEF AreValues
<1> QED  BY <1>3, <1>7

=============================================================================
