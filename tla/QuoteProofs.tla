---------------------------- MODULE QuoteProofs ----------------------------
(***************************************************************************)
(* What the API answers from the pool table, for any venues, pools,        *)
(* registry and requests, however the chain and the table move.            *)
(***************************************************************************)
EXTENDS Swap, Pricing, FiniteSetTheorems, WellFoundedInduction, TLAPS

-----------------------------------------------------------------------------
(***************************************************************************)
(* Swaps: a quote is what the venue would pay, and a swap pays no less     *)
(* than the bound of its quote.                                            *)
(***************************************************************************)

SwapSpec == SwapInit /\ [][SwapNext]_swapVars

-----------------------------------------------------------------------------
(* Amounts.                                                                *)

\* The quotient of two numbers (\div of constantProductOut and MinOut).
LEMMA Quotient ==
    ASSUME NEW n \in Nat, NEW d \in Nat \ {0}
    PROVE  /\ n \div d \in Nat
           /\ d * (n \div d) <= n
           /\ n < d * (n \div d + 1)
OBVIOUS

\* What keeps the product of the reserves is what the formula allows: b is the reserve paid
\* into, d the payment without the fee, both times Bps.
LEMMA ProductKept ==
    ASSUME NEW b \in Nat, NEW d \in Nat, NEW r \in Nat, NEW o \in 0..r
    PROVE  (b + d) * (r - o) >= r * b <=> (b + d) * o <= d * r
<1>1. (b + d) * (r - o) = (b + d) * r - (b + d) * o
  OBVIOUS
<1>2. (b + d) * r = b * r + d * r /\ r * b = b * r
  OBVIOUS
<1>3. (b + d) * r \in Int /\ (b + d) * o \in Int /\ b * r \in Int /\ d * r \in Int
  OBVIOUS
<1> QED  BY <1>1, <1>2, <1>3

\* A multiple that is not above a number has a factor that is not above its quotient.
LEMMA FactorBelowQuotient ==
    ASSUME NEW n \in Nat, NEW d \in Nat \ {0}, NEW o \in Nat
    PROVE  d * o <= n <=> o <= n \div d
<1> DEFINE q == n \div d
<1>1. q \in Nat /\ d * q <= n /\ n < d * (q + 1)
  BY Quotient
<1> HIDE DEF q
<1>2. ASSUME o <= q PROVE d * o <= d * q
  BY <1>1, <1>2
<1>3. ASSUME q + 1 <= o PROVE d * (q + 1) <= d * o
  BY <1>1, <1>3
<1>4. d * o \in Int /\ d * q \in Int /\ d * (q + 1) \in Int
  BY <1>1
<1>5. o <= q => d * o <= n
  BY <1>1, <1>2, <1>4
<1>6. o > q => d * o > n
  BY <1>1, <1>3, <1>4
<1>7. d * o <= n <=> o <= q
  BY <1>1, <1>5, <1>6
<1> QED  BY <1>7 DEF q

\* The greatest number of a set that has one.
LEMMA MaxIs ==
    ASSUME NEW S \in SUBSET Nat, NEW m \in S, \A x \in S : x <= m
    PROVE  Max(S) = m
<1>1. Max(S) \in S /\ \A y \in S : Max(S) >= y
  BY DEF Max
<1>2. Max(S) \in Nat /\ m \in Nat /\ Max(S) <= m /\ m <= Max(S)
  BY <1>1
<1> QED  BY <1>2

\* The formula of the code keeps the product, and nothing greater does.
LEMMA FormulaFits ==
    ASSUME NEW amountIn \in Nat, NEW r1 \in Nat, NEW r2 \in Nat, NEW fee \in 0..Bps
    PROVE  /\ constantProductOut(amountIn, r1, r2, fee) \in 0..r2
           /\ (r1 * Bps + amountIn * (Bps - fee)) * (r2 - constantProductOut(amountIn, r1, r2, fee))
                 >= r1 * r2 * Bps
           /\ r1 = 0 => constantProductOut(amountIn, r1, r2, fee) = 0
           /\ \A o \in 0..r2 :
                 /\ (r1 * Bps + amountIn * (Bps - fee)) * (r2 - o) >= r1 * r2 * Bps
                 /\ r1 = 0 => o = 0
                 => o <= constantProductOut(amountIn, r1, r2, fee)
<1> DEFINE b == r1 * Bps
           d == amountIn * (Bps - fee)
           S == {o \in 0..r2 : /\ (b + d) * (r2 - o) >= r1 * r2 * Bps
                               /\ r1 = 0 => o = 0}
           c == constantProductOut(amountIn, r1, r2, fee)
<1>1. b \in Nat /\ d \in Nat /\ r1 * r2 * Bps = r2 * b /\ Bps \in Nat
  <2>1. Bps \in Nat /\ Bps - fee \in Nat
    BY DEF Bps
  <2>2. r1 * r2 * Bps = r2 * (r1 * Bps)
    BY <2>1
  <2> QED  BY <2>1, <2>2
<1>2. \A o \in 0..r2 : o \in S <=> (b + d) * o <= d * r2 /\ (r1 = 0 => o = 0)
  <2>1. ASSUME NEW o \in 0..r2
        PROVE  (b + d) * (r2 - o) >= r1 * r2 * Bps <=> (b + d) * o <= d * r2
    BY <1>1, <2>1, ProductKept
  <2> QED  BY <2>1
<1>3. c \in Nat /\ c \in S /\ \A o \in S : o <= c
  <2>1. CASE r1 = 0 \/ r2 = 0 \/ fee = Bps
    <3>1. c = 0
      BY <2>1 DEF constantProductOut
    <3>2. 0 \in S
      BY <1>1, <1>2
    <3>3. ASSUME NEW o \in S PROVE o = 0
      <4>1. o \in 0..r2 /\ (b + d) * o <= d * r2 /\ (r1 = 0 => o = 0)
        BY <1>2
      <4>2. CASE r1 = 0 \/ r2 = 0
        BY <4>1, <4>2
      <4>3. CASE fee = Bps /\ r1 # 0
        <5>1. d = 0 /\ b > 0
          BY <1>1, <4>3 DEF Bps
        <5>2. b * o <= 0
          BY <1>1, <4>1, <5>1
        <5>3. o = 0
          BY <1>1, <4>1, <5>1, <5>2
        <5> QED  BY <5>3
      <4> QED  BY <2>1, <4>2, <4>3
    <3> QED  BY <3>1, <3>2, <3>3
  <2>2. CASE r1 # 0 /\ r2 # 0 /\ fee # Bps
    <3>1. b > 0 /\ b + d \in Nat \ {0} /\ d * r2 \in Nat
      <4>1. b > 0
        BY <2>2 DEF Bps
      <4> HIDE DEF b, d
      <4> QED  BY <1>1, <4>1
    <3>2. c = (d * r2) \div (b + d)
      <4>1. ~(fee >= Bps)
        BY <1>1, <2>2
      <4> QED  BY <2>2, <4>1 DEF constantProductOut
    <3>3. c \in Nat /\ \A o \in Nat : (b + d) * o <= d * r2 <=> o <= c
      BY <3>1, <3>2, FactorBelowQuotient, Quotient
    <3>4. \A o \in 0..r2 : o \in S <=> o <= c
      BY <1>2, <2>2, <3>3
    <3>5. c <= r2
      <4>1. SUFFICES ASSUME c >= r2 + 1 PROVE FALSE
        BY <3>3
      <4>2. (b + d) * (r2 + 1) <= d * r2
        BY <3>3, <4>1
      <4>3. (b + d) * (r2 + 1) = b * (r2 + 1) + d * r2 + d
        BY <1>1
      <4>4. b * (r2 + 1) > 0 /\ b * (r2 + 1) \in Nat
        BY <1>1, <3>1
      <4> QED  BY <1>1, <3>1, <4>2, <4>3, <4>4
    <3> QED  BY <3>3, <3>4, <3>5
  <2> QED  BY <2>1, <2>2
<1>4. c \in S /\ \A o \in S : o <= c
  BY <1>3
<1> QED  BY <1>4

\* So it is the greatest payment that keeps the product.
LEMMA FormulaIsMax ==
    ASSUME NEW amountIn \in Nat, NEW r1 \in Nat, NEW r2 \in Nat, NEW fee \in 0..Bps
    PROVE  /\ constantProductOut(amountIn, r1, r2, fee) \in Nat
           /\ Max({o \in 0..r2 : /\ (r1 * Bps + amountIn * (Bps - fee)) * (r2 - o) >= r1 * r2 * Bps
                                 /\ r1 = 0 => o = 0})
                = constantProductOut(amountIn, r1, r2, fee)
<1> DEFINE S == {o \in 0..r2 : /\ (r1 * Bps + amountIn * (Bps - fee)) * (r2 - o) >= r1 * r2 * Bps
                               /\ r1 = 0 => o = 0}
           c == constantProductOut(amountIn, r1, r2, fee)
<1>1. c \in S /\ \A o \in S : o <= c
  <2> HIDE DEF c
  <2> QED  BY FormulaFits DEF c
<1>2. S \in SUBSET Nat
  OBVIOUS
<1>3. c \in Nat
  BY <1>1
<1> HIDE DEF S, c
<1>4. Max(S) = c
  BY <1>1, <1>2, MaxIs
<1> QED  BY <1>3, <1>4 DEF S, c

\* The smaller the fee, the more the formula gives.
LEMMA FormulaFalls ==
    ASSUME NEW amountIn \in Nat, NEW r1 \in Nat, NEW r2 \in Nat, NEW low \in 0..Bps, NEW high \in 0..Bps,
           low <= high
    PROVE  constantProductOut(amountIn, r1, r2, high) <= constantProductOut(amountIn, r1, r2, low)
<1> DEFINE c == constantProductOut(amountIn, r1, r2, high)
           rest == r2 - c
           a == r1 * Bps + amountIn * (Bps - low)
           b == r1 * Bps + amountIn * (Bps - high)
<1>1. c \in 0..r2 /\ b * rest >= r1 * r2 * Bps /\ (r1 = 0 => c = 0)
  BY FormulaFits
<1>2. Bps \in Nat /\ rest \in Nat
  BY <1>1 DEF Bps
<1>3. a \in Nat /\ b \in Nat /\ b <= a
  <2>1. Bps - low \in Nat /\ Bps - high \in Nat /\ Bps - high <= Bps - low
    BY <1>2
  <2>2. \A x, y \in Nat : x <= y => amountIn * x <= amountIn * y
    OBVIOUS
  <2> QED  BY <1>2, <2>1, <2>2
<1>4. r1 * r2 * Bps \in Nat
  BY <1>2
<1>5. a * rest >= r1 * r2 * Bps
  <2> HIDE DEF a, b, rest
  <2>1. b * rest <= a * rest /\ b * rest \in Nat /\ a * rest \in Nat
    BY <1>2, <1>3
  <2> QED  BY <1>1, <1>4, <2>1
<1> QED  BY <1>1, <1>5, FormulaFits

allowed(slippage) == IF slippage > Bps THEN Bps ELSE slippage

\* The least the client accepts is what it is quoted less the slippage, rounded down.
LEMMA MinOutBounds ==
    ASSUME NEW amountOut \in Nat, NEW slippage \in Nat
    PROVE  /\ MinOut(amountOut, slippage) \in Nat
           /\ MinOut(amountOut, slippage) <= amountOut
           /\ (MinOut(amountOut, slippage) + 1) * Bps > amountOut * (Bps - allowed(slippage))
<1> DEFINE k == Bps - allowed(slippage)
           n == amountOut * k
<1>1. Bps \in Nat \ {0} /\ k \in 0..Bps
  BY DEF Bps, allowed
<1>2. MinOut(amountOut, slippage) = n \div Bps
  BY DEF MinOut, allowed
<1>3. n \in Nat /\ n <= amountOut * Bps
  <2> HIDE DEF k
  <2> QED  BY <1>1
<1> HIDE DEF n
<1>4. n \div Bps \in Nat /\ Bps * (n \div Bps) <= n /\ n < Bps * (n \div Bps + 1)
  BY <1>1, <1>3, Quotient
<1>5. n \div Bps <= amountOut
  <2>1. Bps * (n \div Bps) <= amountOut * Bps
    BY <1>1, <1>3, <1>4
  <2> QED  BY <1>4, <2>1 DEF Bps
<1>6. (n \div Bps + 1) * Bps > n
  BY <1>4 DEF Bps
<1> QED  BY <1>2, <1>4, <1>5, <1>6 DEF n

-----------------------------------------------------------------------------
(* Pools.                                                                  *)

\* The fee of a pool is at most all of it.
LEMMA FeeBounded ==
    ASSUME NEW p \in DOMAIN SwapPools
    PROVE  feeOf(p) \in 0..Bps /\ FeeBps \in 0..Bps
<1> DEFINE f == SwapPools[p].fee
<1>1. f \in 0..(100 * Bps) /\ Bps \in Nat
  <2>1. SwapPools[p].fee \in 0..(100 * Bps)
    BY SwapAssumption
  <2>2. Bps \in Nat
    BY DEF Bps
  <2> QED  BY <2>1, <2>2
<1>2. feeOf(p) = f \div 100
  BY DEF feeOf
<1> HIDE DEF f
<1>3. f \in Nat /\ f \div 100 \in Nat /\ 100 * (f \div 100) <= f
  <2>1. f \in Nat /\ f <= 100 * Bps
    BY <1>1
  <2> QED  BY <2>1, Quotient
<1>4. f \div 100 <= Bps
  BY <1>1, <1>3
<1>5. FeeBps \in 0..Bps
  BY DEF FeeBps, Bps
<1> QED  BY <1>1, <1>2, <1>3, <1>4, <1>5

\* A row has the reserves of a direction once, and they are numbers.
LEMMA DirectionReserves ==
    ASSUME NEW p \in DOMAIN SwapPools, NEW row \in PoolStates, NEW in, NEW out,
           NEW r \in reservesForDirection(p, row, in, out)
    PROVE  /\ reservesForDirection(p, row, in, out) = {r}
           /\ r[1] \in Nat /\ r[2] \in Nat
<1>1. row \in Nat \X Nat
  BY SwapAssumption
<1>2. row[1] \in Nat /\ row[2] \in Nat
  BY <1>1
<1> DEFINE there == <<in, out>> = <<SwapPools[p].token0, SwapPools[p].token1>>
           back == <<in, out>> = <<SwapPools[p].token1, SwapPools[p].token0>>
           forth == <<row[1], row[2]>>
           turned == <<row[2], row[1]>>
<1>3. reservesForDirection(p, row, in, out) = IF there THEN {forth} ELSE IF back THEN {turned} ELSE {}
  BY DEF reservesForDirection
<1>4. forth[1] \in Nat /\ forth[2] \in Nat /\ turned[1] \in Nat /\ turned[2] \in Nat
  BY <1>2
<1> HIDE DEF there, back, forth, turned
<1>5. r = forth \/ r = turned
  BY <1>3
<1>6. reservesForDirection(p, row, in, out) = {r}
  BY <1>3
<1> QED  BY <1>4, <1>5, <1>6

\* A pool of the two tokens has reserves in the direction of the swap.
LEMMA DirectionExists ==
    ASSUME NEW p \in DOMAIN SwapPools, NEW row, NEW in, NEW out, poolMatches(p, in, out)
    PROVE  \E r : r \in reservesForDirection(p, row, in, out)
<1>1. \/ in = SwapPools[p].token0 /\ out = SwapPools[p].token1
      \/ in = SwapPools[p].token1 /\ out = SwapPools[p].token0
  BY DEF poolMatches
<1> QED  BY <1>1 DEF reservesForDirection

\* What a pool pays is one amount, the one of the formula.
LEMMA PoolPaysFormula ==
    ASSUME NEW p \in DOMAIN SwapPools, NEW row \in PoolStates, NEW in, NEW out,
           NEW amountIn \in Nat, NEW fee \in 0..Bps,
           NEW r \in reservesForDirection(p, row, in, out)
    PROVE  /\ poolPays(p, row, in, out, amountIn, fee) = {constantProductOut(amountIn, r[1], r[2], fee)}
           /\ constantProductOut(amountIn, r[1], r[2], fee) \in Nat
<1>1. r[1] \in Nat /\ r[2] \in Nat /\ reservesForDirection(p, row, in, out) = {r}
  BY DirectionReserves
<1> DEFINE pays(x) == Max({o \in 0..x[2] :
                       /\ (x[1] * Bps + amountIn * (Bps - fee)) * (x[2] - o) >= x[1] * x[2] * Bps
                       /\ x[1] = 0 => o = 0})
<1>2. /\ constantProductOut(amountIn, r[1], r[2], fee) \in Nat
      /\ pays(r) = constantProductOut(amountIn, r[1], r[2], fee)
  BY <1>1, FormulaIsMax
<1>3. poolPays(p, row, in, out, amountIn, fee) = {pays(x) : x \in reservesForDirection(p, row, in, out)}
  BY DEF poolPays
<1> HIDE DEF pays
<1> QED  BY <1>1, <1>2, <1>3

\* A pool with a smaller fee pays no less.
LEMMA PoolPaysFalls ==
    ASSUME NEW p \in DOMAIN SwapPools, NEW row \in PoolStates, NEW in, NEW out, NEW amountIn \in Nat,
           NEW low \in 0..Bps, NEW high \in 0..Bps, low <= high,
           NEW more \in poolPays(p, row, in, out, amountIn, low),
           NEW less \in poolPays(p, row, in, out, amountIn, high)
    PROVE  less <= more
<1>1. PICK r \in reservesForDirection(p, row, in, out) : TRUE
  BY DEF poolPays
<1>2. r[1] \in Nat /\ r[2] \in Nat
  BY DirectionReserves
<1>3. /\ more = constantProductOut(amountIn, r[1], r[2], low)
      /\ less = constantProductOut(amountIn, r[1], r[2], high)
  BY PoolPaysFormula
<1> QED  BY <1>2, <1>3, FormulaFalls

\* What a pool pays is one number or, for tokens it does not have, nothing.
LEMMA PoolPaysOne ==
    ASSUME NEW p \in DOMAIN SwapPools, NEW row \in PoolStates, NEW in, NEW out,
           NEW amountIn \in Nat,
           NEW o \in poolPays(p, row, in, out, amountIn, feeOf(p))
    PROVE  o \in Nat /\ poolPays(p, row, in, out, amountIn, feeOf(p)) = {o}
<1>1. PICK r \in reservesForDirection(p, row, in, out) : TRUE
  BY DEF poolPays
<1> QED  BY <1>1, FeeBounded, PoolPaysFormula

\* The parameters of a pool of a venue find it and no other.
LEMMA RouteFindsPool ==
    ASSUME NEW p \in DOMAIN SwapPools, NEW in, NEW out, NEW params, poolMatches(p, in, out),
           isSelected(SwapPools[p].venue, p, params)
    PROVE  poolOfRoute(SwapPools[p].venue, in, out, params) = {p}
<1>1. p \in poolOfRoute(SwapPools[p].venue, in, out, params)
  BY DEF poolOfRoute
<1>2. ASSUME NEW q \in poolOfRoute(SwapPools[p].venue, in, out, params) PROVE q = p
  <2>1. q \in DOMAIN SwapPools /\ SwapPools[q].venue = SwapPools[p].venue
    BY DEF poolOfRoute
  <2>2. {SwapPools[q].token0, SwapPools[q].token1} = {SwapPools[p].token0, SwapPools[p].token1}
    BY DEF poolOfRoute, poolMatches
  <2>3. selector(q) = selector(p)
    BY <2>1 DEF poolOfRoute, isSelected, selector, isSlipstream
  <2> QED  BY <2>1, <2>2, <2>3, OnePoolAssumption
<1> QED  BY <1>1, <1>2

-----------------------------------------------------------------------------
(* The inductive invariant of a swap.                                      *)

SwapSteps == {"idle", "asked", "chosen", "quoted", "built", "refused", "executed", "reverted"}

SwapTypeOK ==
    /\ onchain \in [DOMAIN SwapPools -> PoolStates]
    /\ stored \in [DOMAIN SwapPools -> PoolStates]
    /\ swap \in [step : SwapSteps, req : {swap.req}, core : {swap.core}, quote : {swap.quote},
                 tx : {swap.tx}, approval : {swap.approval}, paid : {swap.paid}]

\* A quote from the table or from the quoter, made from some row of the pool.
QuotedFrom(core, quote, row) ==
    \/ /\ Venues[core.venue].kind # "uniswapv3"
       /\ core.pool \in DOMAIN SwapPools /\ SwapPools[core.pool].kind = "v2"
       /\ \E r \in reservesForDirection(core.pool, row, core.in, core.out) :
             quote = quoteOf(core, constantProductOut(core.amountIn, r[1], r[2], FeeBps), FeeBps, << >>, row)
    \/ /\ Venues[core.venue].kind = "uniswapv3"
       /\ \E params \in routeParams(core) :
          \E p \in poolOfRoute(core.venue, core.in, core.out, params) :
          \E o \in poolPays(p, row, core.in, core.out, core.amountIn, feeOf(p)) :
             quote = quoteOf(core, o, params[1] \div 100, params, row)

Quoted(core, quote) == \E row \in PoolStates : QuotedFrom(core, quote, row)

\* What is approved for a request.
isApproval(a, req) ==
    \E v \in venueFor(req), in \in assetID(req.tokenIn, req.chain), amount \in parseAmount(req.amountIn) :
    \E router \in routerAddress(v) : a = BuildApproveTransaction(in, router, amount)

\* What a swap has, before each step.
SwapProgress ==
    /\ swap.step = "idle" => swap.req = {}
    /\ swap.step \in {"idle", "asked"} => swap.core = {}
    /\ swap.step \in {"idle", "asked", "chosen"} => swap.quote = {}
    /\ swap.step \in {"idle", "asked", "chosen", "quoted"} => swap.tx = {}
    /\ swap.step \notin {"executed", "reverted"} => swap.paid = {}

SwapRequested == swap.req = {} \/ \E req \in Requests : swap.req = {req}

SwapChosen ==
    swap.core = {} \/
    \E req \in Requests : \E core \in buildRequest(req) : swap.req = {req} /\ swap.core = {core}

SwapQuoted ==
    swap.quote = {} \/
    \E core, quote : swap.core = {core} /\ swap.quote = {quote} /\ Quoted(core, quote)

SwapBuilt ==
    swap.tx = {} \/
    \E core, quote : \E tx \in executorBuild(core, quote) :
        swap.core = {core} /\ swap.quote = {quote} /\ swap.tx = {tx}

SwapApproved ==
    swap.approval = {} \/
    \E req \in Requests : \E a : isApproval(a, req) /\ swap.req = {req} /\ swap.approval = {a}

SwapPaid ==
    swap.paid = {} \/
    \E tx : \E o \in Nat :
        /\ swap.tx = {tx} /\ swap.paid = {o}
        /\ swap.step = "executed" => o >= tx.minOut
        /\ swap.step = "reverted" => o < tx.minOut

SwapInv ==
    /\ SwapTypeOK /\ SwapProgress
    /\ SwapRequested /\ SwapChosen /\ SwapQuoted /\ SwapBuilt /\ SwapApproved /\ SwapPaid

-----------------------------------------------------------------------------
(* What the parts of the invariant say of a swap.                          *)

\* A request as the service passes it to the executors.
LEMMA CoreOfRequest ==
    ASSUME NEW req \in Requests, NEW core \in buildRequest(req)
    PROVE  /\ req.venue \in DOMAIN Venues /\ core.venue = req.venue
           /\ core.in \in assetID(req.tokenIn, req.chain)
           /\ core.amountIn = req.amountIn /\ core.amountIn \in Nat
           /\ core.slippage = (IF req.slippage = 0 THEN 50 ELSE req.slippage) /\ core.slippage \in Nat
<1>1. PICK v \in venueFor(req), in \in assetID(req.tokenIn, req.chain),
           out \in assetID(req.tokenOut, req.chain), amount \in parseAmount(req.amountIn) :
         \E p : core = [venue |-> v, pool |-> p, in |-> in, out |-> out, amountIn |-> amount,
                       slippage |-> IF req.slippage = 0 THEN 50 ELSE req.slippage]
  BY DEF buildRequest
<1>2. v = req.venue /\ v \in DOMAIN Venues
  BY DEF venueFor
<1>3. req.amountIn \in Nat /\ req.slippage \in Nat
  BY SwapAssumption
<1>4. amount = req.amountIn
  BY <1>3 DEF parseAmount
<1> QED  BY <1>1, <1>2, <1>3, <1>4

\* A quote has the amounts of the pool that the parameters of its request find.
LEMMA QuoteAmounts ==
    ASSUME NEW core, NEW quote, NEW row \in PoolStates, QuotedFrom(core, quote, row),
           core.amountIn \in Nat
    PROVE  /\ quote.amountOut \in Nat
           /\ quote.minOut = MinOut(quote.amountOut, core.slippage)
           /\ quote.row = row
<1>1. CASE Venues[core.venue].kind # "uniswapv3"
  <2>1. PICK r \in reservesForDirection(core.pool, row, core.in, core.out) :
           quote = quoteOf(core, constantProductOut(core.amountIn, r[1], r[2], FeeBps), FeeBps, << >>, row)
    BY <1>1 DEF QuotedFrom
  <2>2. core.pool \in DOMAIN SwapPools /\ FeeBps \in 0..Bps
    <3>1. core.pool \in DOMAIN SwapPools /\ SwapPools[core.pool].kind = "v2"
      BY <1>1 DEF QuotedFrom
    <3> QED  BY <3>1, FeeBounded
  <2>3. constantProductOut(core.amountIn, r[1], r[2], FeeBps) \in Nat
    BY <2>2, PoolPaysFormula
  <2> QED  BY <2>1, <2>3 DEF quoteOf
<1>2. CASE Venues[core.venue].kind = "uniswapv3"
  <2>1. PICK params \in routeParams(core) : \E p \in poolOfRoute(core.venue, core.in, core.out, params) :
          \E o \in poolPays(p, row, core.in, core.out, core.amountIn, feeOf(p)) :
             quote = quoteOf(core, o, params[1] \div 100, params, row)
    BY <1>2 DEF QuotedFrom
  <2>2. PICK p \in poolOfRoute(core.venue, core.in, core.out, params) :
          \E o \in poolPays(p, row, core.in, core.out, core.amountIn, feeOf(p)) :
             quote = quoteOf(core, o, params[1] \div 100, params, row)
    BY <2>1
  <2>3. PICK o \in poolPays(p, row, core.in, core.out, core.amountIn, feeOf(p)) :
             quote = quoteOf(core, o, params[1] \div 100, params, row)
    BY <2>2
  <2>4. o \in Nat
    <3>1. p \in DOMAIN SwapPools
      BY DEF poolOfRoute
    <3> QED  BY <3>1, PoolPaysOne
  <2> QED  BY <2>3, <2>4 DEF quoteOf
<1> QED  BY <1>1, <1>2

\* What the service may build is for the request it came from.
LEMMA TxOfCore ==
    ASSUME NEW core, NEW quote, NEW tx \in executorBuild(core, quote), core.venue \in DOMAIN Venues
    PROVE  /\ tx.to = Venues[core.venue].router
           /\ tx.in = core.in /\ tx.out = core.out /\ tx.amountIn = core.amountIn
           /\ tx.minOut = quote.minOut
           /\ Venues[core.venue].kind = "uniswapv3" => tx.params \in routeParams(core)
<1>1. ASSUME NEW router \in RouterByVenue(core.venue) PROVE router = Venues[core.venue].router
  BY DEF RouterByVenue
<1>2. CASE Venues[core.venue].kind = "uniswapv3"
  <2>1. PICK router \in RouterByVenue(core.venue), params \in routeParams(core) :
          tx = txOf(core, quote.minOut, router, params)
    BY <1>2 DEF executorBuild, buildV3
  <2> QED  BY <1>1, <2>1 DEF txOf
<1>3. CASE Venues[core.venue].kind # "uniswapv3"
  <2>1. PICK router \in RouterByVenue(core.venue) : tx = txOf(core, quote.minOut, router, << >>)
    BY <1>3 DEF executorBuild, buildV2
  <2> QED  BY <1>1, <1>3, <2>1 DEF txOf
<1> QED  BY <1>2, <1>3

\* What the engine quotes, it quotes from a row of the table or of the chain.
LEMMA ExecutorQuotes ==
    ASSUME SwapTypeOK, NEW core, NEW quote \in executorQuote(core)
    PROVE  Quoted(core, quote)
<1>1. CASE Venues[core.venue].kind = "uniswapv3"
  <2>1. PICK params \in routeParams(core) : \E a \in QuoteExactInputSingle(core, params) :
          quote = quoteOf(core, a[1], params[1] \div 100, params, a[2])
    BY <1>1 DEF executorQuote, quoteV3Pool
  <2>2. PICK a \in QuoteExactInputSingle(core, params) : quote = quoteOf(core, a[1], params[1] \div 100, params, a[2])
    BY <2>1
  <2>3. a \in quoterAnswers(core, params)
    BY DEF QuoteExactInputSingle, quoteSlipstream, quoteV1, quoteV2
  <2>4. PICK p \in poolOfRoute(core.venue, core.in, core.out, params) :
          \E o \in poolPays(p, onchain[p], core.in, core.out, core.amountIn, feeOf(p)) : a = <<o, onchain[p]>>
    BY <2>3 DEF quoterAnswers
  <2>5. PICK o \in poolPays(p, onchain[p], core.in, core.out, core.amountIn, feeOf(p)) : a = <<o, onchain[p]>>
    BY <2>4
  <2>6. onchain[p] \in PoolStates
    BY DEF poolOfRoute, SwapTypeOK
  <2>7. quote = quoteOf(core, o, params[1] \div 100, params, onchain[p])
    BY <2>2, <2>5
  <2> QED  BY <1>1, <2>6, <2>7 DEF Quoted, QuotedFrom
<1>2. CASE Venues[core.venue].kind # "uniswapv3"
  <2>1. quote \in quoteV2Pool(core)
    BY <1>2 DEF executorQuote
  <2>2. PICK p \in {q \in {core.pool} \cap DOMAIN SwapPools : SwapPools[q].kind = "v2"} :
          \E r \in reservesForDirection(p, stored[p], core.in, core.out) :
            quote = quoteOf(core, constantProductOut(core.amountIn, r[1], r[2], FeeBps), FeeBps, << >>, stored[core.pool])
    BY <2>1 DEF quoteV2Pool
  <2>3. p = core.pool /\ stored[p] \in PoolStates
    BY DEF SwapTypeOK
  <2> QED  BY <1>2, <2>2, <2>3 DEF Quoted, QuotedFrom
<1> QED  BY <1>1, <1>2

-----------------------------------------------------------------------------
(* The invariant is inductive.                                             *)

\* The swap starts at rest.
LEMMA SwapInitInv == SwapInit => SwapInv
<1> SUFFICES ASSUME SwapInit PROVE SwapInv
  OBVIOUS
<1>1. swap = AtRest
  BY DEF SwapInit
<1>2. SwapTypeOK
  BY <1>1 DEF SwapInit, SwapTypeOK, AtRest, SwapSteps
<1>3. SwapProgress /\ SwapRequested /\ SwapChosen /\ SwapQuoted /\ SwapBuilt /\ SwapApproved /\ SwapPaid
  BY <1>1 DEF AtRest, SwapProgress, SwapRequested, SwapChosen, SwapQuoted, SwapBuilt, SwapApproved, SwapPaid
<1> QED  BY <1>2, <1>3 DEF SwapInv

\* The chain and the table keep their types, and the swap what it is, when others act.
LEMMA OthersKeepInv ==
    ASSUME SwapInv, UNCHANGED swap,
           onchain' \in [DOMAIN SwapPools -> PoolStates], stored' \in [DOMAIN SwapPools -> PoolStates]
    PROVE  SwapInv'
BY DEF SwapInv, SwapTypeOK, SwapProgress, SwapRequested, SwapChosen, SwapQuoted, SwapBuilt, SwapApproved, SwapPaid

\* A request is taken.
LEMMA AskInv ==
    ASSUME SwapInv, NEW req \in Requests, Ask(req)
    PROVE  SwapInv'
<1>1. /\ swap.step = "idle" /\ swap.req = {} /\ swap.core = {} /\ swap.quote = {} /\ swap.tx = {} /\ swap.paid = {}
      /\ swap.approval = {}
  BY DEF Ask, SwapInv, SwapProgress, SwapApproved
<1>2. SwapTypeOK' /\ swap'.step = "asked" /\ swap'.req = {req} /\ swap'.core = {} /\ swap'.quote = {}
      /\ swap'.tx = {} /\ swap'.paid = {} /\ swap'.approval = {}
  BY <1>1 DEF Ask, SwapInv, SwapTypeOK, SwapSteps
<1> QED  BY <1>2 DEF SwapInv, SwapProgress, SwapRequested, SwapChosen, SwapQuoted, SwapBuilt, SwapApproved, SwapPaid

\* A pool is chosen.
LEMMA ChoosePoolInv ==
    ASSUME SwapInv, ChoosePool
    PROVE  SwapInv'
<1>1. PICK req \in swap.req : \E core \in buildRequest(req) :
         swap' = [swap EXCEPT !.step = "chosen", !.core = {core}]
  BY DEF ChoosePool
<1>2. PICK core \in buildRequest(req) : swap' = [swap EXCEPT !.step = "chosen", !.core = {core}]
  BY <1>1
<1>3. swap.req = {req} /\ req \in Requests
  BY DEF SwapInv, SwapRequested
<1>4. swap.step = "asked" /\ swap.quote = {} /\ swap.tx = {} /\ swap.paid = {}
  BY DEF ChoosePool, SwapInv, SwapProgress
<1>5. SwapTypeOK' /\ swap'.step = "chosen" /\ swap'.req = swap.req /\ swap'.core = {core} /\ swap'.quote = {}
      /\ swap'.tx = {} /\ swap'.paid = {} /\ swap'.approval = swap.approval
  BY <1>2, <1>4 DEF ChoosePool, SwapInv, SwapTypeOK, SwapSteps
<1> QED  BY <1>3, <1>5 DEF SwapInv, SwapProgress, SwapRequested, SwapChosen, SwapQuoted, SwapBuilt, SwapApproved, SwapPaid

\* A quote is made.
LEMMA QuoteInv ==
    ASSUME SwapInv, Quote
    PROVE  SwapInv'
<1>1. PICK core \in swap.core : \E quote \in executorQuote(core) :
         swap' = [swap EXCEPT !.step = "quoted", !.quote = {quote}]
  BY DEF Quote
<1>2. PICK quote \in executorQuote(core) : swap' = [swap EXCEPT !.step = "quoted", !.quote = {quote}]
  BY <1>1
<1>3. swap.core = {core} /\ Quoted(core, quote)
  BY ExecutorQuotes DEF SwapInv, SwapChosen
<1>4. swap.step = "chosen" /\ swap.tx = {} /\ swap.paid = {}
  BY DEF Quote, SwapInv, SwapProgress
<1>5. SwapTypeOK' /\ swap'.step = "quoted" /\ swap'.req = swap.req /\ swap'.core = {core} /\ swap'.quote = {quote}
      /\ swap'.tx = {} /\ swap'.paid = {} /\ swap'.approval = swap.approval
  BY <1>2, <1>3, <1>4 DEF Quote, SwapInv, SwapTypeOK, SwapSteps
<1>6. SwapQuoted'
  BY <1>3, <1>5 DEF SwapQuoted
<1> QED  BY <1>3, <1>5, <1>6 DEF SwapInv, SwapProgress, SwapRequested, SwapChosen, SwapBuilt, SwapApproved, SwapPaid

\* A transaction is built.
LEMMA BuildInv ==
    ASSUME SwapInv, BuildTransaction
    PROVE  SwapInv'
<1>1. PICK core \in swap.core, quote \in swap.quote : \E tx \in executorBuild(core, quote) :
         swap' = [swap EXCEPT !.step = "built", !.tx = {tx}]
  BY DEF BuildTransaction
<1>2. PICK tx \in executorBuild(core, quote) : swap' = [swap EXCEPT !.step = "built", !.tx = {tx}]
  BY <1>1
<1>3. swap.core = {core} /\ swap.quote = {quote}
  BY DEF SwapInv, SwapChosen, SwapQuoted
<1>4. swap.step = "quoted" /\ swap.paid = {}
  BY DEF BuildTransaction, SwapInv, SwapProgress
<1>5. SwapTypeOK' /\ swap'.step = "built" /\ swap'.req = swap.req /\ swap'.core = {core} /\ swap'.quote = {quote}
      /\ swap'.tx = {tx} /\ swap'.paid = {} /\ swap'.approval = swap.approval
  BY <1>2, <1>3, <1>4 DEF BuildTransaction, SwapInv, SwapTypeOK, SwapSteps
<1>6. SwapBuilt'
  BY <1>5 DEF SwapBuilt
<1>7. SwapQuoted'
  BY <1>3, <1>5 DEF SwapInv, SwapQuoted
<1> QED  BY <1>3, <1>5, <1>6, <1>7 DEF SwapInv, SwapProgress, SwapRequested, SwapChosen, SwapApproved, SwapPaid

\* An approval is built, at any time.
LEMMA ApproveInv ==
    ASSUME SwapInv, Approve
    PROVE  SwapInv'
<1>1. PICK req \in swap.req :
         \E v \in venueFor(req), in \in assetID(req.tokenIn, req.chain), amount \in parseAmount(req.amountIn) :
           /\ Venues[v].kind \in {"uniswapv2", "aerodrome", "uniswapv3"}
           /\ \E router \in routerAddress(v) :
                swap' = [swap EXCEPT !.approval = {BuildApproveTransaction(in, router, amount)}]
  BY DEF Approve
<1>2. PICK a : isApproval(a, req) /\ swap' = [swap EXCEPT !.approval = {a}]
  BY <1>1 DEF isApproval
<1>3. swap.req = {req} /\ req \in Requests
  BY DEF SwapInv, SwapRequested
<1>5. SwapTypeOK' /\ swap'.step = swap.step /\ swap'.req = swap.req /\ swap'.core = swap.core
      /\ swap'.quote = swap.quote /\ swap'.tx = swap.tx /\ swap'.paid = swap.paid /\ swap'.approval = {a}
  BY <1>2 DEF Approve, SwapInv, SwapTypeOK
<1>6. SwapApproved'
  BY <1>2, <1>3, <1>5 DEF SwapApproved
<1> QED  BY <1>5, <1>6 DEF SwapInv, SwapProgress, SwapRequested, SwapChosen, SwapQuoted, SwapBuilt, SwapPaid

\* A step fails.
LEMMA RefuseInv ==
    ASSUME SwapInv, Refuse
    PROVE  SwapInv'
<1>1. swap.step \in {"asked", "chosen", "quoted"} /\ swap.paid = {}
  BY DEF Refuse, SwapInv, SwapProgress
<1>2. SwapTypeOK' /\ swap'.step = "refused" /\ swap'.req = swap.req /\ swap'.core = swap.core
      /\ swap'.quote = swap.quote /\ swap'.tx = swap.tx /\ swap'.paid = {} /\ swap'.approval = swap.approval
  BY <1>1 DEF Refuse, SwapInv, SwapTypeOK, SwapSteps
<1> QED  BY <1>2 DEF SwapInv, SwapProgress, SwapRequested, SwapChosen, SwapQuoted, SwapBuilt, SwapApproved, SwapPaid

\* The router trades or reverts.
LEMMA ExecuteInv ==
    ASSUME SwapInv, Execute
    PROVE  SwapInv'
<1>1. PICK core \in swap.core, tx \in swap.tx : \E p \in poolOfRoute(core.venue, tx.in, tx.out, tx.params) :
         \E o \in poolPays(p, onchain[p], tx.in, tx.out, tx.amountIn, feeOf(p)) :
           swap' = [swap EXCEPT !.step = IF o >= tx.minOut THEN "executed" ELSE "reverted", !.paid = {o}]
  BY DEF Execute
<1>2. PICK p \in poolOfRoute(core.venue, tx.in, tx.out, tx.params) :
         \E o \in poolPays(p, onchain[p], tx.in, tx.out, tx.amountIn, feeOf(p)) :
           swap' = [swap EXCEPT !.step = IF o >= tx.minOut THEN "executed" ELSE "reverted", !.paid = {o}]
  BY <1>1
<1>3. PICK o \in poolPays(p, onchain[p], tx.in, tx.out, tx.amountIn, feeOf(p)) :
         swap' = [swap EXCEPT !.step = IF o >= tx.minOut THEN "executed" ELSE "reverted", !.paid = {o}]
  BY <1>2
<1>4. swap.core = {core} /\ swap.tx = {tx} /\ core.venue \in DOMAIN Venues /\ core.amountIn \in Nat
  <2>1. swap.core = {core} /\ swap.tx = {tx}
    BY DEF SwapInv, SwapChosen, SwapBuilt
  <2>2. PICK req \in Requests : core \in buildRequest(req)
    BY <2>1 DEF SwapInv, SwapChosen
  <2> QED  BY <2>1, <2>2, CoreOfRequest
<1>5. tx.amountIn = core.amountIn
  <2>1. PICK quote : tx \in executorBuild(core, quote)
    BY <1>4 DEF SwapInv, SwapBuilt
  <2> QED  BY <1>4, <2>1, TxOfCore
<1>6. o \in Nat
  <2>1. p \in DOMAIN SwapPools
    BY DEF poolOfRoute
  <2>2. onchain[p] \in PoolStates
    BY <2>1 DEF SwapInv, SwapTypeOK
  <2> QED  BY <1>4, <1>5, <2>1, <2>2, PoolPaysOne
<1>7. tx.minOut \in Nat
  <2>1. PICK quote : tx \in executorBuild(core, quote) /\ swap.quote = {quote}
    BY <1>4 DEF SwapInv, SwapBuilt
  <2>2. PICK row \in PoolStates : QuotedFrom(core, quote, row)
    BY <1>4, <2>1 DEF SwapInv, SwapQuoted, Quoted
  <2>3. PICK req \in Requests : core \in buildRequest(req)
    BY <1>4 DEF SwapInv, SwapChosen
  <2>4. tx.minOut = MinOut(quote.amountOut, core.slippage) /\ quote.amountOut \in Nat /\ core.slippage \in Nat
    BY <1>4, <2>1, <2>2, <2>3, QuoteAmounts, TxOfCore, CoreOfRequest
  <2> QED  BY <2>4, MinOutBounds
<1>8. swap.step = "built"
  BY DEF Execute
<1>9. SwapTypeOK' /\ swap'.step \in {"executed", "reverted"} /\ swap'.req = swap.req /\ swap'.core = swap.core
      /\ swap'.quote = swap.quote /\ swap'.tx = {tx} /\ swap'.paid = {o} /\ swap'.approval = swap.approval
      /\ (swap'.step = "executed" => o >= tx.minOut) /\ (swap'.step = "reverted" => ~(o >= tx.minOut))
  BY <1>3, <1>4, <1>8 DEF Execute, SwapInv, SwapTypeOK, SwapSteps
<1>10. SwapPaid'
  BY <1>6, <1>7, <1>9 DEF SwapPaid
<1> QED  BY <1>4, <1>9, <1>10 DEF SwapInv, SwapProgress, SwapRequested, SwapChosen, SwapQuoted, SwapBuilt, SwapApproved

\* Every step keeps the invariant.
LEMMA SwapStepInv ==
    ASSUME SwapInv, [SwapNext]_swapVars
    PROVE  SwapInv'
<1>1. ASSUME NEW req \in Requests, Ask(req) PROVE SwapInv'
  BY <1>1, AskInv
<1>2. CASE ChoosePool
  BY <1>2, ChoosePoolInv
<1>3. CASE Quote
  BY <1>3, QuoteInv
<1>4. CASE BuildTransaction
  BY <1>4, BuildInv
<1>5. CASE Approve
  BY <1>5, ApproveInv
<1>6. CASE Refuse
  BY <1>6, RefuseInv
<1>7. CASE Execute
  BY <1>7, ExecuteInv
<1>8. ASSUME NEW p \in DOMAIN SwapPools, Move(p) PROVE SwapInv'
  <2>1. PICK row \in PoolStates : onchain' = [onchain EXCEPT ![p] = row]
    BY <1>8 DEF Move
  <2>2. onchain' \in [DOMAIN SwapPools -> PoolStates] /\ stored' \in [DOMAIN SwapPools -> PoolStates]
    BY <1>8, <2>1 DEF Move, SwapInv, SwapTypeOK
  <2> QED  BY <1>8, <2>2, OthersKeepInv DEF Move
<1>9. ASSUME NEW p \in DOMAIN SwapPools, Rescan(p) PROVE SwapInv'
  <2>1. onchain' \in [DOMAIN SwapPools -> PoolStates] /\ stored' \in [DOMAIN SwapPools -> PoolStates]
    BY <1>9 DEF Rescan, SwapInv, SwapTypeOK
  <2> QED  BY <1>9, <2>1, OthersKeepInv DEF Rescan
<1>10. CASE UNCHANGED swapVars
  <2>1. onchain' \in [DOMAIN SwapPools -> PoolStates] /\ stored' \in [DOMAIN SwapPools -> PoolStates]
    BY <1>10 DEF swapVars, SwapInv, SwapTypeOK
  <2> QED  BY <1>10, <2>1, OthersKeepInv DEF swapVars
<1> QED  BY <1>1, <1>2, <1>3, <1>4, <1>5, <1>6, <1>7, <1>8, <1>9, <1>10 DEF SwapNext

\* What the chain, the table and a swap may be, and where each part of the swap came
\* from: the request, the quote, the transaction, the approval and the payment.
THEOREM SwapInvariant == SwapSpec => []SwapInv
<1>1. SwapInit => SwapInv
  BY SwapInitInv
<1>2. SwapInv /\ [SwapNext]_swapVars => SwapInv'
  BY SwapStepInv
<1> QED  BY <1>1, <1>2, PTL DEF SwapSpec

-----------------------------------------------------------------------------
(* The properties.                                                         *)

\* The request and the quote that a swap has are the ones of the invariant.
LEMMA SwapCore ==
    ASSUME SwapInv, NEW core \in swap.core
    PROVE  \E req \in Requests : swap.req = {req} /\ swap.core = {core} /\ core \in buildRequest(req)
BY DEF SwapInv, SwapChosen

\* A quote is exact at its fee: the formula of UniswapV2Executor.Quote is what the pool pays
\* at 30, and the quoter was asked for the pool of the request.
LEMMA ExactFromInv == SwapInv => QuoteExactAtFee
<1> SUFFICES ASSUME SwapInv, NEW core \in swap.core, NEW quote \in swap.quote, ofTheVenue(core)
             PROVE  LET pays(fee) == poolPays(core.pool, quote.row, core.in, core.out, core.amountIn, fee)
                        own == feeOf(core.pool)
                    IN  /\ pays(quote.fee) = {quote.amountOut}
                        /\ Venues[core.venue].kind = "uniswapv3" => quote.fee = own
                        /\ \A got \in pays(own) : /\ own <= quote.fee => quote.amountOut <= got
                                                 /\ own >= quote.fee => quote.amountOut >= got
  BY DEF QuoteExactAtFee
<1> DEFINE pays(fee) == poolPays(core.pool, quote.row, core.in, core.out, core.amountIn, fee)
           own == feeOf(core.pool)
<1>1. PICK req \in Requests : swap.core = {core} /\ core \in buildRequest(req)
  BY SwapCore
<1>2. PICK row \in PoolStates : QuotedFrom(core, quote, row)
  BY <1>1 DEF SwapInv, SwapQuoted, Quoted
<1>3. core.amountIn \in Nat
  BY <1>1, CoreOfRequest
<1>4. core.pool \in DOMAIN SwapPools /\ SwapPools[core.pool].venue = core.venue
      /\ poolMatches(core.pool, core.in, core.out)
  BY DEF ofTheVenue
<1>5. quote.row = row
  BY <1>2, <1>3, QuoteAmounts
<1>6. quote.fee \in 0..Bps /\ own \in 0..Bps /\ pays(quote.fee) = {quote.amountOut}
      /\ (Venues[core.venue].kind = "uniswapv3" => quote.fee = own)
  <2>1. CASE Venues[core.venue].kind # "uniswapv3"
    <3>1. PICK r \in reservesForDirection(core.pool, row, core.in, core.out) :
             quote = quoteOf(core, constantProductOut(core.amountIn, r[1], r[2], FeeBps), FeeBps, << >>, row)
      BY <1>2, <2>1 DEF QuotedFrom
    <3>2. FeeBps \in 0..Bps /\ own \in 0..Bps
      BY <1>4, FeeBounded
    <3>3. poolPays(core.pool, row, core.in, core.out, core.amountIn, FeeBps)
            = {constantProductOut(core.amountIn, r[1], r[2], FeeBps)}
      BY <1>3, <1>4, <3>2, PoolPaysFormula
    <3>4. quote.fee = FeeBps /\ quote.amountOut = constantProductOut(core.amountIn, r[1], r[2], FeeBps)
      BY <3>1 DEF quoteOf
    <3> QED  BY <1>5, <2>1, <3>2, <3>3, <3>4
  <2>2. CASE Venues[core.venue].kind = "uniswapv3"
    <3>1. PICK params \in routeParams(core) : \E p \in poolOfRoute(core.venue, core.in, core.out, params) :
            \E o \in poolPays(p, row, core.in, core.out, core.amountIn, feeOf(p)) :
               quote = quoteOf(core, o, params[1] \div 100, params, row)
      BY <1>2, <2>2 DEF QuotedFrom
    <3>2. params = <<SwapPools[core.pool].fee, SwapPools[core.pool].tick>>
      BY DEF routeParams
    <3>3. poolOfRoute(core.venue, core.in, core.out, params) = {core.pool}
      BY <1>4, <2>2, <3>2, RouteFindsPool DEF isSelected
    <3>4. PICK o \in poolPays(core.pool, row, core.in, core.out, core.amountIn, feeOf(core.pool)) :
               quote = quoteOf(core, o, params[1] \div 100, params, row)
      BY <3>1, <3>3
    <3>5. poolPays(core.pool, row, core.in, core.out, core.amountIn, feeOf(core.pool)) = {o}
      BY <1>3, <1>4, PoolPaysOne
    <3>6. quote.fee = params[1] \div 100 /\ quote.amountOut = o
      BY <3>4 DEF quoteOf
    <3>7. quote.fee = own
      BY <3>2, <3>6 DEF feeOf
    <3> QED  BY <1>4, <1>5, <3>5, <3>6, <3>7, FeeBounded
  <2> QED  BY <2>1, <2>2
<1>7. ASSUME NEW got \in pays(own)
      PROVE  (own <= quote.fee => quote.amountOut <= got) /\ (own >= quote.fee => quote.amountOut >= got)
  <2>1. quote.amountOut \in pays(quote.fee)
    BY <1>6
  <2>2. quote.row \in PoolStates
    BY <1>5
  <2> QED  BY <1>3, <1>4, <1>6, <1>7, <2>1, <2>2, PoolPaysFalls
<1> QED  BY <1>6, <1>7

\* The parameters of the transaction select the pool that was quoted.
LEMMA TradedFromInv == SwapInv => QuotedPoolIsTraded
<1> SUFFICES ASSUME SwapInv, NEW core \in swap.core, NEW tx \in swap.tx, ofTheVenue(core)
             PROVE  poolOfRoute(core.venue, tx.in, tx.out, tx.params) = {core.pool}
  BY DEF QuotedPoolIsTraded
<1>1. PICK req \in Requests : swap.core = {core} /\ core \in buildRequest(req)
  BY SwapCore
<1>2. PICK quote : swap.quote = {quote} /\ tx \in executorBuild(core, quote)
  BY <1>1 DEF SwapInv, SwapBuilt
<1>3. PICK row \in PoolStates : QuotedFrom(core, quote, row)
  BY <1>1, <1>2 DEF SwapInv, SwapQuoted, Quoted
<1>4. core.pool \in DOMAIN SwapPools /\ SwapPools[core.pool].venue = core.venue
      /\ poolMatches(core.pool, core.in, core.out)
  BY DEF ofTheVenue
<1>5. tx.in = core.in /\ tx.out = core.out
      /\ (Venues[core.venue].kind = "uniswapv3" => tx.params \in routeParams(core))
  BY <1>1, <1>2, CoreOfRequest, TxOfCore
<1>6. isSelected(core.venue, core.pool, tx.params)
  <2>1. CASE Venues[core.venue].kind # "uniswapv3"
    BY <1>3, <2>1 DEF QuotedFrom, isSelected
  <2>2. CASE Venues[core.venue].kind = "uniswapv3"
    <3>1. tx.params = <<SwapPools[core.pool].fee, SwapPools[core.pool].tick>>
      BY <1>5, <2>2 DEF routeParams
    <3> QED  BY <2>2, <3>1 DEF isSelected
  <2> QED  BY <2>1, <2>2
<1>7. poolOfRoute(SwapPools[core.pool].venue, core.in, core.out, tx.params) = {core.pool}
  <2>1. isSelected(SwapPools[core.pool].venue, core.pool, tx.params)
    BY <1>4, <1>6
  <2>2. ASSUME NEW params, isSelected(SwapPools[core.pool].venue, core.pool, params)
        PROVE  poolOfRoute(SwapPools[core.pool].venue, core.in, core.out, params) = {core.pool}
    BY <1>4, <2>2, RouteFindsPool
  <2> QED  BY <2>1, <2>2
<1> QED  BY <1>4, <1>5, <1>7

\* What is paid is what was quoted less the slippage, and a swap that reverts would have
\* paid less than it was quoted.
LEMMA PaidFromInv == SwapInv => PaidAsQuoted
<1> SUFFICES ASSUME SwapInv, NEW req \in swap.req, NEW core \in swap.core, NEW quote \in swap.quote,
                    NEW o \in swap.paid
             PROVE  LET asked == IF req.slippage = 0 THEN 50 ELSE req.slippage
                    IN  /\ swap.step = "executed" =>
                              (o + 1) * Bps > quote.amountOut * (Bps - allowed(asked))
                        /\ swap.step = "reverted" /\ ofTheVenue(core) => o < quote.amountOut
  BY DEF PaidAsQuoted, allowed
<1>1. PICK r \in Requests : swap.req = {r} /\ swap.core = {core} /\ core \in buildRequest(r)
  BY SwapCore
<1>2. core.slippage = (IF req.slippage = 0 THEN 50 ELSE req.slippage) /\ core.slippage \in Nat
      /\ core.amountIn \in Nat /\ core.venue \in DOMAIN Venues
  BY <1>1, CoreOfRequest
<1>3. PICK row \in PoolStates : QuotedFrom(core, quote, row)
  BY <1>1 DEF SwapInv, SwapQuoted, Quoted
<1>4. quote.amountOut \in Nat /\ quote.minOut = MinOut(quote.amountOut, core.slippage)
  BY <1>2, <1>3, QuoteAmounts
<1>5. PICK tx : /\ o \in Nat /\ swap.tx = {tx}
                /\ swap.step = "executed" => o >= tx.minOut
                /\ swap.step = "reverted" => o < tx.minOut
  BY DEF SwapInv, SwapPaid
<1>6. tx.minOut = quote.minOut
  <2>1. tx \in executorBuild(core, quote)
    BY <1>1, <1>5 DEF SwapInv, SwapBuilt
  <2> QED  BY <1>2, <2>1, TxOfCore
<1>7. quote.minOut \in Nat /\ quote.minOut <= quote.amountOut
      /\ (quote.minOut + 1) * Bps > quote.amountOut * (Bps - allowed(core.slippage))
  BY <1>2, <1>4, MinOutBounds
<1>8. ASSUME o >= quote.minOut
      PROVE  (o + 1) * Bps > quote.amountOut * (Bps - allowed(core.slippage))
  <2>1. (o + 1) * Bps >= (quote.minOut + 1) * Bps
    BY <1>5, <1>7, <1>8 DEF Bps
  <2>2. quote.amountOut * (Bps - allowed(core.slippage)) \in Int
    BY <1>2, <1>4 DEF Bps, allowed
  <2> QED  BY <1>5, <1>7, <2>1, <2>2 DEF Bps
<1>9. ASSUME o < quote.minOut PROVE o < quote.amountOut
  BY <1>4, <1>5, <1>7, <1>9
<1> QED  BY <1>2, <1>5, <1>6, <1>8, <1>9

\* The approval is for the router that the transaction calls, and for what it takes.
LEMMA ApprovalFromInv == SwapInv => ApprovalFits
<1> SUFFICES ASSUME SwapInv, NEW tx \in swap.tx, NEW approval \in swap.approval
             PROVE  approval.spender = tx.to /\ approval.to = tx.in /\ approval.amount >= tx.amountIn
  BY DEF ApprovalFits
<1>1. PICK core, quote : tx \in executorBuild(core, quote) /\ swap.core = {core}
  BY DEF SwapInv, SwapBuilt
<1>2. PICK req \in Requests : swap.req = {req} /\ core \in buildRequest(req)
  BY <1>1, SwapCore
<1>3. isApproval(approval, req)
  BY <1>2 DEF SwapInv, SwapApproved
<1>4. PICK v \in venueFor(req), in \in assetID(req.tokenIn, req.chain), amount \in parseAmount(req.amountIn) :
         \E router \in routerAddress(v) : approval = BuildApproveTransaction(in, router, amount)
  BY <1>3 DEF isApproval
<1>5. PICK router \in routerAddress(v) : approval = BuildApproveTransaction(in, router, amount)
  BY <1>4
<1>6. /\ core.venue = req.venue /\ req.venue \in DOMAIN Venues
      /\ core.in \in assetID(req.tokenIn, req.chain)
      /\ core.amountIn = req.amountIn /\ core.amountIn \in Nat
  BY <1>2, CoreOfRequest
<1>7. v = core.venue /\ in = core.in /\ amount = core.amountIn
  BY <1>6 DEF venueFor, assetID, parseAmount
<1>8. tx.to = Venues[core.venue].router /\ tx.in = core.in /\ tx.amountIn = core.amountIn
  BY <1>1, <1>6, TxOfCore
<1>9. router = Venues[core.venue].router
  BY <1>7 DEF routerAddress
<1> QED  BY <1>5, <1>6, <1>7, <1>8, <1>9 DEF BuildApproveTransaction

\* A quote is exact at the fee it names, for any reserves and amount; and whatever fees the
\* pools take, a v2 quote errs to the side on which the pool's fee differs from 30.
THEOREM QuotesAreExactAtFee == SwapSpec => []QuoteExactAtFee
BY SwapInvariant, ExactFromInv, PTL

\* What the client signs is the swap it was quoted: the same pool, the least amount it
\* accepts, the approval that the router needs.
THEOREM SwapsFollowQuotes == SwapSpec => []SwapAsQuoted
<1>1. SwapInv => SwapAsQuoted
  BY TradedFromInv, PaidFromInv, ApprovalFromInv DEF SwapAsQuoted
<1> QED  BY <1>1, SwapInvariant, PTL

-----------------------------------------------------------------------------
(***************************************************************************)
(* Prices: the messages come from the right pools and the best conversion, *)
(* and the clients catch up.                                               *)
(***************************************************************************)

PricingSpec == PricingInit /\ [][PricingNext]_pricingVars

AllRows == UNION {ScannedRows[p] : p \in PoolIds}

\* A row for each pool, as a scan may find it.
IsTable(rows) == rows \in [PoolIds -> AllRows] /\ \A p \in PoolIds : rows[p] \in ScannedRows[p]

\* A message was computed from two readings of the table.
IsMessage(s, m) ==
    \E rows, later : \E best \in foundConversions(poolPrices(s, rows), later) :
        /\ IsTable(rows) /\ IsTable(later)
        /\ m = [entries |-> enrichUSDCPrices(poolPrices(s, rows), best), first |-> rows, second |-> later]

\* A computation has read the table once.
IsReading(m) ==
    \E s \in Symbols : \E rows :
        IsTable(rows) /\ m = [symbol |-> s, entries |-> poolPrices(s, rows), first |-> rows]

\* A message has the present row of a pool, or there is something that leads to another.
MessageFollows(s, p) ==
    \/ shown[s].first[p] = pools[p] /\ shown[s].second[p] = pools[p]
    \/ p \in unannounced
    \/ s \in due
    \/ reading # NoReading /\ reading.symbol = s

\* A computation has read the present row, or there is something that leads to another.
ReadingFollows(s, p) ==
    reading # NoReading /\ reading.symbol = s
    => \/ reading.first[p] = pools[p]
       \/ p \in unannounced
       \/ s \in due

PricingInv ==
    /\ IsTable(pools)
    /\ unannounced \subseteq PoolIds
    /\ due \subseteq Symbols
    /\ reading = NoReading \/ IsReading(reading)
    /\ shown = [s \in Symbols |-> shown[s]]
    /\ \A s \in Symbols : IsMessage(s, shown[s])
    /\ \A s \in Symbols, p \in PoolIds :
          s \in SymbolsForPools({p}) => MessageFollows(s, p) /\ ReadingFollows(s, p)

-----------------------------------------------------------------------------
(* The registry.                                                           *)

\* A deployment as the index has it.
refOf(s, d) == [symbol |-> s, chain |-> d.chain, id |-> d.id, decimals |-> d.decimals]

\* A reference is that of one deployment of its symbol.
LEMMA RefsOfSymbol ==
    ASSUME NEW s \in Symbols, NEW r
    PROVE  r \in deploymentRefs(s) <=> \E d \in Registry[s] : r = refOf(s, d)
BY DEF deploymentRefs, refOf

\* A key is that of one deployment of one symbol.
LEMMA KeysAreUnique ==
    ASSUME NEW s \in Symbols, NEW t \in Symbols, NEW r \in deploymentRefs(s), NEW q \in deploymentRefs(t),
           keyOf(r) = keyOf(q)
    PROVE  s = t /\ r = q
<1>1. PICK d \in Registry[s] : r = refOf(s, d)
  BY RefsOfSymbol
<1>2. PICK e \in Registry[t] : q = refOf(t, e)
  BY RefsOfSymbol
<1>3. d.chain = e.chain /\ d.id = e.id
  BY <1>1, <1>2 DEF keyOf, deploymentKey, refOf
<1>4. s = t /\ d = e
  BY <1>3, RegistryAssumption DEF Symbols
<1> QED  BY <1>1, <1>2, <1>4

\* The index finds the deployment of a key.
LEMMA IndexFinds ==
    /\ \A s \in Symbols : \A r \in deploymentRefs(s) :
          keyOf(r) \in DOMAIN deploymentIndex /\ deploymentIndex[keyOf(r)] = r
    /\ \A k \in DOMAIN deploymentIndex :
          /\ deploymentIndex[k].symbol \in Symbols
          /\ deploymentIndex[k] \in deploymentRefs(deploymentIndex[k].symbol)
          /\ keyOf(deploymentIndex[k]) = k
<1> DEFINE refs == UNION {deploymentRefs(s) : s \in Symbols}
<1>1. DOMAIN deploymentIndex = {keyOf(r) : r \in refs}
  BY DEF deploymentIndex
<1>2. ASSUME NEW k \in DOMAIN deploymentIndex
      PROVE  deploymentIndex[k] \in refs /\ keyOf(deploymentIndex[k]) = k
  <2>1. deploymentIndex[k] = CHOOSE r \in refs : keyOf(r) = k
    BY <1>1, <1>2 DEF deploymentIndex
  <2>2. \E r \in refs : keyOf(r) = k
    BY <1>1, <1>2
  <2> HIDE DEF refs
  <2> QED  BY <2>1, <2>2
<1>3. ASSUME NEW r \in refs PROVE r.symbol \in Symbols /\ r \in deploymentRefs(r.symbol)
  <2>1. PICK s \in Symbols : r \in deploymentRefs(s)
    OBVIOUS
  <2>2. r.symbol = s
    BY <2>1, RefsOfSymbol DEF refOf
  <2> QED  BY <2>1, <2>2
<1>4. ASSUME NEW s \in Symbols, NEW r \in deploymentRefs(s)
      PROVE  keyOf(r) \in DOMAIN deploymentIndex /\ deploymentIndex[keyOf(r)] = r
  <2>1. keyOf(r) \in DOMAIN deploymentIndex
    BY <1>1
  <2>2. PICK t \in Symbols : deploymentIndex[keyOf(r)] \in deploymentRefs(t)
    BY <1>2, <2>1
  <2> QED  BY <1>2, <2>1, <2>2, KeysAreUnique
<1> HIDE DEF refs
<1> QED  BY <1>2, <1>3, <1>4

\* The symbol of a reference.
LEMMA SymbolOfRef ==
    ASSUME NEW s \in Symbols, NEW r \in deploymentRefs(s)
    PROVE  r.symbol = s
BY RefsOfSymbol DEF refOf

\* The references of USDC, by the index.
LEMMA RefsByIndex ==
    ASSUME NEW s \in Symbols
    PROVE  refsBySymbol(s) = deploymentRefs(s)
<1>1. ASSUME NEW r \in refsBySymbol(s) PROVE r \in deploymentRefs(s)
  BY IndexFinds DEF refsBySymbol
<1>2. ASSUME NEW r \in deploymentRefs(s) PROVE r \in refsBySymbol(s)
  BY IndexFinds, SymbolOfRef DEF refsBySymbol
<1> QED  BY <1>1, <1>2

\* A chain has one USDC.
LEMMA UsdcIsUnique ==
    ASSUME NEW u \in deploymentRefs("USDC"), NEW v \in deploymentRefs("USDC"), u.chain = v.chain
    PROVE  u = v
<1>0. "USDC" \in Symbols
  BY RegistryAssumption DEF Symbols
<1>1. PICK d \in Registry["USDC"] : u = refOf("USDC", d)
  BY <1>0, RefsOfSymbol
<1>2. PICK e \in Registry["USDC"] : v = refOf("USDC", e)
  BY <1>0, RefsOfSymbol
<1>3. d.chain = e.chain
  BY <1>1, <1>2 DEF refOf
<1>4. d = e
  BY <1>3, RegistryAssumption
<1> QED  BY <1>1, <1>2, <1>4

\* What a pool trades, by chain and id and by key.
LEMMA TradesByKey ==
    ASSUME NEW p \in PoolIds, NEW d, NEW e
    PROVE  trades(p, d, e) <=> \/ keyOf(d) = key0(p) /\ keyOf(e) = key1(p)
                               \/ keyOf(d) = key1(p) /\ keyOf(e) = key0(p)
<1> DEFINE c == PoolTable[p].chain
           t0 == PoolTable[p].token0
           t1 == PoolTable[p].token1
<1>1. trades(p, d, e) <=> {d.chain, e.chain} = {c} /\ {d.id, e.id} = {t0, t1}
  BY DEF trades
<1>2. {d.chain, e.chain} = {c} <=> d.chain = c /\ e.chain = c
  OBVIOUS
<1>3. {d.id, e.id} = {t0, t1} <=> (d.id = t0 /\ e.id = t1) \/ (d.id = t1 /\ e.id = t0)
  OBVIOUS
<1>4. /\ keyOf(d) = key0(p) <=> d.chain = c /\ d.id = t0
      /\ keyOf(e) = key1(p) <=> e.chain = c /\ e.id = t1
      /\ keyOf(d) = key1(p) <=> d.chain = c /\ d.id = t1
      /\ keyOf(e) = key0(p) <=> e.chain = c /\ e.id = t0
  BY DEF keyOf, deploymentKey, key0, key1
<1> QED  BY <1>1, <1>2, <1>3, <1>4

\* A deployment trades as its reference does.
LEMMA RefTrades ==
    ASSUME NEW p \in PoolIds, NEW s, NEW d, NEW e
    PROVE  /\ trades(p, refOf(s, d), e) <=> trades(p, d, e)
           /\ trades(p, e, refOf(s, d)) <=> trades(p, e, d)
BY DEF trades, refOf

-----------------------------------------------------------------------------
(* The price in one pool.                                                  *)

\* What is priced: an asset in a pool against another.
IsEntry(s, p, row, e, b, q, baseIsToken0) ==
    /\ b \in deploymentRefs(s)
    /\ \E t \in Symbols : t # s /\ q \in deploymentRefs(t)
    /\ IF baseIsToken0 THEN keyOf(b) = key0(p) /\ keyOf(q) = key1(p)
       ELSE keyOf(b) = key1(p) /\ keyOf(q) = key0(p)
    /\ priced(p, row)
    /\ e = entryOf(p, row, b, q, baseIsToken0)

\* An entry is the price of the asset against another.
LEMMA EntryIs ==
    ASSUME NEW s \in Symbols, NEW p \in PoolIds, NEW row, NEW e \in poolPrice(s, p, row)
    PROVE  \E b, q : \E z \in BOOLEAN : IsEntry(s, p, row, e, b, q, z)
<1> DEFINE target == {keyOf(r) : r \in deploymentRefs(s)}
           index == deploymentIndex
           entry(b, q, z) == IF q \in DOMAIN index /\ index[q].symbol # s /\ priced(p, row)
                             THEN {entryOf(p, row, index[b], index[q], z)} ELSE {}
<1>1. ASSUME NEW b \in target, NEW q, NEW z \in BOOLEAN, e \in entry(b, q, z)
      PROVE  /\ index[b] \in deploymentRefs(s) /\ keyOf(index[b]) = b
             /\ \E t \in Symbols : t # s /\ index[q] \in deploymentRefs(t)
             /\ keyOf(index[q]) = q
             /\ priced(p, row) /\ e = entryOf(p, row, index[b], index[q], z)
  <2>1. index[b] \in deploymentRefs(s) /\ keyOf(index[b]) = b
    BY IndexFinds
  <2>2. q \in DOMAIN index /\ index[q].symbol # s /\ priced(p, row) /\ e = entryOf(p, row, index[b], index[q], z)
    BY <1>1
  <2>3. index[q].symbol \in Symbols /\ index[q] \in deploymentRefs(index[q].symbol) /\ keyOf(index[q]) = q
    BY <2>2, IndexFinds
  <2> QED  BY <2>1, <2>2, <2>3
<1>2. CASE key0(p) \in target
  <2>1. e \in entry(key0(p), key1(p), TRUE)
    BY <1>2 DEF poolPrice
  <2>2. IsEntry(s, p, row, e, index[key0(p)], index[key1(p)], TRUE)
    <3> HIDE DEF entry, index, target
    <3> QED  BY <1>1, <1>2, <2>1 DEF IsEntry
  <2> QED  BY <2>2
<1>3. CASE key0(p) \notin target
  <2>1. key1(p) \in target /\ e \in entry(key1(p), key0(p), FALSE)
    BY <1>3 DEF poolPrice
  <2>2. IsEntry(s, p, row, e, index[key1(p)], index[key0(p)], FALSE)
    <3> HIDE DEF entry, index, target
    <3> QED  BY <1>1, <2>1 DEF IsEntry
  <2> QED  BY <2>2
<1> QED  BY <1>2, <1>3

\* A pool with a price that trades the asset against another has an entry.
LEMMA EntryExists ==
    ASSUME NEW s \in Symbols, NEW p \in PoolIds, NEW row, priced(p, row),
           NEW t \in Symbols, t # s, NEW b \in deploymentRefs(s), NEW q \in deploymentRefs(t),
           trades(p, b, q)
    PROVE  \E e : e \in poolPrice(s, p, row)
<1> DEFINE target == {keyOf(r) : r \in deploymentRefs(s)}
<1>1. keyOf(b) \in target /\ keyOf(q) \notin target
  BY KeysAreUnique
<1>2. keyOf(q) \in DOMAIN deploymentIndex /\ deploymentIndex[keyOf(q)] = q /\ q.symbol = t
  BY IndexFinds, SymbolOfRef
<1>3. CASE keyOf(b) = key0(p) /\ keyOf(q) = key1(p)
  <2>1. entryOf(p, row, deploymentIndex[key0(p)], deploymentIndex[key1(p)], TRUE) \in poolPrice(s, p, row)
    BY <1>1, <1>2, <1>3 DEF poolPrice
  <2> QED  BY <2>1
<1>4. CASE keyOf(b) = key1(p) /\ keyOf(q) = key0(p)
  <2>1. entryOf(p, row, deploymentIndex[key1(p)], deploymentIndex[key0(p)], FALSE) \in poolPrice(s, p, row)
    BY <1>1, <1>2, <1>4 DEF poolPrice
  <2> QED  BY <2>1
<1> QED  BY <1>3, <1>4, TradesByKey

\* A pool that trades a reference is found by its id.
LEMMA PoolIsListed ==
    ASSUME NEW p \in PoolIds, NEW S, NEW d, NEW e, d \in S \/ e \in S, trades(p, d, e)
    PROVE  p \in ListPoolsByAssetIDs({r.id : r \in S})
<1>1. d.id \in {PoolTable[p].token0, PoolTable[p].token1} /\ e.id \in {PoolTable[p].token0, PoolTable[p].token1}
  BY DEF trades
<1> QED  BY <1>1 DEF ListPoolsByAssetIDs

\* The entries of a symbol are those of its pools.
LEMMA EntriesOf ==
    ASSUME NEW s \in Symbols, NEW rows, NEW e
    PROVE  e \in poolPrices(s, rows) <=> \E p \in PoolIds : e \in poolPrice(s, p, rows[p])
<1>1. ASSUME e \in poolPrices(s, rows) PROVE \E p \in PoolIds : e \in poolPrice(s, p, rows[p])
  BY <1>1 DEF poolPrices, ListPoolsByAssetIDs
<1>2. ASSUME NEW p \in PoolIds, e \in poolPrice(s, p, rows[p]) PROVE e \in poolPrices(s, rows)
  <2>1. PICK b, q : \E z \in BOOLEAN : IsEntry(s, p, rows[p], e, b, q, z)
    BY <1>2, EntryIs
  <2>3. b \in deploymentRefs(s) /\ trades(p, b, q)
    BY <2>1, TradesByKey DEF IsEntry
  <2>2. p \in ListPoolsByAssetIDs({r.id : r \in deploymentRefs(s)})
    BY <2>3, PoolIsListed
  <2> QED  BY <1>2, <2>2 DEF poolPrices
<1> QED  BY <1>1, <1>2

\* What the entries say of their pools, before and after the conversion.
LEMMA EnrichedKeeps ==
    ASSUME NEW s \in Symbols, NEW p \in PoolIds, NEW row, NEW e \in poolPrice(s, p, row), NEW best
    PROVE  /\ e.pool = p /\ enriched(e, best).pool = p
           /\ enriched(e, best).base = e.base /\ enriched(e, best).quote = e.quote
           /\ enriched(e, best).price = e.price
<1>1. PICK b, q : \E z \in BOOLEAN : IsEntry(s, p, row, e, b, q, z)
  BY EntryIs
<1>2. PICK z \in BOOLEAN : e = entryOf(p, row, b, q, z)
  BY <1>1 DEF IsEntry
<1> QED  BY <1>2 DEF entryOf, enriched

\* A message has the pools that trade the asset against another and have a price.
LEMMA MessagePools ==
    ASSUME NEW s \in Symbols, NEW m, IsMessage(s, m)
    PROVE  {e.pool : e \in m.entries} =
             {p \in PoolIds : /\ priced(p, m.first[p])
                              /\ \E t \in Symbols \ {s} :
                                    \E d \in Registry[s], other \in Registry[t] : trades(p, d, other)}
<1>1. PICK rows, later, best : m = [entries |-> enrichUSDCPrices(poolPrices(s, rows), best),
                                    first |-> rows, second |-> later]
  BY DEF IsMessage
<1>2. m.entries = {enriched(e, best) : e \in poolPrices(s, rows)} /\ m.first = rows
  BY <1>1 DEF enrichUSDCPrices
<1> DEFINE Trades(p) == \E t \in Symbols \ {s} : \E d \in Registry[s], other \in Registry[t] : trades(p, d, other)
<1>3. ASSUME NEW e \in m.entries
      PROVE  e.pool \in PoolIds /\ priced(e.pool, rows[e.pool]) /\ Trades(e.pool)
  <2>1. PICK f \in poolPrices(s, rows) : e = enriched(f, best)
    BY <1>2
  <2>2. PICK p \in PoolIds : f \in poolPrice(s, p, rows[p])
    BY EntriesOf
  <2>3. e.pool = p
    BY <2>1, <2>2, EnrichedKeeps
  <2>4. PICK b, q : \E z \in BOOLEAN : IsEntry(s, p, rows[p], f, b, q, z)
    BY <2>2, EntryIs
  <2>5. priced(p, rows[p]) /\ b \in deploymentRefs(s) /\ trades(p, b, q)
    BY <2>4, TradesByKey DEF IsEntry
  <2>6. PICK t \in Symbols : t # s /\ q \in deploymentRefs(t)
    BY <2>4 DEF IsEntry
  <2>7. PICK d \in Registry[s] : b = refOf(s, d)
    BY <2>5, RefsOfSymbol
  <2>8. PICK o \in Registry[t] : q = refOf(t, o)
    BY <2>6, RefsOfSymbol
  <2>9. trades(p, d, o)
    BY <2>5, <2>7, <2>8, RefTrades
  <2>10. Trades(p)
    BY <2>6, <2>9
  <2> QED  BY <2>3, <2>5, <2>10
<1>4. ASSUME NEW p \in PoolIds, priced(p, rows[p]), Trades(p)
      PROVE  \E e \in m.entries : e.pool = p
  <2>1. PICK t \in Symbols \ {s} : \E d \in Registry[s], other \in Registry[t] : trades(p, d, other)
    BY <1>4
  <2>2. PICK d \in Registry[s], o \in Registry[t] : trades(p, d, o)
    BY <2>1
  <2>3. refOf(s, d) \in deploymentRefs(s) /\ refOf(t, o) \in deploymentRefs(t) /\ trades(p, refOf(s, d), refOf(t, o))
    BY <2>2, RefsOfSymbol, RefTrades
  <2>4. PICK e : e \in poolPrice(s, p, rows[p])
    BY <1>4, <2>3, EntryExists
  <2>5. e \in poolPrices(s, rows) /\ enriched(e, best).pool = p
    BY <2>4, EntriesOf, EnrichedKeeps
  <2> QED  BY <1>2, <2>5
<1> HIDE DEF Trades
<1>5. {e.pool : e \in m.entries} = {p \in PoolIds : priced(p, m.first[p]) /\ Trades(p)}
  BY <1>2, <1>3, <1>4
<1> QED  BY <1>5 DEF Trades

-----------------------------------------------------------------------------
(* The best conversion.                                                    *)

\* What a pool offers is compared by numbers.
IsOffer(c) == c.usdc \in Nat /\ c.liquidity \in Nat

\* The comparison is an order, and a tie is with all that is as good.
LEMMA BetterIsOrder ==
    ASSUME NEW a, NEW b, NEW c, IsOffer(a), IsOffer(b), IsOffer(c)
    PROVE  /\ ~betterUSDCConversion(a, a)
           /\ betterUSDCConversion(a, b) /\ ~betterUSDCConversion(c, b) => betterUSDCConversion(a, c)
           /\ ~betterUSDCConversion(a, b) /\ ~betterUSDCConversion(b, c) => ~betterUSDCConversion(a, c)
           /\ ~betterUSDCConversion(a, b) /\ betterUSDCConversion(c, b) => ~betterUSDCConversion(a, c)
           /\ betterUSDCConversion(a, b) => ~betterUSDCConversion(b, a)
BY DEF betterUSDCConversion, IsOffer

offersStep(offers, best, p) == addConversion(offers, best, p)

\* The claim is about each place of the loop, not one that every step keeps.
NoClaim(d, x) == TRUE

Offers == INSTANCE FoldLemmas WITH step <- offersStep, Good <- NoClaim

\* The first of the best at place i among the first m pools.
IsFirstBest(order, offers, m, c, i) ==
    /\ i \in 1..m /\ c \in offers[order[i]]
    /\ \A j \in 1..m : \A n \in offers[order[j]] : n.key = c.key =>
          /\ j < i => betterUSDCConversion(c, n)
          /\ j > i => ~betterUSDCConversion(n, c)

\* The loop has taken the first of the best of each key.
TakenUpTo(order, offers, m, best) ==
    /\ \A c : c \in best <=> \E i \in 1..m : IsFirstBest(order, offers, m, c, i)
    /\ \A j \in 1..m : \A n \in offers[order[j]] :
          \E c \in best : c.key = n.key /\ ~betterUSDCConversion(n, c)

\* A pool offers one conversion or none.
OneOffer(order, offers, len) ==
    /\ \A j \in 1..len : \A n, c \in offers[order[j]] : n = c
    /\ \A j \in 1..len : \A n \in offers[order[j]] : IsOffer(n)

\* What the loop has is what some pool offered, and of each key one.
LEMMA TakenIsOffered ==
    ASSUME NEW order, NEW offers, NEW m \in Nat, NEW best, TakenUpTo(order, offers, m, best),
           OneOffer(order, offers, m), NEW c \in best
    PROVE  /\ IsOffer(c)
           /\ \E i \in 1..m : c \in offers[order[i]]
           /\ \A d \in best : d.key = c.key => d = c
           /\ \A j \in 1..m : \A n \in offers[order[j]] : n.key = c.key => ~betterUSDCConversion(n, c)
<1>1. PICK i \in 1..m : IsFirstBest(order, offers, m, c, i)
  BY DEF TakenUpTo
<1>2. c \in offers[order[i]] /\ IsOffer(c)
  BY <1>1 DEF IsFirstBest, OneOffer
<1>3. ASSUME NEW d \in best, d.key = c.key PROVE d = c
  <2>1. PICK j \in 1..m : IsFirstBest(order, offers, m, d, j)
    BY DEF TakenUpTo
  <2>2. d \in offers[order[j]] /\ IsOffer(d)
    BY <2>1 DEF IsFirstBest, OneOffer
  <2>3. /\ j < i => betterUSDCConversion(c, d)
        /\ i < j => betterUSDCConversion(d, c)
        /\ j > i => ~betterUSDCConversion(d, c)
        /\ i > j => ~betterUSDCConversion(c, d)
    BY <1>1, <1>2, <1>3, <2>1, <2>2 DEF IsFirstBest
  <2>4. i = j
    BY <2>3
  <2> QED  BY <1>2, <2>2, <2>4 DEF OneOffer
<1>4. ASSUME NEW j \in 1..m, NEW n \in offers[order[j]], n.key = c.key
      PROVE  ~betterUSDCConversion(n, c)
  <2>1. IsOffer(n)
    BY DEF OneOffer
  <2>2. /\ j < i => betterUSDCConversion(c, n)
        /\ j > i => ~betterUSDCConversion(n, c)
    BY <1>1, <1>4 DEF IsFirstBest
  <2>3. j = i => n = c
    BY <1>2 DEF OneOffer
  <2> QED  BY <1>2, <2>1, <2>2, <2>3, BetterIsOrder
<1> QED  BY <1>2, <1>3, <1>4

\* One more pool: a better offer takes the place of the one there is, another does not.
LEMMA OneMorePool ==
    ASSUME NEW order, NEW offers, NEW k \in Nat, NEW best, TakenUpTo(order, offers, k, best),
           OneOffer(order, offers, k + 1)
    PROVE  TakenUpTo(order, offers, k + 1, addConversion(offers, best, order[k + 1]))
<1> DEFINE m == k + 1
           new == offers[order[m]]
           next == addConversion(offers, best, order[m])
<1>1. OneOffer(order, offers, k) /\ 1..m = (1..k) \cup {m} /\ m \notin 1..k
  <2>1. 1..m = (1..k) \cup {m} /\ m \notin 1..k
    OBVIOUS
  <2> QED  BY <2>1 DEF OneOffer
<1>2. \A c : c \in next <=>
         \/ c \in best /\ \A n \in new : n.key = c.key => ~betterUSDCConversion(n, c)
         \/ c \in new /\ \A b \in best : b.key = c.key => betterUSDCConversion(c, b)
  BY DEF addConversion
<1>3. \A n, c \in new : n = c /\ IsOffer(n)
  BY <1>1 DEF OneOffer
<1>4. ASSUME NEW j \in 1..k, NEW n \in offers[order[j]]
      PROVE  IsOffer(n) /\ \E b \in best : b.key = n.key /\ ~betterUSDCConversion(n, b)
  BY <1>1 DEF OneOffer, TakenUpTo
<1> HIDE DEF next, new
<1>5. ASSUME NEW c \in next PROVE \E i \in 1..m : IsFirstBest(order, offers, m, c, i)
  <2>1. CASE c \in best /\ \A n \in new : n.key = c.key => ~betterUSDCConversion(n, c)
    <3>1. PICK i \in 1..k : IsFirstBest(order, offers, k, c, i)
      BY <2>1 DEF TakenUpTo
    <3>2. ASSUME NEW j \in 1..m, NEW n \in offers[order[j]], n.key = c.key
          PROVE  /\ j < i => betterUSDCConversion(c, n)
                 /\ j > i => ~betterUSDCConversion(n, c)
      <4>1. CASE j \in 1..k
        BY <3>1, <3>2, <4>1 DEF IsFirstBest
      <4>2. CASE j = m
        BY <2>1, <3>2, <4>2 DEF new
      <4> QED  BY <1>1, <4>1, <4>2
    <3>3. IsFirstBest(order, offers, m, c, i)
      BY <1>1, <3>1, <3>2 DEF IsFirstBest
    <3> QED  BY <1>1, <3>3
  <2>2. CASE c \in new /\ \A b \in best : b.key = c.key => betterUSDCConversion(c, b)
    <3>1. ASSUME NEW j \in 1..m, NEW n \in offers[order[j]], n.key = c.key
          PROVE  /\ j < m => betterUSDCConversion(c, n)
                 /\ j > m => ~betterUSDCConversion(n, c)
      <4>1. CASE j \in 1..k
        <5>1. PICK b \in best : b.key = n.key /\ ~betterUSDCConversion(n, b) /\ IsOffer(n)
          BY <1>4, <4>1
        <5>2. betterUSDCConversion(c, b) /\ IsOffer(b) /\ IsOffer(c)
          BY <1>1, <1>3, <2>2, <3>1, <5>1, TakenIsOffered
        <5> QED  BY <4>1, <5>1, <5>2, BetterIsOrder
      <4>2. CASE j = m
        BY <4>2
      <4> QED  BY <1>1, <4>1, <4>2
    <3>2. IsFirstBest(order, offers, m, c, m)
      BY <1>1, <2>2, <3>1 DEF IsFirstBest, new
    <3> QED  BY <1>1, <3>2
  <2> QED  BY <1>2, <2>1, <2>2
<1>6. ASSUME NEW c, NEW i \in 1..m, IsFirstBest(order, offers, m, c, i) PROVE c \in next
  <2>1. CASE i \in 1..k
    <3>1. IsFirstBest(order, offers, k, c, i)
      BY <1>1, <1>6, <2>1 DEF IsFirstBest
    <3>2. c \in best
      BY <2>1, <3>1 DEF TakenUpTo
    <3>3. ASSUME NEW n \in new, n.key = c.key PROVE ~betterUSDCConversion(n, c)
      BY <1>1, <1>6, <2>1, <3>3 DEF IsFirstBest, new
    <3> QED  BY <1>2, <3>2, <3>3
  <2>2. CASE i = m
    <3>1. c \in new
      BY <1>6, <2>2 DEF IsFirstBest, new
    <3>2. ASSUME NEW b \in best, c.key = b.key PROVE betterUSDCConversion(c, b)
      <4>1. PICK j \in 1..k : b \in offers[order[j]]
        BY <1>1, TakenIsOffered
      <4>2. j \in 1..m /\ j < m
        BY <4>1
      <4> QED  BY <1>6, <2>2, <3>2, <4>1, <4>2 DEF IsFirstBest
    <3> QED  BY <1>2, <3>1, <3>2
  <2> QED  BY <1>1, <2>1, <2>2
<1>7. ASSUME NEW j \in 1..m, NEW n \in offers[order[j]]
      PROVE  \E c \in next : c.key = n.key /\ ~betterUSDCConversion(n, c)
  <2>1. CASE j \in 1..k
    <3>1. PICK b \in best : b.key = n.key /\ ~betterUSDCConversion(n, b) /\ IsOffer(n) /\ IsOffer(b)
      BY <1>1, <1>4, <2>1, TakenIsOffered
    <3>2. CASE \A x \in new : x.key = b.key => ~betterUSDCConversion(x, b)
      BY <1>2, <3>1, <3>2
    <3>3. ASSUME NEW x \in new, x.key = b.key, betterUSDCConversion(x, b)
          PROVE  \E c \in next : c.key = n.key /\ ~betterUSDCConversion(n, c)
      <4>1. \A d \in best : d.key = x.key => d = b
        BY <1>1, <3>3, TakenIsOffered
      <4>2. x \in next
        BY <1>2, <3>3, <4>1
      <4>3. ~betterUSDCConversion(n, x)
        BY <1>3, <3>1, <3>3, BetterIsOrder
      <4> QED  BY <3>1, <3>3, <4>2, <4>3
    <3> QED  BY <3>2, <3>3
  <2>2. CASE j = m
    <3>1. n \in new /\ IsOffer(n)
      BY <1>3, <2>2 DEF new
    <3>2. CASE n \in next
      BY <3>1, <3>2, BetterIsOrder
    <3>3. CASE n \notin next
      <4>1. PICK b \in best : n.key = b.key /\ ~betterUSDCConversion(n, b)
        BY <1>2, <3>1, <3>3
      <4>2. b \in next
        BY <1>2, <1>3, <3>1, <4>1
      <4> QED  BY <4>1, <4>2
    <3> QED  BY <3>2, <3>3
  <2> QED  BY <1>1, <2>1, <2>2
<1>8. TakenUpTo(order, offers, m, next)
  BY <1>5, <1>6, <1>7 DEF TakenUpTo
<1> QED  BY <1>8 DEF next

\* The loop over all pools takes the first of the best of each key.
LEMMA FirstBestIsTaken ==
    ASSUME NEW order, NEW offers, NEW len \in Nat, DOMAIN order = 1..len, OneOffer(order, offers, len)
    PROVE  TakenUpTo(order, offers, len, conversions(order, offers))
<1>1. PICK acc : Offers!AreValues(acc, offers, {}, order, len)
  BY Offers!FoldLeftSteps
<1> DEFINE K == {i \in 0..len : TakenUpTo(order, offers, i, acc[i])}
<1>2. 0 \in K
  <2>1. acc[0] = {}
    BY <1>1 DEF Offers!AreValues
  <2>2. 1..0 = {}
    OBVIOUS
  <2> QED  BY <2>1, <2>2 DEF TakenUpTo, IsFirstBest
<1>3. ASSUME NEW i \in 1..len, i - 1 \in K PROVE i \in K
  <2>1. i - 1 \in Nat /\ (i - 1) + 1 = i
    OBVIOUS
  <2>2. acc[i] = addConversion(offers, acc[i - 1], order[i])
    BY <1>1 DEF Offers!AreValues, offersStep
  <2>3. OneOffer(order, offers, i)
    BY DEF OneOffer
  <2>4. TakenUpTo(order, offers, i - 1, acc[i - 1])
    BY <1>3
  <2>5. TakenUpTo(order, offers, i, addConversion(offers, acc[i - 1], order[i]))
    BY <2>1, <2>3, <2>4, OneMorePool
  <2> QED  BY <2>2, <2>5
<1> HIDE DEF K
<1>4. len \in K
  BY <1>2, <1>3, Offers!CountTo
<1>5. conversions(order, offers) = Offers!FoldFrom(offers, {}, order)
  BY DEF Offers!FoldFrom, Offers!FoldLeft, Offers!MapThenFoldSet, Offers!Max, FoldLeft, MapThenFoldSet, Max,
         conversions, offersStep
<1>6. conversions(order, offers) = acc[len]
  BY <1>1, <1>5 DEF Offers!AreValues
<1> QED  BY <1>4, <1>6 DEF K

-----------------------------------------------------------------------------
(* What the pools offer.                                                   *)

\* An asset that a pool trades against USDC, with a price.
Converts(p, row, b, u) ==
    /\ b.symbol \in Symbols \ {"USDC"} /\ b \in deploymentRefs(b.symbol)
    /\ u \in deploymentRefs("USDC")
    /\ trades(p, b, u)
    /\ priced(p, row)

\* What the pool says of it.
IsOfferOf(n, p, row, b, u) ==
    /\ Converts(p, row, b, u)
    /\ \E price \in poolPriceForBase(p, row, b, u) :
          n = [key |-> keyOf(b), price |-> price, route |-> p, usdc |-> reserveForAsset(p, row, u),
               liquidity |-> row.liquidity]

\* There is one USDC for it.
LEMMA ConvertedIsUnique ==
    ASSUME NEW p \in PoolIds, NEW row, NEW b, NEW u, Converts(p, row, b, u),
           NEW line, NEW c, NEW v, Converts(p, line, c, v)
    PROVE  b = c /\ u = v
<1>1. /\ b.symbol \in Symbols /\ b.symbol # "USDC" /\ b \in deploymentRefs(b.symbol)
      /\ c.symbol \in Symbols /\ c.symbol # "USDC" /\ c \in deploymentRefs(c.symbol)
      /\ u \in deploymentRefs("USDC") /\ v \in deploymentRefs("USDC") /\ "USDC" \in Symbols
  BY RegistryAssumption DEF Converts, Symbols
<1>2. /\ \/ keyOf(b) = key0(p) /\ keyOf(u) = key1(p)
         \/ keyOf(b) = key1(p) /\ keyOf(u) = key0(p)
      /\ \/ keyOf(c) = key0(p) /\ keyOf(v) = key1(p)
         \/ keyOf(c) = key1(p) /\ keyOf(v) = key0(p)
  BY TradesByKey DEF Converts
<1>3. keyOf(b) # keyOf(v) /\ keyOf(c) # keyOf(u)
  BY <1>1, KeysAreUnique
<1>4. keyOf(b) = keyOf(c) /\ keyOf(u) = keyOf(v)
  BY <1>2, <1>3
<1> QED  BY <1>1, <1>4, KeysAreUnique

\* The price of a converted asset is one.
LEMMA OnePrice ==
    ASSUME NEW p, NEW row, NEW b, NEW u, NEW x \in poolPriceForBase(p, row, b, u),
           NEW y \in poolPriceForBase(p, row, b, u)
    PROVE  x = y
<1>1. poolPriceForBase(p, row, b, u) = {} \/ \E z : poolPriceForBase(p, row, b, u) = {z}
  BY Zenon DEF poolPriceForBase
<1> QED  BY <1>1

\* A pool offers what it converts.
LEMMA OffersOf ==
    ASSUME NEW p \in PoolIds, NEW row, NEW n
    PROVE  n \in conversionsOf(p, row) <=> \E b, u : IsOfferOf(n, p, row, b, u)
<1> DEFINE refs == {deploymentIndex[k] : k \in {key0(p), key1(p)} \cap DOMAIN deploymentIndex}
           usdcs == usdcByChain(PoolTable[p].chain)
           Prices(b, u) == IF b.symbol = "USDC" THEN {} ELSE poolPriceForBase(p, row, b, u)
           Rec(b, u, price) == [key |-> keyOf(b), price |-> price, route |-> p,
                                usdc |-> reserveForAsset(p, row, u), liquidity |-> row.liquidity]
<1>0. "USDC" \in Symbols
  BY RegistryAssumption DEF Symbols
<1>1. n \in conversionsOf(p, row) <=>
        \E b \in refs, u \in usdcs : \E price \in Prices(b, u) : n = Rec(b, u, price)
  <2> DEFINE Of(b, u) == {Rec(b, u, price) : price \in Prices(b, u)}
  <2>1. conversionsOf(p, row) = UNION {Of(b, u) : b \in refs, u \in usdcs}
    BY DEF conversionsOf
  <2>2. \A b, u : n \in Of(b, u) <=> \E price \in Prices(b, u) : n = Rec(b, u, price)
    OBVIOUS
  <2> HIDE DEF Of, refs, usdcs, Prices, Rec
  <2> QED  BY <2>1, <2>2
<1>2. ASSUME NEW b \in refs
      PROVE  b.symbol \in Symbols /\ b \in deploymentRefs(b.symbol) /\ keyOf(b) \in {key0(p), key1(p)}
  BY IndexFinds
<1>3. ASSUME NEW u \in usdcs PROVE u \in deploymentRefs("USDC") /\ u.chain = PoolTable[p].chain
  BY <1>0, RefsByIndex DEF usdcByChain
<1>4. ASSUME NEW b, NEW u, NEW price \in poolPriceForBase(p, row, b, u)
      PROVE  priced(p, row) /\ trades(p, b, u)
  <2>1. priced(p, row) /\ \/ key0(p) = keyOf(b) /\ key1(p) = keyOf(u)
                          \/ key1(p) = keyOf(b) /\ key0(p) = keyOf(u)
    BY <1>4 DEF poolPriceForBase
  <2> QED  BY <2>1, TradesByKey
<1>5. ASSUME NEW b, NEW u, Converts(p, row, b, u) PROVE b \in refs /\ u \in usdcs /\ b.symbol # "USDC"
  <2>1. /\ b.symbol \in Symbols /\ b.symbol # "USDC" /\ b \in deploymentRefs(b.symbol)
        /\ u \in deploymentRefs("USDC") /\ trades(p, b, u)
    BY <1>5 DEF Converts
  <2>2. keyOf(b) \in {key0(p), key1(p)}
    BY <2>1, TradesByKey
  <2>3. keyOf(b) \in DOMAIN deploymentIndex /\ deploymentIndex[keyOf(b)] = b
    BY <2>1, IndexFinds
  <2>4. u.chain = PoolTable[p].chain
    BY <2>1 DEF trades
  <2>5. u \in usdcs
    BY <1>0, <2>1, <2>4, RefsByIndex DEF usdcByChain
  <2> QED  BY <2>1, <2>2, <2>3, <2>5
<1> HIDE DEF refs, usdcs
<1>6. ASSUME n \in conversionsOf(p, row) PROVE \E b, u : IsOfferOf(n, p, row, b, u)
  <2>1. PICK b \in refs, u \in usdcs : \E price \in Prices(b, u) : n = Rec(b, u, price)
    BY <1>1, <1>6
  <2>2. b.symbol # "USDC" /\ \E price \in poolPriceForBase(p, row, b, u) : n = Rec(b, u, price)
    BY <2>1
  <2>3. Converts(p, row, b, u)
    BY <1>2, <1>3, <1>4, <2>2 DEF Converts
  <2>4. IsOfferOf(n, p, row, b, u)
    BY <2>2, <2>3 DEF IsOfferOf
  <2> QED  BY <2>4
<1>7. ASSUME NEW b, NEW u, IsOfferOf(n, p, row, b, u) PROVE n \in conversionsOf(p, row)
  <2>1. Converts(p, row, b, u) /\ \E price \in poolPriceForBase(p, row, b, u) : n = Rec(b, u, price)
    BY <1>7 DEF IsOfferOf
  <2>2. b \in refs /\ u \in usdcs /\ \E price \in Prices(b, u) : n = Rec(b, u, price)
    BY <1>5, <2>1
  <2> HIDE DEF Prices, Rec
  <2> QED  BY <1>1, <2>2
<1> QED  BY <1>6, <1>7

\* What is converted is offered.
LEMMA ConvertedIsOffered ==
    ASSUME NEW p \in PoolIds, NEW row, NEW b, NEW u, Converts(p, row, b, u)
    PROVE  \E n \in conversionsOf(p, row) : IsOfferOf(n, p, row, b, u)
<1>1. priced(p, row) /\ trades(p, b, u)
  BY DEF Converts
<1>2. \E price : price \in poolPriceForBase(p, row, b, u)
  BY <1>1, TradesByKey DEF poolPriceForBase
<1>3. PICK n : IsOfferOf(n, p, row, b, u)
  BY <1>2 DEF IsOfferOf
<1> QED  BY <1>3, OffersOf

\* A pool offers one conversion or none, of the amounts in its row.
LEMMA OfferIsUnique ==
    ASSUME NEW p \in PoolIds, NEW row \in ScannedRows[p], NEW n \in conversionsOf(p, row)
    PROVE  /\ IsOffer(n) /\ n.route = p
           /\ \A m \in conversionsOf(p, row) : m = n
<1>1. PICK b, u : IsOfferOf(n, p, row, b, u)
  BY OffersOf
<1>2. PICK price \in poolPriceForBase(p, row, b, u) :
        n = [key |-> keyOf(b), price |-> price, route |-> p, usdc |-> reserveForAsset(p, row, u),
             liquidity |-> row.liquidity]
  BY <1>1 DEF IsOfferOf
<1>3. row.r0 \in Nat /\ row.r1 \in Nat /\ row.liquidity \in Nat
  BY RowsAssumption DEF PoolIds
<1>4. IsOffer(n) /\ n.route = p
  BY <1>2, <1>3 DEF IsOffer, reserveForAsset
<1>5. ASSUME NEW m \in conversionsOf(p, row) PROVE m = n
  <2>1. PICK c, v : IsOfferOf(m, p, row, c, v)
    BY OffersOf
  <2>2. PICK y \in poolPriceForBase(p, row, c, v) :
          m = [key |-> keyOf(c), price |-> y, route |-> p, usdc |-> reserveForAsset(p, row, v),
               liquidity |-> row.liquidity]
    BY <2>1 DEF IsOfferOf
  <2>3. b = c /\ u = v
    BY <1>1, <2>1, ConvertedIsUnique DEF IsOfferOf
  <2>4. y = price
    BY <2>3, OnePrice
  <2> QED  BY <1>2, <2>2, <2>3, <2>4
<1> QED  BY <1>4, <1>5

\* The amount of USDC in a pool, as the conversion and as the table has it.
LEMMA UsdcOfOffer ==
    ASSUME NEW p \in PoolIds, NEW row, NEW b, NEW u, trades(p, b, u), keyOf(b) # keyOf(u)
    PROVE  reserveForAsset(p, row, u) = usdcIn(p, row, u)
<1>1. \/ keyOf(b) = key0(p) /\ keyOf(u) = key1(p)
      \/ keyOf(b) = key1(p) /\ keyOf(u) = key0(p)
  BY TradesByKey
<1>2. u.chain = PoolTable[p].chain
  BY DEF trades
<1>3. keyOf(u) = key0(p) <=> u.id = PoolTable[p].token0
  BY <1>2 DEF keyOf, key0, deploymentKey
<1> QED  BY <1>1, <1>3 DEF reserveForAsset, usdcIn

-----------------------------------------------------------------------------
(* The orders in which a query may return the pools.                       *)

\* An order has every pool once.
LEMMA OrderHasAll ==
    ASSUME NEW S, IsFiniteSet(S), NEW order \in SetToSeqs(S)
    PROVE  /\ Cardinality(S) \in Nat
           /\ DOMAIN order = 1..Cardinality(S)
           /\ order \in [1..Cardinality(S) -> S]
           /\ \A i, j \in 1..Cardinality(S) : order[i] = order[j] => i = j
           /\ \A p \in S : \E i \in 1..Cardinality(S) : order[i] = p
<1> DEFINE n == Cardinality(S)
<1>1. n \in Nat
  BY FS_CardinalityType
<1>2. order \in [1..n -> S] /\ \A i, j \in 1..n : i # j => order[i] # order[j]
  BY DEF SetToSeqs
<1>3. order \in Injection(1..n, S)
  BY <1>2 DEF Injection, IsInjective
<1>4. Cardinality(1..n) = n
  BY <1>1, FS_Interval
<1>5. order \in Surjection(1..n, S)
  BY <1>3, <1>4, FS_Injection
<1>6. \A p \in S : \E i \in 1..n : order[i] = p
  BY <1>5 DEF Surjection
<1> HIDE DEF n
<1>7. DOMAIN order = 1..n /\ \A i, j \in 1..n : order[i] = order[j] => i = j
  BY <1>2
<1> QED  BY <1>1, <1>2, <1>6, <1>7 DEF n

\* A finite set has an enumeration.
LEMMA Enumeration ==
    ASSUME NEW S, IsFiniteSet(S)
    PROVE  \E n \in Nat, f \in [1..Cardinality(S) -> S] :
              /\ n = Cardinality(S)
              /\ \A i, j \in 1..n : f[i] = f[j] => i = j
              /\ \A p \in S : \E i \in 1..n : f[i] = p
<1>1. Cardinality(S) \in Nat /\ Bijection(1..Cardinality(S), S) # {}
  BY FS_CardinalityType DEF ExistsBijection
<1>2. PICK f \in Bijection(1..Cardinality(S), S) : TRUE
  BY <1>1
<1>3. f \in Injection(1..Cardinality(S), S) /\ f \in Surjection(1..Cardinality(S), S)
  BY <1>2 DEF Bijection
<1>4. f \in [1..Cardinality(S) -> S] /\ \A i, j \in 1..Cardinality(S) : f[i] = f[j] => i = j
  BY <1>3 DEF Injection, IsInjective
<1>5. \A p \in S : \E i \in 1..Cardinality(S) : f[i] = p
  BY <1>3 DEF Surjection
<1> QED  BY <1>1, <1>4, <1>5

\* Any of the pools may come before the others.
LEMMA OrderWithFirst ==
    ASSUME NEW S, IsFiniteSet(S), NEW R \in SUBSET S
    PROVE  \E order \in SetToSeqs(S) :
              \A i, j \in 1..Cardinality(S) : order[i] \in R /\ order[j] \notin R => i < j
<1> DEFINE Q == S \ R
<1>1. IsFiniteSet(R) /\ IsFiniteSet(Q)
  BY FS_Subset
<1>2. PICK a \in Nat, f \in [1..Cardinality(R) -> R] :
        /\ a = Cardinality(R)
        /\ \A i, j \in 1..a : f[i] = f[j] => i = j
        /\ \A p \in R : \E i \in 1..a : f[i] = p
  BY <1>1, Enumeration
<1>3. PICK b \in Nat, g \in [1..Cardinality(Q) -> Q] :
        /\ b = Cardinality(Q)
        /\ \A i, j \in 1..b : g[i] = g[j] => i = j
        /\ \A p \in Q : \E i \in 1..b : g[i] = p
  BY <1>1, Enumeration
<1>4. f \in [1..a -> R] /\ g \in [1..b -> Q]
  BY <1>2, <1>3
<1> HIDE DEF Q
<1> DEFINE n == a + b
           order == [i \in 1..n |-> IF i <= a THEN f[i] ELSE g[i - a]]
<1>5. ASSUME NEW i \in 1..n
      PROVE  \/ i <= a /\ i \in 1..a /\ order[i] = f[i] /\ order[i] \in R
             \/ i > a /\ i - a \in 1..b /\ order[i] = g[i - a] /\ order[i] \in Q
  <2>1. order[i] = IF i <= a THEN f[i] ELSE g[i - a]
    OBVIOUS
  <2> HIDE DEF order
  <2>2. CASE i <= a
    <3>1. i \in 1..a
      BY <2>2
    <3>2. f[i] \in R
      BY <1>4, <3>1
    <3> QED  BY <2>1, <2>2, <3>1, <3>2
  <2>3. CASE i > a
    <3>1. i - a \in 1..b /\ ~(i <= a)
      BY <2>3
    <3>2. g[i - a] \in Q
      BY <1>4, <3>1
    <3> QED  BY <2>1, <2>3, <3>1, <3>2
  <2> QED  BY <2>2, <2>3
<1>6. S = R \cup Q /\ R \cap Q = {}
  BY DEF Q
<1>7. order \in [1..n -> S]
  BY <1>5, <1>6
<1>8. ASSUME NEW i \in 1..n, NEW j \in 1..n, order[i] = order[j] PROVE i = j
  <2>1. i <= a <=> j <= a
    BY <1>5, <1>6, <1>8
  <2>2. CASE i <= a
    BY <1>2, <1>5, <1>8, <2>1, <2>2
  <2>3. CASE i > a
    <3>1. i - a = j - a
      BY <1>3, <1>5, <1>8, <2>1, <2>3
    <3> QED  BY <3>1
  <2> QED  BY <2>2, <2>3
<1>9. ASSUME NEW p \in S PROVE \E i \in 1..n : order[i] = p
  <2>1. CASE p \in R
    <3>1. PICK i \in 1..a : f[i] = p
      BY <1>2, <2>1
    <3>2. i \in 1..n /\ i <= a
      OBVIOUS
    <3> QED  BY <3>1, <3>2
  <2>2. CASE p \in Q
    <3>1. PICK i \in 1..b : g[i] = p
      BY <1>3, <2>2
    <3>2. i + a \in 1..n /\ ~(i + a <= a) /\ (i + a) - a = i
      OBVIOUS
    <3> QED  BY <3>1, <3>2
  <2> QED  BY <1>6, <2>1, <2>2
<1>10. \A i, j \in 1..n : order[i] \in R /\ order[j] \notin R => i < j
  BY <1>5, <1>6
<1>11. n \in Nat
  OBVIOUS
<1> HIDE DEF order, n
<1>12. order \in Bijection(1..n, S)
  BY <1>7, <1>8, <1>9 DEF Bijection, Injection, Surjection, IsInjective
<1>13. Cardinality(S) = n
  BY <1>11, <1>12, FS_CountingElements DEF ExistsBijection
<1>14. order \in SetToSeqs(S)
  BY <1>7, <1>8, <1>13 DEF SetToSeqs
<1> QED  BY <1>10, <1>13, <1>14

\* A choice of conversions: of each key one of the best that the pools offer.
IsChoice(best, S, rows) ==
    /\ \A c \in best : \E p \in S : c \in conversionsOf(p, rows[p])
    /\ \A c, d \in best : c.key = d.key => c = d
    /\ \A p \in S : \A n \in conversionsOf(p, rows[p]) :
          \E c \in best : c.key = n.key /\ ~betterUSDCConversion(n, c)

\* What may be found is any such choice: the loop takes one of the best, and of those that
\* are as good it takes the one that the query returns first.
LEMMA FoundIsChoice ==
    ASSUME NEW entries, NEW rows, IsTable(rows), NEW best
    PROVE  best \in foundConversions(entries, rows) <=> IsChoice(best, secondQuery(entries), rows)
<1> DEFINE Q == secondQuery(entries)
           offers == [p \in Q |-> conversionsOf(p, rows[p])]
           S == {p \in DOMAIN offers : offers[p] # {}}
           n == Cardinality(S)
<1>1. Q \subseteq PoolIds /\ S \subseteq Q
  BY DEF secondQuery, ListPoolsByAssetIDs
<1>2. IsFiniteSet(S)
  BY <1>1, FS_Subset, RowsAssumption DEF PoolIds
<1>3. ASSUME NEW p \in Q, NEW c \in conversionsOf(p, rows[p])
      PROVE  /\ p \in S /\ offers[p] = conversionsOf(p, rows[p])
             /\ IsOffer(c) /\ c.route = p /\ \A d \in conversionsOf(p, rows[p]) : d = c
  <2>1. p \in PoolIds /\ rows[p] \in ScannedRows[p]
    BY <1>1 DEF IsTable
  <2>2. IsOffer(c) /\ c.route = p /\ \A d \in conversionsOf(p, rows[p]) : d = c
    BY <2>1, OfferIsUnique
  <2> QED  BY <2>2
<1>4. \A p \in S : p \in Q /\ offers[p] = conversionsOf(p, rows[p])
  OBVIOUS
<1>5. best \in foundConversions(entries, rows) <=> \E order \in SetToSeqs(S) : best = conversions(order, offers)
  BY DEF foundConversions
<1> HIDE DEF S, offers, Q
<1>6. ASSUME NEW order \in SetToSeqs(S)
      PROVE  /\ n \in Nat /\ order \in [1..n -> S]
             /\ \A i, j \in 1..n : order[i] = order[j] => i = j
             /\ \A p \in S : \E i \in 1..n : order[i] = p
             /\ OneOffer(order, offers, n)
             /\ TakenUpTo(order, offers, n, conversions(order, offers))
  <2>1. /\ n \in Nat /\ order \in [1..n -> S] /\ DOMAIN order = 1..n
        /\ \A i, j \in 1..n : order[i] = order[j] => i = j
        /\ \A p \in S : \E i \in 1..n : order[i] = p
    BY <1>2, OrderHasAll
  <2> HIDE DEF n
  <2>2. OneOffer(order, offers, n)
    <3>1. ASSUME NEW j \in 1..n, NEW m \in offers[order[j]]
          PROVE  IsOffer(m) /\ \A c \in offers[order[j]] : m = c
      <4>1. order[j] \in Q /\ offers[order[j]] = conversionsOf(order[j], rows[order[j]])
        BY <1>4, <2>1
      <4> QED  BY <1>3, <3>1, <4>1
    <3> QED  BY <3>1 DEF OneOffer
  <2> QED  BY <2>1, <2>2, FirstBestIsTaken
<1> HIDE DEF n
<1>7. ASSUME NEW order \in SetToSeqs(S), best = conversions(order, offers) PROVE IsChoice(best, Q, rows)
  <2>1. ASSUME NEW c \in best
        PROVE  /\ \E p \in Q : c \in conversionsOf(p, rows[p])
               /\ \A d \in best : c.key = d.key => c = d
    <3>1. /\ \E i \in 1..n : c \in offers[order[i]]
          /\ \A d \in best : d.key = c.key => d = c
      BY <1>6, <1>7, TakenIsOffered
    <3>2. PICK i \in 1..n : c \in offers[order[i]]
      BY <3>1
    <3>3. order[i] \in S
      BY <1>6
    <3> QED  BY <1>4, <3>1, <3>2, <3>3
  <2>2. ASSUME NEW p \in Q, NEW m \in conversionsOf(p, rows[p])
        PROVE  \E c \in best : c.key = m.key /\ ~betterUSDCConversion(m, c)
    <3>1. p \in S /\ m \in offers[p]
      BY <1>3
    <3>2. PICK i \in 1..n : order[i] = p
      BY <1>6, <3>1
    <3> QED  BY <1>6, <1>7, <3>1, <3>2 DEF TakenUpTo
  <2> QED  BY <2>1, <2>2 DEF IsChoice
<1>8. ASSUME IsChoice(best, Q, rows)
      PROVE  \E order \in SetToSeqs(S) : best = conversions(order, offers)
  <2> DEFINE R == {c.route : c \in best}
  <2>1. ASSUME NEW c \in best PROVE c.route \in S /\ c \in offers[c.route]
    <3>1. PICK p \in Q : c \in conversionsOf(p, rows[p])
      BY <1>8 DEF IsChoice
    <3> QED  BY <1>3, <3>1
  <2>2. R \in SUBSET S
    BY <2>1
  <2>3. PICK order \in SetToSeqs(S) : \A i, j \in 1..n : order[i] \in R /\ order[j] \notin R => i < j
    BY <1>2, <2>2, OrderWithFirst DEF n
  <2> DEFINE taken == conversions(order, offers)
  <2>4. n \in Nat /\ TakenUpTo(order, offers, n, taken) /\ OneOffer(order, offers, n)
    BY <1>6
  <2> HIDE DEF taken
  <2>5. ASSUME NEW c \in best PROVE c \in taken
    <3>1. PICK i \in 1..n : order[i] = c.route
      BY <1>6, <2>1
    <3>2. ASSUME NEW j \in 1..n, NEW m \in offers[order[j]], m.key = c.key
          PROVE  /\ j < i => betterUSDCConversion(c, m)
                 /\ j > i => ~betterUSDCConversion(m, c)
      <4>1. order[j] \in S /\ order[i] \in R
        BY <1>6, <3>1
      <4>2. order[j] \in Q /\ m \in conversionsOf(order[j], rows[order[j]])
        BY <1>4, <4>1
      <4>3. ~betterUSDCConversion(m, c)
        BY <1>8, <3>2, <4>2 DEF IsChoice
      <4>4. ~(j < i)
        <5>1. SUFFICES ASSUME j < i PROVE FALSE
          OBVIOUS
        <5>2. order[j] \in R
          BY <2>3, <4>1, <5>1
        <5>3. PICK d \in best : d.route = order[j]
          BY <5>2
        <5>4. d \in conversionsOf(order[j], rows[order[j]])
          BY <1>4, <2>1, <4>1, <5>3
        <5>5. m = d
          BY <1>3, <4>2, <5>4
        <5>6. d = c
          BY <1>8, <3>2, <5>5 DEF IsChoice
        <5>7. order[j] = order[i]
          BY <3>1, <5>3, <5>6
        <5>8. j = i
          BY <1>6, <5>7
        <5> QED  BY <5>1, <5>8
      <4> QED  BY <4>3, <4>4
    <3>3. IsFirstBest(order, offers, n, c, i)
      BY <2>1, <3>1, <3>2 DEF IsFirstBest
    <3> QED  BY <2>4, <3>3 DEF TakenUpTo
  <2>6. ASSUME NEW t \in taken PROVE t \in best
    <3>1. /\ \E i \in 1..n : t \in offers[order[i]]
          /\ \A d \in taken : d.key = t.key => d = t
      BY <2>4, TakenIsOffered
    <3>2. PICK i \in 1..n : t \in offers[order[i]]
      BY <3>1
    <3>3. order[i] \in S
      BY <1>6
    <3>4. order[i] \in Q /\ t \in conversionsOf(order[i], rows[order[i]])
      BY <1>4, <3>2, <3>3
    <3>5. PICK c \in best : c.key = t.key
      BY <1>8, <3>4 DEF IsChoice
    <3> QED  BY <2>5, <3>1, <3>5
  <2>7. best = taken
    BY <2>5, <2>6
  <2> QED  BY <2>7 DEF taken
<1> QED  BY <1>5, <1>7, <1>8 DEF Q

\* Some choice is always found.
LEMMA SomethingIsFound ==
    ASSUME NEW entries, NEW rows
    PROVE  foundConversions(entries, rows) # {}
<1> DEFINE offers == [p \in secondQuery(entries) |-> conversionsOf(p, rows[p])]
           S == {p \in DOMAIN offers : offers[p] # {}}
<1>1. S \subseteq PoolIds
  BY DEF secondQuery, ListPoolsByAssetIDs
<1>2. IsFiniteSet(S)
  BY <1>1, FS_Subset, RowsAssumption DEF PoolIds
<1> HIDE DEF S
<1>3. {} \in SUBSET S
  OBVIOUS
<1>4. PICK order \in SetToSeqs(S) : TRUE
  BY <1>2, <1>3, OrderWithFirst
<1>5. conversions(order, offers) \in foundConversions(entries, rows)
  BY <1>4 DEF foundConversions, S
<1> QED  BY <1>5

-----------------------------------------------------------------------------
(* A message: the route and the value of an entry.                         *)

\* The conversions that were found for an asset.
FoundFor(best, ref) == {c \in best : c.key = keyOf(ref) /\ ref.symbol # "USDC"}

\* Its value in USDC, if it has one of its own.
ValueOf(best, ref) == IF ref.symbol = "USDC" THEN {Unit} ELSE {c.price : c \in FoundFor(best, ref)}

\* What the conversion adds to an entry.
LEMMA EnrichedIs ==
    ASSUME NEW s \in Symbols, NEW p \in PoolIds, NEW row, NEW f \in poolPrice(s, p, row), NEW best
    PROVE  /\ FoundFor(best, f.base) # {} =>
                 enriched(f, best).route = {c.route : c \in FoundFor(best, f.base)}
           /\ FoundFor(best, f.base) = {} =>
                 enriched(f, best).route = {c.route : c \in FoundFor(best, f.quote)}
           /\ enriched(f, best).baseUSDC =
                 IF ValueOf(best, f.base) # {} THEN ValueOf(best, f.base)
                 ELSE {multiplyDecimalStrings(f.price, q) : q \in ValueOf(best, f.quote)}
<1>1. PICK b, q : \E z \in BOOLEAN : IsEntry(s, p, row, f, b, q, z)
  BY EntryIs
<1>2. PICK z \in BOOLEAN : f = entryOf(p, row, b, q, z)
  BY <1>1 DEF IsEntry
<1> DEFINE base == IF ValueOf(best, f.base) # {} THEN ValueOf(best, f.base)
                   ELSE {multiplyDecimalStrings(f.price, x) : x \in ValueOf(best, f.quote)}
           quote == IF ValueOf(best, f.quote) # {} THEN ValueOf(best, f.quote)
                    ELSE UNION {divideDecimalStrings(x, f.price) : x \in base}
           via == IF FoundFor(best, f.base) # {} THEN FoundFor(best, f.base) ELSE FoundFor(best, f.quote)
<1>3. enriched(f, best) = [f EXCEPT !.baseUSDC = base, !.quoteUSDC = quote, !.route = {c.route : c \in via}]
  BY Zenon DEF enriched, FoundFor, ValueOf
<1> HIDE DEF base, quote, via
<1>4. enriched(f, best).route = {c.route : c \in via} /\ enriched(f, best).baseUSDC = base
  BY <1>2, <1>3 DEF entryOf
<1> QED  BY <1>4 DEF base, via

\* The route of an entry is that of its asset, or else that of its quote.
LEMMA RouteOf ==
    ASSUME NEW s \in Symbols, NEW rows, NEW f \in poolPrices(s, rows), NEW best
    PROVE  /\ FoundFor(best, f.base) # {} =>
                 enriched(f, best).route = {c.route : c \in FoundFor(best, f.base)}
           /\ FoundFor(best, f.base) = {} =>
                 enriched(f, best).route = {c.route : c \in FoundFor(best, f.quote)}
           /\ ValueOf(best, f.base) # {} => enriched(f, best).baseUSDC = ValueOf(best, f.base)
<1>1. PICK p \in PoolIds : f \in poolPrice(s, p, rows[p])
  BY EntriesOf
<1>2. PICK row : f \in poolPrice(s, p, row)
  BY <1>1
<1> QED  BY <1>2, EnrichedIs

\* A conversion that was found is one that a pool offers for the asset.
LEMMA FoundIsOffered ==
    ASSUME NEW entries, NEW rows, IsTable(rows), NEW best, IsChoice(best, secondQuery(entries), rows),
           NEW s \in Symbols, NEW b \in deploymentRefs(s), NEW c \in FoundFor(best, b)
    PROVE  /\ c.route \in secondQuery(entries) /\ c.route \in PoolIds
           /\ c \in conversionsOf(c.route, rows[c.route])
           /\ \E u : IsOfferOf(c, c.route, rows[c.route], b, u)
<1>1. c \in best /\ c.key = keyOf(b)
  BY DEF FoundFor
<1>2. PICK p \in secondQuery(entries) : c \in conversionsOf(p, rows[p])
  BY <1>1 DEF IsChoice
<1>3. p \in PoolIds /\ rows[p] \in ScannedRows[p]
  BY DEF secondQuery, ListPoolsByAssetIDs, IsTable
<1>4. c.route = p
  BY <1>2, <1>3, OfferIsUnique
<1>5. PICK d, u : IsOfferOf(c, p, rows[p], d, u)
  BY <1>2, <1>3, OffersOf
<1>6. c.key = keyOf(d) /\ d.symbol \in Symbols /\ d \in deploymentRefs(d.symbol)
  BY <1>5 DEF IsOfferOf, Converts
<1>7. d = b
  BY <1>1, <1>6, KeysAreUnique
<1> QED  BY <1>2, <1>3, <1>4, <1>5, <1>7

\* What an entry compares.
LEMMA EntryAssets ==
    ASSUME NEW s \in Symbols, NEW rows, NEW f \in poolPrices(s, rows)
    PROVE  \E p \in PoolIds : \E t \in Symbols :
              /\ f \in poolPrice(s, p, rows[p]) /\ f.pool = p
              /\ f.base \in deploymentRefs(s) /\ f.base.symbol = s
              /\ t # s /\ f.quote \in deploymentRefs(t) /\ f.quote.symbol = t
              /\ priced(p, rows[p])
              /\ \E z \in BOOLEAN : IsEntry(s, p, rows[p], f, f.base, f.quote, z)
<1>1. PICK p \in PoolIds : f \in poolPrice(s, p, rows[p])
  BY EntriesOf
<1>2. PICK b, q : \E z \in BOOLEAN : IsEntry(s, p, rows[p], f, b, q, z)
  BY <1>1, EntryIs
<1>3. PICK z \in BOOLEAN : IsEntry(s, p, rows[p], f, b, q, z)
  BY <1>2
<1>4. f.pool = p /\ f.base = b /\ f.quote = q
  BY <1>3 DEF IsEntry, entryOf
<1>5. PICK t \in Symbols : t # s /\ q \in deploymentRefs(t)
  BY <1>3 DEF IsEntry
<1>6. b \in deploymentRefs(s) /\ priced(p, rows[p])
  BY <1>3 DEF IsEntry
<1>7. b.symbol = s /\ q.symbol = t
  BY <1>5, <1>6, SymbolOfRef
<1> QED  BY <1>1, <1>3, <1>4, <1>5, <1>6, <1>7

\* The offer of another pool for the same asset is against the same USDC.
LEMMA SameUsdc ==
    ASSUME NEW p \in PoolIds, NEW q \in PoolIds, NEW row, NEW b, NEW u, NEW v, NEW line,
           Converts(p, row, b, u), Converts(q, line, b, v)
    PROVE  u = v
<1>1. b.chain = u.chain /\ b.chain = v.chain
  BY DEF Converts, trades
<1> QED  BY <1>1, UsdcIsUnique DEF Converts

\* The second query asks for the pools of every asset against USDC.
LEMMA UsdcIsAsked ==
    ASSUME NEW entries, NEW p \in PoolIds, NEW row, NEW b, NEW u, Converts(p, row, b, u)
    PROVE  p \in secondQuery(entries)
<1> DEFINE R == (UNION {{e.base, e.quote} : e \in entries}) \cup refsBySymbol("USDC")
<1>1. "USDC" \in Symbols /\ u \in deploymentRefs("USDC") /\ trades(p, b, u)
  BY RegistryAssumption DEF Symbols, Converts
<1>2. u \in R
  <2>1. u \in refsBySymbol("USDC")
    BY <1>1, RefsByIndex
  <2> QED  BY <2>1
<1> HIDE DEF R
<1>3. p \in ListPoolsByAssetIDs({r.id : r \in R})
  BY <1>1, <1>2, PoolIsListed
<1> QED  BY <1>3, Zenon DEF secondQuery, R

\* The route of an asset that some pool converts is the best there is.
LEMMA RouteIsBest ==
    ASSUME NEW s \in Symbols, NEW rows, NEW later, IsTable(rows), IsTable(later),
           NEW best \in foundConversions(poolPrices(s, rows), later),
           NEW f \in poolPrices(s, rows), f.base.symbol # "USDC",
           NEW w \in Registry["USDC"], NEW p \in PoolIds, trades(p, f.base, w), priced(p, later[p])
    PROVE  /\ enriched(f, best).route # {}
           /\ \A r \in enriched(f, best).route : trades(r, f.base, w) /\ atLeast(r, p, w, later)
<1> DEFINE entries == poolPrices(s, rows)
           b == f.base
           u == refOf("USDC", w)
<1>1. IsChoice(best, secondQuery(entries), later)
  BY FoundIsChoice
<1>2. PICK o \in PoolIds : f \in poolPrice(s, o, rows[o]) /\ b \in deploymentRefs(s) /\ b.symbol = s
  BY EntryAssets
<1>3. "USDC" \in Symbols /\ u \in deploymentRefs("USDC")
  BY RegistryAssumption, RefsOfSymbol DEF Symbols
<1>4. Converts(p, later[p], b, u)
  BY <1>2, <1>3, RefTrades DEF Converts
<1>5. PICK n \in conversionsOf(p, later[p]) : IsOfferOf(n, p, later[p], b, u)
  BY <1>4, ConvertedIsOffered
<1>6. n.key = keyOf(b) /\ n.usdc = reserveForAsset(p, later[p], u) /\ n.liquidity = later[p].liquidity
  BY <1>5 DEF IsOfferOf
<1>7. p \in secondQuery(entries)
  BY <1>4, UsdcIsAsked
<1>8. PICK c \in best : c.key = keyOf(b) /\ ~betterUSDCConversion(n, c)
  BY <1>1, <1>5, <1>6, <1>7 DEF IsChoice
<1>9. c \in FoundFor(best, b) /\ \A d \in FoundFor(best, b) : d = c
  BY <1>1, <1>8 DEF FoundFor, IsChoice
<1>10. enriched(f, best).route = {c.route}
  <2>1. FoundFor(best, b) = {c}
    BY <1>9
  <2>2. enriched(f, best).route = {x.route : x \in FoundFor(best, b)}
    BY <2>1, RouteOf
  <2> QED  BY <2>1, <2>2
<1> DEFINE r == c.route
<1>11. r \in PoolIds /\ c \in conversionsOf(r, later[r]) /\ \E v : IsOfferOf(c, r, later[r], b, v)
  BY <1>1, <1>2, <1>9, FoundIsOffered
<1>12. PICK v : IsOfferOf(c, r, later[r], b, v)
  BY <1>11
<1>13. Converts(r, later[r], b, v) /\ c.usdc = reserveForAsset(r, later[r], v) /\ c.liquidity = later[r].liquidity
  BY <1>12 DEF IsOfferOf
<1> HIDE DEF r, b, u
<1>14. v = u
  BY <1>4, <1>11, <1>13, SameUsdc
<1>15. keyOf(b) # keyOf(u)
  BY <1>2, <1>3, <1>4, KeysAreUnique DEF Converts
<1>16. trades(p, b, u) /\ trades(r, b, u)
  BY <1>4, <1>13, <1>14 DEF Converts
<1>17. n.usdc = usdcIn(p, later[p], u) /\ c.usdc = usdcIn(r, later[r], u)
  BY <1>6, <1>11, <1>13, <1>14, <1>15, <1>16, UsdcOfOffer
<1>18. later[p] \in ScannedRows[p] /\ later[r] \in ScannedRows[r]
  BY <1>11 DEF IsTable
<1>19. IsOffer(n) /\ IsOffer(c)
  BY <1>5, <1>11, <1>18, OfferIsUnique
<1>20. atLeast(r, p, u, later)
  BY <1>6, <1>8, <1>13, <1>17, <1>19 DEF betterUSDCConversion, atLeast, IsOffer
<1>21. atLeast(r, p, w, later)
  BY <1>20 DEF atLeast, usdcIn, u, refOf
<1>22. trades(r, b, w)
  BY <1>11, <1>16, RefTrades DEF u
<1> QED  BY <1>10, <1>21, <1>22 DEF r, b

\* In one pool the price and the conversion agree.
LEMMA PriceIsConversion ==
    ASSUME NEW s \in Symbols, NEW p \in PoolIds, NEW row, NEW f, NEW b, NEW q, NEW z \in BOOLEAN,
           IsEntry(s, p, row, f, b, q, z), NEW price \in poolPriceForBase(p, row, b, q)
    PROVE  price = f.price
<1>1. f.price = IF ~hasReserves(row) THEN sqrtPrice(row.sqrt, b, q, z)
                ELSE IF z THEN reservePrice(row.r0, row.r1, b, q)
                ELSE reservePrice(row.r1, row.r0, b, q)
  BY DEF IsEntry, entryOf
<1>2. PICK t \in Symbols : t # s /\ q \in deploymentRefs(t)
  BY DEF IsEntry
<1>3. keyOf(b) # keyOf(q)
  BY <1>2, KeysAreUnique DEF IsEntry
<1>4. CASE z = TRUE
  <2>1. key0(p) = keyOf(b) /\ key1(p) = keyOf(q) /\ priced(p, row)
    BY <1>4 DEF IsEntry
  <2>2. poolPriceForBase(p, row, b, q) = {IF hasReserves(row) THEN reservePrice(row.r0, row.r1, b, q)
                                          ELSE sqrtPrice(row.sqrt, b, q, TRUE)}
    BY <2>1 DEF poolPriceForBase
  <2>3. f.price = IF ~hasReserves(row) THEN sqrtPrice(row.sqrt, b, q, TRUE)
                  ELSE reservePrice(row.r0, row.r1, b, q)
    BY <1>1, <1>4, Zenon
  <2>4. CASE hasReserves(row)
    BY <2>2, <2>3, <2>4
  <2>5. CASE ~hasReserves(row)
    BY <2>2, <2>3, <2>5
  <2> QED  BY <2>4, <2>5
<1>5. CASE z = FALSE
  <2>1. key1(p) = keyOf(b) /\ key0(p) = keyOf(q) /\ priced(p, row) /\ key0(p) # keyOf(b)
    BY <1>3, <1>5 DEF IsEntry
  <2>2. poolPriceForBase(p, row, b, q) = {IF hasReserves(row) THEN reservePrice(row.r1, row.r0, b, q)
                                          ELSE sqrtPrice(row.sqrt, b, q, FALSE)}
    BY <2>1 DEF poolPriceForBase
  <2>3. f.price = IF ~hasReserves(row) THEN sqrtPrice(row.sqrt, b, q, FALSE)
                  ELSE reservePrice(row.r1, row.r0, b, q)
    BY <1>1, <1>5, Zenon
  <2>4. CASE hasReserves(row)
    BY <2>2, <2>3, <2>4
  <2>5. CASE ~hasReserves(row)
    BY <2>2, <2>3, <2>5
  <2> QED  BY <2>4, <2>5
<1> QED  BY <1>4, <1>5

\* An asset converted in its own pool, read once, has the price as its value.
LEMMA ValueIsPrice ==
    ASSUME NEW s \in Symbols, NEW rows, IsTable(rows),
           NEW best \in foundConversions(poolPrices(s, rows), rows),
           NEW f \in poolPrices(s, rows), f.quote.symbol = "USDC", enriched(f, best).route = {f.pool}
    PROVE  enriched(f, best).baseUSDC = {f.price}
<1> DEFINE entries == poolPrices(s, rows)
           b == f.base
           q == f.quote
<1>1. IsChoice(best, secondQuery(entries), rows)
  BY FoundIsChoice
<1>2. PICK p \in PoolIds : \E t \in Symbols :
              /\ f \in poolPrice(s, p, rows[p]) /\ f.pool = p
              /\ b \in deploymentRefs(s) /\ b.symbol = s
              /\ t # s /\ q \in deploymentRefs(t) /\ q.symbol = t
              /\ priced(p, rows[p])
              /\ \E z \in BOOLEAN : IsEntry(s, p, rows[p], f, b, q, z)
  BY EntryAssets
<1>3. q \in deploymentRefs("USDC") /\ s # "USDC"
  BY <1>2
<1>4. FoundFor(best, q) = {}
  BY DEF FoundFor
<1>5. FoundFor(best, b) # {}
  <2>1. SUFFICES ASSUME FoundFor(best, b) = {} PROVE FALSE
    OBVIOUS
  <2>2. enriched(f, best).route = {c.route : c \in FoundFor(best, q)}
    BY <2>1, RouteOf
  <2> QED  BY <1>4, <2>2
<1>6. enriched(f, best).route = {c.route : c \in FoundFor(best, b)}
  BY <1>5, RouteOf
<1>7. ValueOf(best, b) = {c.price : c \in FoundFor(best, b)}
  BY <1>2, <1>3 DEF ValueOf
<1>8. ASSUME NEW c \in FoundFor(best, b) PROVE c.price = f.price
  <2>1. c.route = p
    BY <1>2, <1>6
  <2>2. \E u : IsOfferOf(c, p, rows[p], b, u)
    BY <1>1, <1>2, <2>1, FoundIsOffered
  <2>3. PICK u : IsOfferOf(c, p, rows[p], b, u)
    BY <2>2
  <2>4. PICK z \in BOOLEAN : IsEntry(s, p, rows[p], f, b, q, z)
    BY <1>2
  <2>5. trades(p, b, q) /\ priced(p, rows[p])
    BY <2>4, TradesByKey DEF IsEntry
  <2>6. Converts(p, rows[p], b, q)
    BY <1>2, <1>3, <2>5 DEF Converts
  <2>7. u = q
    BY <2>3, <2>6, ConvertedIsUnique DEF IsOfferOf
  <2>8. c.price \in poolPriceForBase(p, rows[p], b, q)
    BY <2>3, <2>7 DEF IsOfferOf
  <2> QED  BY <2>4, <2>8, PriceIsConversion
<1>9. ValueOf(best, b) = {f.price}
  BY <1>5, <1>7, <1>8
<1>10. enriched(f, best).baseUSDC = ValueOf(best, b)
  BY <1>9, RouteOf
<1> QED  BY <1>9, <1>10

-----------------------------------------------------------------------------
(* The invariant.                                                          *)

\* A computation in progress has a symbol and one reading of the table.
LEMMA ReadingIs ==
    ASSUME PricingInv, reading # NoReading
    PROVE  /\ reading.symbol \in Symbols /\ IsTable(reading.first)
           /\ reading.entries = poolPrices(reading.symbol, reading.first)
<1>1. PICK s \in Symbols : \E rows :
        IsTable(rows) /\ reading = [symbol |-> s, entries |-> poolPrices(s, rows), first |-> rows]
  BY DEF PricingInv, IsReading
<1>2. PICK rows : IsTable(rows) /\ reading = [symbol |-> s, entries |-> poolPrices(s, rows), first |-> rows]
  BY <1>1
<1> QED  BY <1>2

\* The symbols of a pool are those of its two tokens.
LEMMA SymbolsOfPool ==
    ASSUME NEW p \in PoolIds
    PROVE  /\ SymbolsForPools({p}) \subseteq Symbols
           /\ \A s \in Symbols : \A b \in deploymentRefs(s) :
                 keyOf(b) \in {key0(p), key1(p)} => s \in SymbolsForPools({p})
<1> DEFINE K == {key0(p), key1(p)} \cap DOMAIN deploymentIndex
<1>1. SymbolsForPools({p}) = {deploymentIndex[k].symbol : k \in K}
  <2>1. UNION {{key0(q), key1(q)} : q \in {p}} = {key0(p), key1(p)}
    OBVIOUS
  <2> QED  BY <2>1 DEF SymbolsForPools
<1>2. \A k \in K : deploymentIndex[k].symbol \in Symbols
  BY IndexFinds
<1>3. ASSUME NEW s \in Symbols, NEW b \in deploymentRefs(s), keyOf(b) \in {key0(p), key1(p)}
      PROVE  keyOf(b) \in K /\ deploymentIndex[keyOf(b)].symbol = s
  BY <1>3, IndexFinds, SymbolOfRef
<1> HIDE DEF K
<1> QED  BY <1>1, <1>2, <1>3

\* The first messages are computed from the table as it is.
LEMMA PricingInitInv == PricingInit => PricingInv
<1> SUFFICES ASSUME PricingInit PROVE PricingInv
  OBVIOUS
<1>1. IsTable(pools) /\ unannounced = {} /\ due = {} /\ reading = NoReading
  BY DEF PricingInit, IsTable, AllRows
<1> DEFINE Found(s) == foundConversions(poolPrices(s, pools), pools)
           Chosen(s) == CHOOSE best \in Found(s) : TRUE
           Message(s) == [entries |-> enrichUSDCPrices(poolPrices(s, pools), Chosen(s)),
                          first |-> pools, second |-> pools]
<1>2. shown = [s \in Symbols |-> Message(s)]
  BY Zenon DEF PricingInit
<1>3. ASSUME NEW s \in Symbols PROVE Chosen(s) \in Found(s)
  <2>1. Found(s) # {}
    BY SomethingIsFound
  <2> HIDE DEF Found
  <2> QED  BY <2>1
<1> HIDE DEF Chosen
<1>4. ASSUME NEW s \in Symbols PROVE IsMessage(s, shown[s])
  <2>1. shown[s] = Message(s)
    BY <1>2
  <2> QED  BY <1>1, <1>3, <2>1 DEF IsMessage
<1>5. ASSUME NEW s \in Symbols, NEW p \in PoolIds PROVE MessageFollows(s, p) /\ ReadingFollows(s, p)
  <2>1. shown[s] = Message(s)
    BY <1>2
  <2>2. shown[s].first = pools /\ shown[s].second = pools
    BY <2>1
  <2> QED  BY <1>1, <2>2 DEF MessageFollows, ReadingFollows
<1>6. shown = [s \in Symbols |-> shown[s]]
  BY <1>2
<1> QED  BY <1>1, <1>4, <1>5, <1>6 DEF PricingInv

\* A saved pool is one to announce.
LEMMA SaveInv ==
    ASSUME PricingInv, NEW p \in PoolIds, SavePool(p)
    PROVE  PricingInv'
<1>1. PICK row \in ScannedRows[p] : pools' = [pools EXCEPT ![p] = row]
  BY DEF SavePool
<1>2. unannounced' = unannounced \cup {p} /\ due' = due /\ reading' = reading /\ shown' = shown
  BY DEF SavePool
<1>3. IsTable(pools')
  <2>1. row \in AllRows
    BY DEF AllRows
  <2>2. pools \in [PoolIds -> AllRows] /\ \A q \in PoolIds : pools[q] \in ScannedRows[q]
    BY DEF PricingInv, IsTable
  <2>3. pools' \in [PoolIds -> AllRows]
    BY <1>1, <2>1, <2>2
  <2>4. \A q \in PoolIds : pools'[q] \in ScannedRows[q]
    BY <1>1, <2>2
  <2> QED  BY <2>3, <2>4 DEF IsTable
<1>4. ASSUME NEW s \in Symbols, NEW q \in PoolIds, s \in SymbolsForPools({q})
      PROVE  MessageFollows(s, q)' /\ ReadingFollows(s, q)'
  <2>1. MessageFollows(s, q) /\ ReadingFollows(s, q)
    BY <1>4 DEF PricingInv
  <2>2. CASE q = p
    BY <1>2, <2>2 DEF MessageFollows, ReadingFollows
  <2>3. CASE q # p
    <3>1. pools'[q] = pools[q]
      BY <1>1, <2>3 DEF PricingInv, IsTable
    <3> QED  BY <1>2, <2>1, <3>1 DEF MessageFollows, ReadingFollows
  <2> QED  BY <2>2, <2>3
<1>5. unannounced' \subseteq PoolIds
  BY <1>2 DEF PricingInv
<1>6. IsTable(pools)'
  BY <1>3 DEF IsTable
<1> QED  BY <1>2, <1>4, <1>5, <1>6 DEF PricingInv

\* An announcement makes the symbols of the pool due.
LEMMA PublishInv ==
    ASSUME PricingInv, NEW p \in PoolIds, publishPriceUpdates(p)
    PROVE  PricingInv'
<1>1. /\ unannounced' = unannounced \ {p} /\ due' = due \cup SymbolsForPools({p})
      /\ reading' = reading /\ shown' = shown /\ pools' = pools
  BY DEF publishPriceUpdates
<1>2. SymbolsForPools({p}) \subseteq Symbols
  BY SymbolsOfPool
<1>3. unannounced' \subseteq PoolIds /\ due' \subseteq Symbols
  BY <1>1, <1>2 DEF PricingInv
<1>4. ASSUME NEW s \in Symbols, NEW q \in PoolIds, s \in SymbolsForPools({q})
      PROVE  MessageFollows(s, q)' /\ ReadingFollows(s, q)'
  <2>1. MessageFollows(s, q) /\ ReadingFollows(s, q)
    BY <1>4 DEF PricingInv
  <2>2. q \in unannounced => q \in unannounced' \/ s \in due'
    BY <1>1, <1>4
  <2>3. s \in due => s \in due'
    BY <1>1
  <2> QED  BY <1>1, <2>1, <2>2, <2>3 DEF MessageFollows, ReadingFollows
<1>5. IsTable(pools)'
  BY <1>1 DEF PricingInv, IsTable
<1> QED  BY <1>1, <1>3, <1>4, <1>5 DEF PricingInv

\* A computation starts from the table as it is.
LEMMA BeginInv ==
    ASSUME PricingInv, NEW s \in Symbols, BeginPrices(s)
    PROVE  PricingInv'
<1>1. /\ reading = NoReading /\ due' = due \ {s}
      /\ reading' = [symbol |-> s, entries |-> poolPrices(s, pools), first |-> pools]
      /\ unannounced' = unannounced /\ shown' = shown /\ pools' = pools
  BY DEF BeginPrices
<1>2. IsTable(pools) /\ IsTable(pools)'
  BY <1>1 DEF PricingInv, IsTable
<1>3. IsReading(reading)'
  <2>1. IsReading(reading')
    BY <1>1, <1>2 DEF IsReading
  <2> QED  BY <2>1 DEF IsReading, IsTable
<1>4. ASSUME NEW t \in Symbols, NEW q \in PoolIds, t \in SymbolsForPools({q})
      PROVE  MessageFollows(t, q)' /\ ReadingFollows(t, q)'
  <2>1. MessageFollows(t, q)
    BY <1>4 DEF PricingInv
  <2>2. reading'.symbol = s /\ reading'.first = pools
    BY <1>1
  <2>3. ReadingFollows(t, q)'
    BY <1>1, <2>2 DEF ReadingFollows
  <2>4. reading' # NoReading
    <3>1. DOMAIN pools = PoolIds
      BY <1>2 DEF IsTable
    <3>2. pools # << >>
      BY <3>1
    <3>3. NoReading.first = << >>
      BY DEF NoReading
    <3> QED  BY <2>2, <3>2, <3>3
  <2>5. t \in due => t \in due' \/ t = s
    BY <1>1
  <2>6. CASE t = s
    <3>1. reading' # NoReading' /\ reading'.symbol = t
      BY <2>2, <2>4, <2>6 DEF NoReading
    <3> QED  BY <2>3, <3>1 DEF MessageFollows
  <2>7. CASE t # s
    BY <1>1, <2>1, <2>3, <2>5, <2>7 DEF MessageFollows
  <2> QED  BY <2>3, <2>6, <2>7
<1>5. due' \subseteq Symbols
  BY <1>1 DEF PricingInv
<1> QED  BY <1>1, <1>2, <1>3, <1>4, <1>5 DEF PricingInv

\* A message follows the reading of its computation, and the table as it is.
LEMMA EndInv ==
    ASSUME PricingInv, EndPrices
    PROVE  PricingInv'
<1> DEFINE s == reading.symbol
           rows == reading.first
<1>1. reading # NoReading /\ reading' = NoReading /\ unannounced' = unannounced /\ due' = due /\ pools' = pools
  BY DEF EndPrices
<1>2. s \in Symbols /\ IsTable(rows) /\ reading.entries = poolPrices(s, rows)
  BY <1>1, ReadingIs
<1> DEFINE Message(best) == [entries |-> enrichUSDCPrices(poolPrices(s, rows), best),
                             first |-> rows, second |-> pools]
<1>3. PICK best \in foundConversions(poolPrices(s, rows), pools) :
        shown' = [shown EXCEPT ![s] = Message(best)]
  BY <1>2 DEF EndPrices
<1> HIDE DEF s, rows
<1>4. shown = [t \in Symbols |-> shown[t]] /\ IsTable(pools) /\ \A t \in Symbols : IsMessage(t, shown[t])
  BY DEF PricingInv
<1>5. /\ shown' = [t \in Symbols |-> shown'[t]]
      /\ shown'[s] = Message(best)
      /\ \A t \in Symbols : t # s => shown'[t] = shown[t]
  <2> HIDE DEF Message
  <2>1. shown' = [t \in Symbols |-> IF t = s THEN Message(best) ELSE shown[t]]
    BY <1>3, <1>4
  <2> QED  BY <1>2, <2>1
<1>6. ASSUME NEW t \in Symbols PROVE IsMessage(t, shown[t])'
  <2>1. CASE t = s
    <3>1. IsMessage(s, Message(best))
      BY <1>2, <1>3, <1>4 DEF IsMessage
    <3>2. IsMessage(t, shown'[t])
      BY <1>5, <2>1, <3>1
    <3> QED  BY <3>2 DEF IsMessage, IsTable
  <2>2. CASE t # s
    <3>1. IsMessage(t, shown'[t])
      BY <1>4, <1>5, <2>2
    <3> QED  BY <3>1 DEF IsMessage, IsTable
  <2> QED  BY <2>1, <2>2
<1>7. ASSUME NEW t \in Symbols, NEW p \in PoolIds, t \in SymbolsForPools({p})
      PROVE  MessageFollows(t, p)' /\ ReadingFollows(t, p)'
  <2>1. MessageFollows(t, p) /\ ReadingFollows(t, p)
    BY <1>7 DEF PricingInv
  <2>2. ReadingFollows(t, p)'
    BY <1>1 DEF ReadingFollows, NoReading
  <2>3. CASE t = s
    <3>1. shown'[t].first = rows /\ shown'[t].second = pools
      BY <1>5, <2>3
    <3>2. rows[p] = pools[p] \/ p \in unannounced \/ t \in due
      BY <1>1, <2>1, <2>3 DEF ReadingFollows, s, rows
    <3> QED  BY <1>1, <2>2, <3>1, <3>2 DEF MessageFollows
  <2>4. CASE t # s
    <3>1. shown'[t] = shown[t]
      BY <1>5, <2>4
    <3>2. \/ shown[t].first[p] = pools[p] /\ shown[t].second[p] = pools[p]
          \/ p \in unannounced
          \/ t \in due
      BY <2>1, <2>4 DEF MessageFollows, s
    <3> QED  BY <1>1, <2>2, <3>1, <3>2 DEF MessageFollows
  <2> QED  BY <2>2, <2>3, <2>4
<1>8. IsTable(pools)'
  BY <1>1, <1>4 DEF IsTable
<1>9. (reading = NoReading)'
  BY <1>1 DEF NoReading
<1>10. unannounced' \subseteq PoolIds /\ due' \subseteq Symbols
  BY <1>1 DEF PricingInv
<1> QED  BY <1>5, <1>6, <1>7, <1>8, <1>9, <1>10 DEF PricingInv

\* Every step keeps the invariant.
LEMMA PricingStepInv ==
    ASSUME PricingInv, [PricingNext]_pricingVars
    PROVE  PricingInv'
<1>1. CASE UNCHANGED pricingVars
  <2>1. pools' = pools /\ unannounced' = unannounced /\ due' = due /\ reading' = reading /\ shown' = shown
    BY <1>1 DEF pricingVars
  <2>2. IsTable(pools)' /\ unannounced' \subseteq PoolIds /\ due' \subseteq Symbols
    BY <2>1 DEF PricingInv, IsTable
  <2>3. (reading = NoReading \/ IsReading(reading))'
    BY <2>1 DEF PricingInv, NoReading, IsReading, IsTable
  <2>4. \A s \in Symbols : IsMessage(s, shown[s])'
    BY <2>1 DEF PricingInv, IsMessage, IsTable
  <2>5. ASSUME NEW s \in Symbols, NEW p \in PoolIds, s \in SymbolsForPools({p})
        PROVE  MessageFollows(s, p)' /\ ReadingFollows(s, p)'
    <3>1. MessageFollows(s, p) /\ ReadingFollows(s, p)
      BY <2>5 DEF PricingInv
    <3> QED  BY <2>1, <3>1 DEF MessageFollows, ReadingFollows, NoReading
  <2>6. (shown = [s \in Symbols |-> shown[s]])'
    BY <2>1 DEF PricingInv
  <2> QED  BY <2>2, <2>3, <2>4, <2>5, <2>6 DEF PricingInv
<1>2. CASE PricingNext
  BY <1>2, SaveInv, PublishInv, BeginInv, EndInv DEF PricingNext
<1> QED  BY <1>1, <1>2

\* The invariant holds of every run, whatever the registry, the pools and what the scans
\* find: each message was computed from two readings of the table, and what it has not
\* read is announced, due or being computed.
THEOREM PricingInvariant == PricingSpec => []PricingInv
<1>1. PricingInit => PricingInv
  BY PricingInitInv
<1>2. PricingInv /\ [PricingNext]_pricingVars => PricingInv'
  BY PricingStepInv
<1> QED  BY <1>1, <1>2, PTL DEF PricingSpec

-----------------------------------------------------------------------------
(* The messages are right.                                                 *)

\* A message reads the table twice: what was found in it.
LEMMA MessageIs ==
    ASSUME NEW s \in Symbols, NEW m, IsMessage(s, m)
    PROVE  /\ IsTable(m.first) /\ IsTable(m.second)
           /\ \E best \in foundConversions(poolPrices(s, m.first), m.second) :
                 m.entries = {enriched(f, best) : f \in poolPrices(s, m.first)}
<1>1. PICK rows : \E later : \E best \in foundConversions(poolPrices(s, rows), later) :
        /\ IsTable(rows) /\ IsTable(later)
        /\ m = [entries |-> enrichUSDCPrices(poolPrices(s, rows), best), first |-> rows, second |-> later]
  BY DEF IsMessage
<1>2. PICK later : \E best \in foundConversions(poolPrices(s, rows), later) :
        /\ IsTable(rows) /\ IsTable(later)
        /\ m = [entries |-> enrichUSDCPrices(poolPrices(s, rows), best), first |-> rows, second |-> later]
  BY <1>1
<1>3. PICK best \in foundConversions(poolPrices(s, rows), later) :
        /\ IsTable(rows) /\ IsTable(later)
        /\ m = [entries |-> enrichUSDCPrices(poolPrices(s, rows), best), first |-> rows, second |-> later]
  BY <1>2
<1>4. m.first = rows /\ m.second = later /\ m.entries = enrichUSDCPrices(poolPrices(s, rows), best)
  BY <1>3
<1> QED  BY <1>3, <1>4 DEF enrichUSDCPrices

\* What the invariant says of the messages.
LEMMA MessagesAreRight == PricingInv => PricesAreRight
<1> SUFFICES ASSUME PricingInv PROVE PricesAreRight
  OBVIOUS
<1>1. \A s \in Symbols : IsMessage(s, shown[s])
  BY DEF PricingInv
<1>2. RightPools
  BY <1>1, MessagePools DEF RightPools
<1>3. BestRoute
  <2> SUFFICES ASSUME NEW s \in Symbols, NEW e \in shown[s].entries, NEW u \in Registry["USDC"], NEW p \in PoolIds,
                      e.base.symbol # "USDC", trades(p, e.base, u), priced(p, shown[s].second[p])
               PROVE  /\ e.route # {}
                      /\ \A best \in e.route :
                            trades(best, e.base, u) /\ atLeast(best, p, u, shown[s].second)
    BY DEF BestRoute
  <2>0. PICK m : m = shown[s]
    OBVIOUS
  <2>1. PICK rows, later : rows = m.first /\ later = m.second
    OBVIOUS
  <2>2. PICK best \in foundConversions(poolPrices(s, rows), later) :
          /\ IsTable(rows) /\ IsTable(later)
          /\ shown[s].entries = {enriched(f, best) : f \in poolPrices(s, rows)}
    BY <1>1, <2>0, <2>1, MessageIs
  <2>3. PICK f \in poolPrices(s, rows) : e = enriched(f, best)
    BY <2>2
  <2>4. e.base = f.base
    BY <2>3, EntriesOf, EnrichedKeeps
  <2>5. /\ enriched(f, best).route # {}
        /\ \A r \in enriched(f, best).route : trades(r, f.base, u) /\ atLeast(r, p, u, later)
    BY <2>0, <2>1, <2>2, <2>4, RouteIsBest
  <2> QED  BY <2>0, <2>1, <2>3, <2>4, <2>5
<1>4. ConversionIsThePrice
  <2> SUFFICES ASSUME NEW s \in Symbols, shown[s].first = shown[s].second, NEW e \in shown[s].entries,
                      e.quote.symbol = "USDC", e.route = {e.pool}
               PROVE  e.baseUSDC = {e.price}
    BY DEF ConversionIsThePrice
  <2>0. PICK m : m = shown[s]
    OBVIOUS
  <2>1. PICK rows : rows = m.first /\ rows = m.second
    BY <2>0
  <2>2. PICK best \in foundConversions(poolPrices(s, rows), rows) :
          /\ IsTable(rows)
          /\ shown[s].entries = {enriched(f, best) : f \in poolPrices(s, rows)}
    BY <1>1, <2>0, <2>1, MessageIs
  <2>3. PICK f \in poolPrices(s, rows) : e = enriched(f, best)
    BY <2>2
  <2>4. e.quote = f.quote /\ e.pool = f.pool /\ e.price = f.price
    BY <2>3, EntriesOf, EnrichedKeeps
  <2>5. enriched(f, best).baseUSDC = {f.price}
    BY <2>2, <2>3, <2>4, ValueIsPrice
  <2> QED  BY <2>3, <2>4, <2>5
<1> QED  BY <1>2, <1>3, <1>4 DEF PricesAreRight

\* Every message a client is sent comes from the right pools and the best conversion, and
\* a price and a conversion of one reading agree (PricesAreRight), for any registry in
\* which a chain and an id name one asset and any pools, in whatever order they are read.
THEOREM MessagesComeFromPools == PricingSpec => []PricesAreRight
BY PricingInvariant, MessagesAreRight, PTL

-----------------------------------------------------------------------------
(* The clients catch up.                                                   *)

\* The prices of a symbol depend on the rows of the pools that announce it.
LEMMA OwnPoolsDecide ==
    ASSUME NEW s \in Symbols, NEW rows, NEW table,
           \A p \in PoolIds : s \in SymbolsForPools({p}) => rows[p] = table[p]
    PROVE  poolPrices(s, rows) = poolPrices(s, table)
<1>1. ASSUME NEW p \in PoolIds PROVE poolPrice(s, p, rows[p]) = poolPrice(s, p, table[p])
  <2>1. CASE s \in SymbolsForPools({p})
    BY <2>1
  <2>2. ASSUME NEW row, NEW e \in poolPrice(s, p, row) PROVE s \in SymbolsForPools({p})
    <3>1. PICK b, q : \E z \in BOOLEAN : IsEntry(s, p, row, e, b, q, z)
      BY <2>2, EntryIs
    <3>2. b \in deploymentRefs(s) /\ keyOf(b) \in {key0(p), key1(p)}
      BY <3>1 DEF IsEntry
    <3> QED  BY <3>2, SymbolsOfPool
  <2>3. CASE s \notin SymbolsForPools({p})
    BY <2>2, <2>3
  <2> QED  BY <2>1, <2>3
<1>2. \A e : e \in poolPrices(s, rows) <=> e \in poolPrices(s, table)
  BY <1>1, EntriesOf
<1> QED  BY <1>2

\* A conversion of the quote asset does not go through a pool of the asset and USDC.
LEMMA QuoteRouteIsForeign ==
    ASSUME NEW entries, NEW rows, IsTable(rows), NEW best, IsChoice(best, secondQuery(entries), rows),
           NEW s \in Symbols \ {"USDC"}, NEW t \in Symbols \ {s},
           NEW b \in deploymentRefs(s), NEW q \in deploymentRefs(t),
           NEW c \in FoundFor(best, q), NEW w \in Registry["USDC"]
    PROVE  ~trades(c.route, b, w)
<1> SUFFICES ASSUME trades(c.route, b, w) PROVE FALSE
  OBVIOUS
<1> DEFINE r == c.route
<1>1. r \in PoolIds /\ \E v : IsOfferOf(c, r, rows[r], q, v)
  BY FoundIsOffered
<1>2. PICK v : IsOfferOf(c, r, rows[r], q, v)
  BY <1>1
<1>3. Converts(r, rows[r], q, v) /\ priced(r, rows[r])
  BY <1>2 DEF IsOfferOf, Converts
<1> DEFINE u == refOf("USDC", w)
<1>4. u \in deploymentRefs("USDC")
  BY RegistryAssumption, RefsOfSymbol DEF Symbols
<1>5. trades(r, b, u)
  BY <1>1, RefTrades
<1>6. b.symbol = s /\ q.symbol = t
  BY SymbolOfRef
<1> HIDE DEF r, u
<1>7. Converts(r, rows[r], b, u)
  BY <1>3, <1>4, <1>5, <1>6 DEF Converts
<1>8. b = q
  BY <1>1, <1>3, <1>7, ConvertedIsUnique
<1> QED  BY <1>6, <1>8

\* A choice for the assets of a symbol and one for the others make a choice.
LEMMA ChoicesJoin ==
    ASSUME NEW S \in SUBSET PoolIds, NEW rows, NEW table, NEW K, NEW mine, NEW others,
           IsChoice(mine, S, rows), IsChoice(others, S, table),
           \A p \in S : (\E n \in conversionsOf(p, rows[p]) \cup conversionsOf(p, table[p]) : n.key \in K)
                        => rows[p] = table[p]
    PROVE  IsChoice({c \in mine : c.key \in K} \cup {c \in others : c.key \notin K}, S, table)
<1> DEFINE both == {c \in mine : c.key \in K} \cup {c \in others : c.key \notin K}
<1>1. ASSUME NEW c \in both PROVE \E p \in S : c \in conversionsOf(p, table[p])
  <2>1. CASE c \in mine /\ c.key \in K
    <3>1. PICK p \in S : c \in conversionsOf(p, rows[p])
      BY <2>1 DEF IsChoice
    <3>2. rows[p] = table[p]
      BY <2>1, <3>1
    <3> QED  BY <3>1, <3>2
  <2>2. CASE c \in others
    BY <2>2 DEF IsChoice
  <2> QED  BY <2>1, <2>2
<1>2. \A c, d \in both : c.key = d.key => c = d
  BY DEF IsChoice
<1>3. ASSUME NEW p \in S, NEW n \in conversionsOf(p, table[p])
      PROVE  \E c \in both : c.key = n.key /\ ~betterUSDCConversion(n, c)
  <2>1. CASE n.key \in K
    <3>1. rows[p] = table[p]
      BY <2>1
    <3>2. PICK c \in mine : c.key = n.key /\ ~betterUSDCConversion(n, c)
      BY <3>1 DEF IsChoice
    <3> QED  BY <2>1, <3>2
  <2>2. CASE n.key \notin K
    <3>1. PICK c \in others : c.key = n.key /\ ~betterUSDCConversion(n, c)
      BY DEF IsChoice
    <3> QED  BY <2>2, <3>1
  <2> QED  BY <2>1, <2>2
<1> HIDE DEF both
<1>4. IsChoice(both, S, table)
  BY <1>1, <1>2, <1>3 DEF IsChoice
<1> QED  BY <1>4 DEF both

\* What a message says of the pools of a symbol itself depends on the conversions of its assets.
LEMMA OwnPartDecided ==
    ASSUME NEW s \in Symbols, NEW rows, NEW f \in poolPrices(s, rows), NEW entries,
           NEW later, IsTable(later), NEW best, IsChoice(best, secondQuery(entries), later),
           NEW table, IsTable(table), NEW new, IsChoice(new, secondQuery(entries), table),
           FoundFor(best, f.base) = FoundFor(new, f.base)
    PROVE  ownPart(enriched(f, best)) = ownPart(enriched(f, new))
<1> DEFINE b == f.base
           q == f.quote
           e == enriched(f, best)
           g == enriched(f, new)
           Own(x) == x.base.symbol = "USDC" \/ \E p \in x.route : \E u \in Registry["USDC"] : trades(p, x.base, u)
<1>1. \A x : ownPart(x) = [pool |-> x.pool, price |-> x.price, value |-> IF Own(x) THEN x.baseUSDC ELSE {}]
  BY Zenon DEF ownPart
<1>2. PICK o \in PoolIds : f \in poolPrice(s, o, rows[o])
  BY EntriesOf
<1>3. /\ e.pool = g.pool /\ e.price = g.price
      /\ e.base = b /\ g.base = b
  <2>1. PICK row : f \in poolPrice(s, o, row)
    BY <1>2
  <2> QED  BY <2>1, EnrichedKeeps
<1>4. PICK t \in Symbols : /\ b \in deploymentRefs(s) /\ b.symbol = s
                           /\ t # s /\ q \in deploymentRefs(t)
  BY EntryAssets
<1>5. /\ FoundFor(best, b) = {} => e.route = {c.route : c \in FoundFor(best, q)}
      /\ FoundFor(new, b) = {} => g.route = {c.route : c \in FoundFor(new, q)}
      /\ FoundFor(best, b) # {} => e.route = {c.route : c \in FoundFor(best, b)}
      /\ FoundFor(new, b) # {} => g.route = {c.route : c \in FoundFor(new, b)}
      /\ ValueOf(best, b) # {} => e.baseUSDC = ValueOf(best, b)
      /\ ValueOf(new, b) # {} => g.baseUSDC = ValueOf(new, b)
  BY RouteOf
<1>6. ValueOf(best, b) = ValueOf(new, b)
  BY DEF ValueOf
<1> HIDE DEF e, g
<1>7. CASE s = "USDC"
  <2>1. ValueOf(best, b) = {Unit}
    BY <1>4, <1>7 DEF ValueOf
  <2>2. e.baseUSDC = g.baseUSDC /\ Own(e) /\ Own(g)
    BY <1>3, <1>4, <1>5, <1>6, <1>7, <2>1
  <2> HIDE DEF Own
  <2> QED  BY <1>1, <1>3, <2>2 DEF e, g
<1>8. CASE s # "USDC" /\ FoundFor(best, b) # {}
  <2>1. ValueOf(best, b) # {}
    BY <1>4, <1>8 DEF ValueOf
  <2>2. e.baseUSDC = g.baseUSDC /\ e.route = g.route
    BY <1>5, <1>6, <1>8, <2>1
  <2>3. Own(e) <=> Own(g)
    BY <1>3, <2>2
  <2> HIDE DEF Own
  <2> QED  BY <1>1, <1>3, <2>2, <2>3 DEF e, g
<1>9. CASE s # "USDC" /\ FoundFor(best, b) = {}
  <2>1. \A p \in e.route, u \in Registry["USDC"] : ~trades(p, b, u)
    BY <1>4, <1>5, <1>9, QuoteRouteIsForeign
  <2>2. \A p \in g.route, u \in Registry["USDC"] : ~trades(p, b, u)
    BY <1>4, <1>5, <1>9, QuoteRouteIsForeign
  <2>3. ~Own(e) /\ ~Own(g)
    BY <1>3, <1>4, <1>9, <2>1, <2>2
  <2> HIDE DEF Own
  <2> QED  BY <1>1, <1>3, <2>3 DEF e, g
<1> QED  BY <1>7, <1>8, <1>9

\* When nothing is left to announce or to send, the messages are those of the present table.
LEMMA MessagesCatchUp == PricingInv => ClientsCatchUp
<1> SUFFICES ASSUME PricingInv, quiet, NEW s \in Symbols
             PROVE  \E best \in foundConversions(poolPrices(s, pools), pools) :
                       {ownPart(e) : e \in shown[s].entries} =
                           {ownPart(e) : e \in enrichUSDCPrices(poolPrices(s, pools), best)}
  BY DEF ClientsCatchUp
<1>1. PICK m : m = shown[s]
  OBVIOUS
<1>2. PICK rows, later : rows = m.first /\ later = m.second
  OBVIOUS
<1>3. PICK best \in foundConversions(poolPrices(s, rows), later) :
        /\ IsTable(rows) /\ IsTable(later)
        /\ m.entries = {enriched(f, best) : f \in poolPrices(s, rows)}
  BY <1>1, <1>2, MessageIs DEF PricingInv
<1>4. PICK table : table = pools /\ IsTable(table)
  BY DEF PricingInv
<1>5. \A p \in PoolIds : s \in SymbolsForPools({p}) => rows[p] = table[p] /\ later[p] = table[p]
  <2>1. unannounced = {} /\ due = {} /\ reading = NoReading
    BY DEF quiet
  <2>2. ASSUME NEW p \in PoolIds, s \in SymbolsForPools({p})
        PROVE  shown[s].first[p] = pools[p] /\ shown[s].second[p] = pools[p]
    <3>1. MessageFollows(s, p)
      BY <2>2 DEF PricingInv
    <3> QED  BY <2>1, <3>1 DEF MessageFollows
  <2> QED  BY <1>1, <1>2, <1>4, <2>2
<1>6. poolPrices(s, rows) = poolPrices(s, table)
  BY <1>5, OwnPoolsDecide
<1> DEFINE E == poolPrices(s, table)
           S == secondQuery(E)
           K == {keyOf(b) : b \in deploymentRefs(s)}
<1>7. PICK others \in foundConversions(E, table) : TRUE
  BY SomethingIsFound
<1>8. IsChoice(best, S, later) /\ IsChoice(others, S, table)
  BY <1>3, <1>4, <1>6, FoundIsChoice
<1> DEFINE new == {c \in best : c.key \in K} \cup {c \in others : c.key \notin K}
<1>9. S \subseteq PoolIds
  BY DEF secondQuery, ListPoolsByAssetIDs
<1>10. ASSUME NEW p \in S, NEW row, NEW n \in conversionsOf(p, row), n.key \in K
       PROVE  later[p] = table[p]
  <2>1. p \in PoolIds
    BY <1>9
  <2>2. PICK b \in deploymentRefs(s) : n.key = keyOf(b)
    BY <1>10
  <2>3. PICK c, u : IsOfferOf(n, p, row, c, u)
    BY <1>10, <2>1, OffersOf
  <2>4. n.key = keyOf(c) /\ trades(p, c, u)
    BY <2>3 DEF IsOfferOf, Converts
  <2>5. keyOf(b) \in {key0(p), key1(p)}
    BY <2>1, <2>2, <2>4, TradesByKey
  <2>6. s \in SymbolsForPools({p})
    BY <2>1, <2>5, SymbolsOfPool
  <2> QED  BY <1>5, <2>1, <2>6
<1> HIDE DEF S, K
<1>11. IsChoice(new, S, table)
  BY <1>8, <1>9, <1>10, ChoicesJoin
<1>12. new \in foundConversions(E, table)
  BY <1>4, <1>11, FoundIsChoice DEF S
<1>13. ASSUME NEW f \in E PROVE ownPart(enriched(f, best)) = ownPart(enriched(f, new))
  <2>1. f.base \in deploymentRefs(s)
    BY EntryAssets
  <2>2. keyOf(f.base) \in K
    BY <2>1 DEF K
  <2>3. FoundFor(best, f.base) = FoundFor(new, f.base)
    BY <2>2 DEF FoundFor
  <2> HIDE DEF new
  <2> QED  BY <1>3, <1>4, <1>8, <1>11, <2>3, OwnPartDecided DEF S
<1> HIDE DEF new, E
<1>14. {ownPart(e) : e \in m.entries} = {ownPart(enriched(f, best)) : f \in E}
  BY <1>3, <1>6 DEF E
<1>15. {ownPart(e) : e \in enrichUSDCPrices(E, new)} = {ownPart(enriched(f, new)) : f \in E}
  BY DEF enrichUSDCPrices
<1>16. {ownPart(e) : e \in m.entries} = {ownPart(e) : e \in enrichUSDCPrices(E, new)}
  BY <1>13, <1>14, <1>15
<1> QED  BY <1>1, <1>4, <1>12, <1>16 DEF E

\* Once every saved pool is announced and every announced symbol sent, the clients have
\* the present prices and values of the pools of each symbol (ClientsCatchUp), however
\* saves, announcements and computations overlapped.
THEOREM PricesCatchUp == PricingSpec => []ClientsCatchUp
BY PricingInvariant, MessagesCatchUp, PTL
=============================================================================
