-------------------------------- MODULE Swap --------------------------------
(***************************************************************************)
(* A swap on an EVM venue: the API chooses a pool, quotes it, and builds   *)
(* the transaction and the approval that the client signs and sends.  A v2 *)
(* quote is computed from the pool table, which follows the chain; a v3    *)
(* quote is the answer of the venue's quoter contract.  Between any two of *)
(* these steps the pools of the chain may move and the table be updated.   *)
(***************************************************************************)
EXTENDS Naturals, Sequences, FiniteSets, FiniteSetsExt

CONSTANTS
    Venues,       \* key -> [chain, kind, enabled, router, quoter, slipstream]
    Deployments,  \* symbol -> chain -> asset id
    SwapPools,    \* id -> [chain, venue, kind, token0, token1, fee, tick, enabled]: fee, in
                  \* hundredths of a basis point, is what the contract takes; only for a v3
                  \* pool does the table have it too
    PoolStates,   \* reserves <<r0, r1>> a pool of the chain may have
    Requests,     \* what clients ask: [chain, venue, tokenIn, tokenOut, amountIn, slippage, pool]
    MaxMoves      \* changes of the chain (bound)

Bps == 10000

ASSUME SwapAssumption ==
    /\ PoolStates \subseteq Nat \X Nat
    /\ \A req \in Requests : req.amountIn \in Nat /\ req.slippage \in Nat
    /\ \A p \in DOMAIN SwapPools : SwapPools[p].fee \in 0..(100 * Bps)

\* What selects a pool of a venue among those of the same two tokens.
selector(p) ==
    LET v == Venues[SwapPools[p].venue]
    IN  IF v.kind # "uniswapv3" THEN SwapPools[p].kind
        ELSE IF v.slipstream THEN SwapPools[p].tick ELSE SwapPools[p].fee

\* The factory of a venue, where the scanner finds the pools, has one for each selector.
ASSUME OnePoolAssumption ==
    \A p, q \in DOMAIN SwapPools :
        /\ SwapPools[p].venue = SwapPools[q].venue
        /\ {SwapPools[p].token0, SwapPools[p].token1} = {SwapPools[q].token0, SwapPools[q].token1}
        /\ selector(p) = selector(q)
        => p = q

VARIABLES
    onchain,      \* the reserves of the pools
    stored,       \* the reserves in the table
    swap,         \* the request and what became of it
    moves

swapVars == <<onchain, stored, swap, moves>>

None == "none"
\* Of the request, the quote and so on there is none or one.
AtRest == [step |-> "idle", req |-> {}, core |-> {}, quote |-> {}, tx |-> {}, approval |-> {}, paid |-> {}]

-----------------------------------------------------------------------------
(* The registries.                                                         *)

\* A venue that is on, on the chain of the request.
venueFor(req) == {v \in {req.venue} \cap DOMAIN Venues :
                     Venues[v].enabled /\ Venues[v].chain = req.chain}

assetID(symbol, chain) ==
    IF symbol \in DOMAIN Deployments /\ chain \in DOMAIN Deployments[symbol]
    THEN {Deployments[symbol][chain]} ELSE {}

parseAmount(amount) == IF amount > 0 THEN {amount} ELSE {}

\* The service's: the router of the configuration, for the approval.
routerAddress(v) == {Venues[v].router} \ {None}

\* The executors': NewSwapEngine collects the routers of the venues that are on, by kind.
RouterByVenue(v) ==
    LET routers == [w \in {u \in DOMAIN Venues : Venues[u].enabled /\ Venues[u].kind = Venues[v].kind}
                        |-> Venues[w].router]
    IN  IF v \in DOMAIN routers THEN {routers[v]} \ {None} ELSE {}

\* The executors the engine has: one per kind with a router.
executorKinds == {Venues[v].kind : v \in {w \in DOMAIN Venues :
                     /\ Venues[w].enabled /\ Venues[w].router # None
                     /\ Venues[w].kind \in {"uniswapv2", "aerodrome", "uniswapv3"}}}

isSlipstream(v) == Venues[v].slipstream

\* The quoter contract of a venue.
quoterOf(v) == {Venues[v].quoter} \ {None}

-----------------------------------------------------------------------------
(* The pool of a request.                                                  *)

poolMatches(p, in, out) == {SwapPools[p].token0, SwapPools[p].token1} = {in, out}

\* The rows come in no particular order, and the first that fits is taken.
findPool(chain, v, in, out) ==
    {p \in DOMAIN SwapPools : /\ SwapPools[p].chain = chain /\ SwapPools[p].venue = v
                              /\ SwapPools[p].enabled
                              /\ poolMatches(p, in, out)}

\* Every request that may result; none is an error.  A named pool is not looked up.
buildRequest(req) ==
    UNION {{[venue |-> v, pool |-> p, in |-> in, out |-> out, amountIn |-> amount,
             slippage |-> IF req.slippage = 0 THEN 50 ELSE req.slippage]
                : p \in IF req.pool = None THEN findPool(req.chain, v, in, out) ELSE {req.pool}}
        : v \in venueFor(req), in \in assetID(req.tokenIn, req.chain),
          out \in assetID(req.tokenOut, req.chain), amount \in parseAmount(req.amountIn)}

-----------------------------------------------------------------------------
(* Amounts.                                                                *)

\* The fee of a v2 quote: NewSwapEngine gives 30 and no FeeBpsByVenue, so it is the same
\* for all venues, whatever their pools take.
FeeBps == 30

\* Mutant: the fee is taken from what the pool pays.
constantProductOutFeeLast(amountIn, reserveIn, reserveOut, fee) ==
    IF reserveIn = 0 \/ reserveOut = 0 THEN 0
    ELSE (amountIn * reserveOut * (Bps - fee)) \div ((reserveIn + amountIn) * Bps)

constantProductOut(amountIn, reserveIn, reserveOut, fee) ==
    IF reserveIn = 0 \/ reserveOut = 0 \/ fee >= Bps THEN 0
    ELSE (amountIn * (Bps - fee) * reserveOut) \div (reserveIn * Bps + amountIn * (Bps - fee))

MinOut(amountOut, slippage) ==
    (amountOut * (Bps - IF slippage > Bps THEN Bps ELSE slippage)) \div Bps

\* The reserves of a row in the direction of the swap.
reservesForDirection(p, row, in, out) ==
    IF <<in, out>> = <<SwapPools[p].token0, SwapPools[p].token1>> THEN {<<row[1], row[2]>>}
    ELSE IF <<in, out>> = <<SwapPools[p].token1, SwapPools[p].token0>> THEN {<<row[2], row[1]>>}
    ELSE {}

\* External: what a pool pays is the most that keeps the product of its reserves, the
\* part of the payment that is not fee counted in.
poolPays(p, row, in, out, amountIn, fee) ==
    LET pays(r) == Max({o \in 0..r[2] :
            /\ (r[1] * Bps + amountIn * (Bps - fee)) * (r[2] - o) >= r[1] * r[2] * Bps
            /\ r[1] = 0 => o = 0})
    IN  {pays(r) : r \in reservesForDirection(p, row, in, out)}

-----------------------------------------------------------------------------
(* The executors.                                                          *)

quoteOf(core, amountOut, fee, params, row) ==
    [amountIn |-> core.amountIn, amountOut |-> amountOut, fee |-> fee,
     minOut |-> MinOut(amountOut, core.slippage), params |-> params, row |-> row]

\* UniswapV2Executor.Quote, for both kinds of pairs.
quoteV2Pool(core) ==
    {quoteOf(core, constantProductOut(core.amountIn, r[1], r[2], FeeBps), FeeBps, << >>, stored[core.pool])
        : r \in UNION {reservesForDirection(p, stored[p], core.in, core.out)
                : p \in {q \in {core.pool} \cap DOMAIN SwapPools : SwapPools[q].kind = "v2"}}}

\* Mutant: the fee of the venue is used for every pool.
routeParamsDefault(core) == {<<3000, 1>>}

routeParams(core) ==
    {<<SwapPools[p].fee, SwapPools[p].tick>>
        : p \in {q \in {core.pool} \cap DOMAIN SwapPools :
                     isSlipstream(core.venue) => SwapPools[q].tick # 0}}

\* External: the contracts of a venue compare what selects a pool.
isSelected(v, p, params) ==
    IF Venues[v].kind # "uniswapv3" THEN SwapPools[p].kind = "v2"
    ELSE IF isSlipstream(v) THEN SwapPools[p].tick = params[2] ELSE SwapPools[p].fee = params[1]

\* External: the pool the contracts of a venue find for two tokens and the parameters.
poolOfRoute(v, in, out, params) ==
    {p \in DOMAIN SwapPools :
        SwapPools[p].venue = v /\ poolMatches(p, in, out) /\ isSelected(v, p, params)}

\* External: what the contract of a pool takes, in basis points.
feeOf(p) == SwapPools[p].fee \div 100

\* External: the answer of the quoter contract.
quoterAnswers(core, params) ==
    UNION {{<<o, onchain[p]>> : o \in poolPays(p, onchain[p], core.in, core.out, core.amountIn, feeOf(p))}
              : p \in poolOfRoute(core.venue, core.in, core.out, params)}

quoteSlipstream(core, params) == IF params[2] = 0 THEN {} ELSE quoterAnswers(core, params)

\* The second interface of the quoter; a contract has one of the two.
quoteV2(core, params, quoter) == IF quoter = "v2" THEN quoterAnswers(core, params) ELSE {}

quoteV1(core, params, quoter) == IF quoter = "v1" THEN quoterAnswers(core, params) ELSE {}

QuoteExactInputSingle(core, params) ==
    UNION {IF isSlipstream(core.venue) THEN quoteSlipstream(core, params)
           ELSE IF quoteV2(core, params, q) # {} THEN quoteV2(core, params, q)
           ELSE quoteV1(core, params, q) : q \in quoterOf(core.venue)}

quoteV3Pool(core) ==
    UNION {{quoteOf(core, a[1], params[1] \div 100, params, a[2]) : a \in QuoteExactInputSingle(core, params)}
              : params \in routeParams(core)}

executorQuote(core) ==
    IF Venues[core.venue].kind \notin executorKinds THEN {}
    ELSE IF Venues[core.venue].kind = "uniswapv3" THEN quoteV3Pool(core) ELSE quoteV2Pool(core)

txOf(core, minOut, router, params) ==
    [to |-> router, in |-> core.in, out |-> core.out, amountIn |-> core.amountIn,
     minOut |-> minOut, params |-> params]

buildV2(core, quote) ==
    {txOf(core, quote.minOut, router, << >>) : router \in RouterByVenue(core.venue)}

\* The parameters are read again.
buildV3(core, quote) ==
    {txOf(core, quote.minOut, router, params)
        : router \in RouterByVenue(core.venue), params \in routeParams(core)}

executorBuild(core, quote) ==
    IF Venues[core.venue].kind = "uniswapv3" THEN buildV3(core, quote) ELSE buildV2(core, quote)

-----------------------------------------------------------------------------
(* The steps of a request.                                                 *)

SwapInit ==
    /\ \E row \in PoolStates : onchain = [p \in DOMAIN SwapPools |-> row]
    /\ stored = onchain
    /\ swap = AtRest
    /\ moves = 0

Ask(req) ==
    /\ swap.step = "idle"
    /\ swap' = [swap EXCEPT !.step = "asked", !.req = {req}]
    /\ UNCHANGED <<onchain, stored, moves>>

ChoosePool ==
    /\ swap.step = "asked"
    /\ \E req \in swap.req : \E core \in buildRequest(req) :
         swap' = [swap EXCEPT !.step = "chosen", !.core = {core}]
    /\ UNCHANGED <<onchain, stored, moves>>

Quote ==
    /\ swap.step = "chosen"
    /\ \E core \in swap.core : \E quote \in executorQuote(core) :
         swap' = [swap EXCEPT !.step = "quoted", !.quote = {quote}]
    /\ UNCHANGED <<onchain, stored, moves>>

BuildTransaction ==
    /\ swap.step = "quoted"
    /\ \E core \in swap.core, quote \in swap.quote : \E tx \in executorBuild(core, quote) :
         swap' = [swap EXCEPT !.step = "built", !.tx = {tx}]
    /\ UNCHANGED <<onchain, stored, moves>>

BuildApproveTransaction(token, spender, amount) == [to |-> token, spender |-> spender, amount |-> amount]

Approve ==
    /\ swap.approval = {}
    /\ \E req \in swap.req :
       \E v \in venueFor(req), in \in assetID(req.tokenIn, req.chain), amount \in parseAmount(req.amountIn) :
         /\ Venues[v].kind \in {"uniswapv2", "aerodrome", "uniswapv3"}
         /\ \E router \in routerAddress(v) :
              swap' = [swap EXCEPT !.approval = {BuildApproveTransaction(in, router, amount)}]
    /\ UNCHANGED <<onchain, stored, moves>>

\* Any step may fail: no pool, no executor, an endpoint that does not answer.
Refuse ==
    /\ swap.step \in {"asked", "chosen", "quoted"}
    /\ swap' = [swap EXCEPT !.step = "refused"]
    /\ UNCHANGED <<onchain, stored, moves>>

\* External: the router of the chain trades the pool it finds, or reverts.
Execute ==
    /\ swap.step = "built"
    /\ \E core \in swap.core, tx \in swap.tx :
       \E p \in poolOfRoute(core.venue, tx.in, tx.out, tx.params) :
       \E o \in poolPays(p, onchain[p], tx.in, tx.out, tx.amountIn, feeOf(p)) :
         swap' = [swap EXCEPT !.step = IF o >= tx.minOut THEN "executed" ELSE "reverted",
                              !.paid = {o}]
    /\ UNCHANGED <<onchain, stored, moves>>

\* External: others trade.
Move(p) ==
    /\ moves < MaxMoves
    /\ \E row \in PoolStates \ {onchain[p]} : onchain' = [onchain EXCEPT ![p] = row]
    /\ moves' = moves + 1
    /\ UNCHANGED <<stored, swap>>

\* The scanner saves what it read.
Rescan(p) ==
    /\ stored[p] # onchain[p]
    /\ stored' = [stored EXCEPT ![p] = onchain[p]]
    /\ UNCHANGED <<onchain, swap, moves>>

SwapNext ==
    \/ \E req \in Requests : Ask(req)
    \/ ChoosePool \/ Quote \/ BuildTransaction \/ Approve \/ Refuse \/ Execute
    \/ \E p \in DOMAIN SwapPools : Move(p) \/ Rescan(p)

-----------------------------------------------------------------------------
(* Properties.                                                             *)

ofTheVenue(core) ==
    /\ core.pool \in DOMAIN SwapPools
    /\ SwapPools[core.pool].venue = core.venue
    /\ poolMatches(core.pool, core.in, core.out)

\* A quote is, to the last unit, the most that the pool's invariant allows for the reserves
\* it was made from and the fee it names.  The fee that a v3 quote names is the pool's own;
\* a v2 quote names 30 whatever the pool takes, so it promises no more than a pool with a
\* smaller fee pays and no less than one with a larger fee.
QuoteExactAtFee ==
    \A core \in swap.core, quote \in swap.quote : ofTheVenue(core) =>
        LET pays(fee) == poolPays(core.pool, quote.row, core.in, core.out, core.amountIn, fee)
            own == feeOf(core.pool)
        IN  /\ pays(quote.fee) = {quote.amountOut}
            /\ Venues[core.venue].kind = "uniswapv3" => quote.fee = own
            /\ \A got \in pays(own) : /\ own <= quote.fee => quote.amountOut <= got
                                     /\ own >= quote.fee => quote.amountOut >= got

\* The router trades the pool that was quoted, for a pool of the venue and the pair: the
\* parameters that select it go with the transaction.
QuotedPoolIsTraded ==
    \A core \in swap.core, tx \in swap.tx : ofTheVenue(core) =>
        poolOfRoute(core.venue, tx.in, tx.out, tx.params) = {core.pool}

\* A swap that is executed pays what was quoted less the slippage the client allowed (or
\* half a per cent when it allowed none), however the pool moved in between; and a swap
\* reverts only when the pool pays less than it did when it was quoted.
PaidAsQuoted ==
    \A req \in swap.req, core \in swap.core, quote \in swap.quote, o \in swap.paid :
        LET asked == IF req.slippage = 0 THEN 50 ELSE req.slippage
            allowed == IF asked > Bps THEN Bps ELSE asked
        IN  /\ swap.step = "executed" => (o + 1) * Bps > quote.amountOut * (Bps - allowed)
            /\ swap.step = "reverted" /\ ofTheVenue(core) => o < quote.amountOut

\* The approval is for the contract that takes the tokens, and for what it takes.
ApprovalFits ==
    \A tx \in swap.tx, approval \in swap.approval :
        /\ approval.spender = tx.to
        /\ approval.to = tx.in
        /\ approval.amount >= tx.amountIn

\* What the client signs is the swap it was quoted, and pays accordingly.
SwapAsQuoted == QuotedPoolIsTraded /\ PaidAsQuoted /\ ApprovalFits
=============================================================================
