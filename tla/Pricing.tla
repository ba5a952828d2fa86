------------------------------ MODULE Pricing ------------------------------
(***************************************************************************)
(* The prices of an asset, computed from the pools in the table, and the   *)
(* messages that carry them to the clients.  A scan saves a pool, then     *)
(* announces the symbols it trades; for each announced symbol the API      *)
(* computes all prices and sends them.  A computation reads the table      *)
(* twice: once for the pools of the asset, once for the pools that convert *)
(* its prices to USDC.                                                     *)
(*                                                                         *)
(* A price is a number of units of the last digit; the code keeps 18       *)
(* digits and rounds halves up.  An optional one is a set of at most one.  *)
(***************************************************************************)
EXTENDS Naturals, Sequences, FiniteSets, SequencesExt

CONSTANTS
    Registry,     \* the deployments of each symbol: [chain, id, decimals]
    PoolTable,    \* what never changes of a pool: [chain, venue, kind, token0, token1, fee, tick]
    ScannedRows,  \* what a scan may find in a pool: [r0, r1, sqrt, liquidity]
    Unit,         \* 10^18: the decimal 1
    SqrtUnit,     \* 2^96: the square root of the price 1
    MaxSaves      \* saved pools (bound)

\* The registry knows an asset by chain and id, and USDC once on a chain.
ASSUME RegistryAssumption ==
    /\ \A s, t \in DOMAIN Registry : \A d \in Registry[s], e \in Registry[t] :
          d.chain = e.chain /\ d.id = e.id => s = t /\ d = e
    /\ \A d, e \in Registry["USDC"] : d.chain = e.chain => d = e
    /\ "USDC" \in DOMAIN Registry

ASSUME RowsAssumption ==
    /\ IsFiniteSet(DOMAIN PoolTable)
    /\ \A p \in DOMAIN PoolTable : \A row \in ScannedRows[p] :
          row.r0 \in Nat /\ row.r1 \in Nat /\ row.sqrt \in Nat /\ row.liquidity \in Nat

VARIABLES
    pools,        \* the rows of the table
    unannounced,  \* pools saved and not yet announced
    due,          \* symbols announced and not yet sent
    reading,      \* the computation between its two reads
    shown,        \* what the clients were last sent, and the rows it was read from
    saves

pricingVars == <<pools, unannounced, due, reading, shown, saves>>

Symbols == DOMAIN Registry
PoolIds == DOMAIN PoolTable
NoReading == [symbol |-> "none", entries |-> {}, first |-> << >>]

-----------------------------------------------------------------------------
(* Decimals.                                                               *)

\* FloatString: the quotient, rounded to the last digit, halves up.
rounded(num, den) == (2 * num * Unit + den) \div (2 * den)

reservePrice(baseReserve, quoteReserve, base, quote) ==
    rounded(quoteReserve * 10^base.decimals, baseReserve * 10^quote.decimals)

sqrtPrice(sqrt, base, quote, baseIsToken0) ==
    IF baseIsToken0
    THEN rounded(sqrt * sqrt * 10^base.decimals, SqrtUnit * SqrtUnit * 10^quote.decimals)
    ELSE rounded(SqrtUnit * SqrtUnit * 10^base.decimals, sqrt * sqrt * 10^quote.decimals)

multiplyDecimalStrings(a, b) == rounded(a * b, Unit * Unit)

divideDecimalStrings(a, b) == IF b = 0 THEN {} ELSE {rounded(a, b)}

inverseDecimalString(a) == IF a = 0 THEN {} ELSE {rounded(Unit, a)}

-----------------------------------------------------------------------------
(* The registry.                                                           *)

deploymentKey(chain, id) == <<chain, id>>

deploymentRefs(symbol) ==
    {[symbol |-> symbol, chain |-> d.chain, id |-> d.id, decimals |-> d.decimals]
        : d \in Registry[symbol]}

keyOf(ref) == deploymentKey(ref.chain, ref.id)

deploymentIndex ==
    LET refs == UNION {deploymentRefs(s) : s \in Symbols}
    IN  [k \in {keyOf(r) : r \in refs} |-> CHOOSE r \in refs : keyOf(r) = k]

refsBySymbol(symbol) == {r \in {deploymentIndex[k] : k \in DOMAIN deploymentIndex}
                            : r.symbol = symbol}

key0(p) == deploymentKey(PoolTable[p].chain, PoolTable[p].token0)
key1(p) == deploymentKey(PoolTable[p].chain, PoolTable[p].token1)

\* The query knows nothing of chains: an id may be of another asset elsewhere.
ListPoolsByAssetIDs(ids) ==
    {p \in PoolIds : PoolTable[p].token0 \in ids \/ PoolTable[p].token1 \in ids}

\* Mutant: only the first token of a pool counts.
SymbolsForPoolsFirst(ps) ==
    {deploymentIndex[k].symbol : k \in {key0(p) : p \in ps} \cap DOMAIN deploymentIndex}

SymbolsForPools(ps) ==
    {deploymentIndex[k].symbol
        : k \in (UNION {{key0(p), key1(p)} : p \in ps}) \cap DOMAIN deploymentIndex}

-----------------------------------------------------------------------------
(* The price in one pool.                                                  *)

hasReserves(row) == row.r0 > 0 /\ row.r1 > 0

\* A CLMM pool without a price is left out even when it has reserves.
priced(p, row) == IF PoolTable[p].kind = "clmm" THEN row.sqrt > 0
                  ELSE hasReserves(row) \/ row.sqrt > 0

entryOf(p, row, base, quote, baseIsToken0) ==
    LET price == IF ~hasReserves(row) THEN sqrtPrice(row.sqrt, base, quote, baseIsToken0)
                 ELSE IF baseIsToken0 THEN reservePrice(row.r0, row.r1, base, quote)
                 ELSE reservePrice(row.r1, row.r0, base, quote)
    IN  [pool |-> p, base |-> base, quote |-> quote, price |-> price,
         inverse |-> inverseDecimalString(price),
         baseUSDC |-> {}, quoteUSDC |-> {}, route |-> {}]

\* At most one entry: the asset is the base, a registered other asset the quote.
poolPrice(symbol, p, row) ==
    LET index == deploymentIndex
        target == {keyOf(r) : r \in deploymentRefs(symbol)}
        entry(b, q, baseIsToken0) ==
            IF q \in DOMAIN index /\ index[q].symbol # symbol /\ priced(p, row)
            THEN {entryOf(p, row, index[b], index[q], baseIsToken0)} ELSE {}
    IN  IF key0(p) \in target THEN entry(key0(p), key1(p), TRUE)
        ELSE IF key1(p) \in target THEN entry(key1(p), key0(p), FALSE) ELSE {}

poolPrices(symbol, rows) ==
    UNION {poolPrice(symbol, p, rows[p])
              : p \in ListPoolsByAssetIDs({r.id : r \in deploymentRefs(symbol)})}

-----------------------------------------------------------------------------
(* Conversion to USDC.                                                     *)

usdcByChain(chain) == {r \in refsBySymbol("USDC") : r.chain = chain}

poolPriceForBase(p, row, base, usdc) ==
    IF ~priced(p, row) THEN {}
    ELSE IF key0(p) = keyOf(base) /\ key1(p) = keyOf(usdc) THEN
        {IF hasReserves(row) THEN reservePrice(row.r0, row.r1, base, usdc)
         ELSE sqrtPrice(row.sqrt, base, usdc, TRUE)}
    ELSE IF key1(p) = keyOf(base) /\ key0(p) = keyOf(usdc) THEN
        {IF hasReserves(row) THEN reservePrice(row.r1, row.r0, base, usdc)
         ELSE sqrtPrice(row.sqrt, base, usdc, FALSE)}
    ELSE {}

reserveForAsset(p, row, ref) == IF key0(p) = keyOf(ref) THEN row.r0
                                ELSE IF key1(p) = keyOf(ref) THEN row.r1 ELSE 0

\* Mutant: the liquidity of the pools is compared first.
betterByLiquidity(c, existing) == c.liquidity > existing.liquidity

betterUSDCConversion(c, existing) ==
    IF c.usdc > 0 \/ existing.usdc > 0 THEN c.usdc > existing.usdc
    ELSE c.liquidity > existing.liquidity

\* The conversions a pool offers: none, or one for the asset it trades against USDC.
conversionsOf(p, row) ==
    UNION {{[key |-> keyOf(b), price |-> price, route |-> p, usdc |-> reserveForAsset(p, row, u),
             liquidity |-> row.liquidity]
                : price \in IF b.symbol = "USDC" THEN {} ELSE poolPriceForBase(p, row, b, u)}
        : b \in {deploymentIndex[k] : k \in {key0(p), key1(p)} \cap DOMAIN deploymentIndex},
          u \in usdcByChain(PoolTable[p].chain)}

\* The loop over the pools: a better conversion takes the place of the one it has.
addConversion(offers, best, p) ==
    {c \in best : \A n \in offers[p] : n.key = c.key => ~betterUSDCConversion(n, c)}
    \cup {n \in offers[p] : \A c \in best : n.key = c.key => betterUSDCConversion(n, c)}

\* The pools are taken as the query returns them, in no particular order.
conversions(order, offers) == FoldLeft(LAMBDA best, p : addConversion(offers, best, p), {}, order)

enriched(e, best) ==
    LET of(ref) == {c \in best : c.key = keyOf(ref) /\ ref.symbol # "USDC"}
        direct(ref) == IF ref.symbol = "USDC" THEN {Unit} ELSE {c.price : c \in of(ref)}
        via == IF of(e.base) # {} THEN of(e.base) ELSE of(e.quote)
        base == IF direct(e.base) # {} THEN direct(e.base)
                ELSE {multiplyDecimalStrings(e.price, q) : q \in direct(e.quote)}
        quote == IF direct(e.quote) # {} THEN direct(e.quote)
                 ELSE UNION {divideDecimalStrings(b, e.price) : b \in base}
    IN  [e EXCEPT !.baseUSDC = base, !.quoteUSDC = quote, !.route = {c.route : c \in via}]

\* The second query asks for the assets of the entries and for USDC.
secondQuery(entries) ==
    LET refs == UNION {{e.base, e.quote} : e \in entries}
    IN  ListPoolsByAssetIDs({r.id : r \in refs \cup refsBySymbol("USDC")})

\* What may be found, whatever the order: a pool that converts nothing changes nothing.
foundConversions(entries, rows) ==
    LET offers == [p \in secondQuery(entries) |-> conversionsOf(p, rows[p])]
    IN  {conversions(order, offers) : order \in SetToSeqs({p \in DOMAIN offers : offers[p] # {}})}

enrichUSDCPrices(entries, best) == {enriched(e, best) : e \in entries}

-----------------------------------------------------------------------------
(* From a scan to the clients.                                             *)

PricingInit ==
    /\ pools \in {f \in [PoolIds -> UNION {ScannedRows[p] : p \in PoolIds}] :
                      \A p \in PoolIds : f[p] \in ScannedRows[p]}
    /\ unannounced = {}
    /\ due = {}
    /\ reading = NoReading
    /\ shown = [s \in Symbols |->
           LET e == poolPrices(s, pools)
           IN  [entries |-> enrichUSDCPrices(e, CHOOSE best \in foundConversions(e, pools) : TRUE),
                first |-> pools, second |-> pools]]
    /\ saves = 0

SavePool(p) ==
    /\ saves < MaxSaves
    /\ \E row \in ScannedRows[p] \ {pools[p]} : pools' = [pools EXCEPT ![p] = row]
    /\ unannounced' = unannounced \cup {p}
    /\ saves' = saves + 1
    /\ UNCHANGED <<due, reading, shown>>

publishPriceUpdates(p) ==
    /\ p \in unannounced
    /\ unannounced' = unannounced \ {p}
    /\ due' = due \cup SymbolsForPools({p})
    /\ UNCHANGED <<pools, reading, shown, saves>>

\* Prices up to its first query.
BeginPrices(s) ==
    /\ s \in due
    /\ reading = NoReading
    /\ due' = due \ {s}
    /\ reading' = [symbol |-> s, entries |-> poolPrices(s, pools), first |-> pools]
    /\ UNCHANGED <<pools, unannounced, shown, saves>>

\* The second query, and the message to the clients.
EndPrices ==
    /\ reading # NoReading
    /\ \E best \in foundConversions(reading.entries, pools) :
         shown' = [shown EXCEPT ![reading.symbol] =
                      [entries |-> enrichUSDCPrices(reading.entries, best),
                       first |-> reading.first, second |-> pools]]
    /\ reading' = NoReading
    /\ UNCHANGED <<pools, unannounced, due, saves>>

PricingNext ==
    \/ \E p \in PoolIds : SavePool(p) \/ publishPriceUpdates(p)
    \/ \E s \in Symbols : BeginPrices(s)
    \/ EndPrices

-----------------------------------------------------------------------------
(* Properties.                                                             *)

trades(p, d, other) ==
    /\ {d.chain, other.chain} = {PoolTable[p].chain}
    /\ {d.id, other.id} = {PoolTable[p].token0, PoolTable[p].token1}

\* The prices of a symbol are those of the pools that trade one of its deployments
\* against another asset of the same chain, although the query finds the pools of every
\* chain on which some token has the same address.
RightPools ==
    \A s \in Symbols :
        {e.pool : e \in shown[s].entries} =
            {p \in PoolIds : /\ priced(p, shown[s].first[p])
                             /\ \E t \in Symbols \ {s} :
                                   \E d \in Registry[s], other \in Registry[t] : trades(p, d, other)}

usdcIn(p, row, u) == IF PoolTable[p].token0 = u.id THEN row.r0 ELSE row.r1

atLeast(best, p, u, rows) ==
    \/ usdcIn(best, rows[best], u) > usdcIn(p, rows[p], u)
    \/ /\ usdcIn(best, rows[best], u) = usdcIn(p, rows[p], u)
       /\ usdcIn(p, rows[p], u) = 0 => rows[best].liquidity >= rows[p].liquidity

\* In whatever order the query returns the pools, an asset is converted in the pool with
\* the most USDC, or with the most liquidity if no pool's reserves are known.
BestRoute ==
    \A s \in Symbols : \A e \in shown[s].entries : \A u \in Registry["USDC"], p \in PoolIds :
        e.base.symbol # "USDC" /\ trades(p, e.base, u) /\ priced(p, shown[s].second[p])
        => /\ e.route # {}
           /\ \A best \in e.route : trades(best, e.base, u) /\ atLeast(best, p, u, shown[s].second)

\* The price in a pool and the conversion through it are computed by two functions from
\* two reads: they agree when the table did not change in between.
ConversionIsThePrice ==
    \A s \in Symbols : shown[s].first = shown[s].second =>
        \A e \in shown[s].entries : e.quote.symbol = "USDC" /\ e.route = {e.pool}
                                    => e.baseUSDC = {e.price}

quiet == unannounced = {} /\ due = {} /\ reading = NoReading

\* The part of a message that comes from the pools of the symbol itself.
ownPart(e) ==
    LET own == e.base.symbol = "USDC" \/ \E p \in e.route : \E u \in Registry["USDC"] : trades(p, e.base, u)
    IN  [pool |-> e.pool, price |-> e.price, value |-> IF own THEN e.baseUSDC ELSE {}]

\* Once every saved pool is announced and every announced symbol sent, the clients have
\* the present price in every pool and the present value in USDC, however saves and
\* computations overlapped.  Except a value found through the quote asset: its pool
\* announces the quote asset and USDC, and the symbol keeps the old one (README).
ClientsCatchUp ==
    quiet => \A s \in Symbols :
        \E best \in foundConversions(poolPrices(s, pools), pools) :
            {ownPart(e) : e \in shown[s].entries} =
                {ownPart(e) : e \in enrichUSDCPrices(poolPrices(s, pools), best)}

\* What a client is shown of a symbol comes from the right pools and the right
\* conversion, whatever the scanner saves between the two reads.
PricesAreRight == RightPools /\ BestRoute /\ ConversionIsThePrice
=============================================================================
