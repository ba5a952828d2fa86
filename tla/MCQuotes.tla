------------------------------ MODULE MCQuotes ------------------------------
(***************************************************************************)
(* What the API answers from the pool table, for TLC: the prices it sends  *)
(* to the clients, and the swaps it quotes and builds.  Each is checked by *)
(* itself, with the other at rest.                                         *)
(***************************************************************************)
EXTENDS Pricing, Swap

VARIABLE part

d(chain, id, decimals) == [chain |-> chain, id |-> id, decimals |-> decimals]

\* The id y is of another asset on each chain.
SomeRegistry ==
    [X |-> {d("c1", "x", 1), d("c2", "y", 0)},
     Y |-> {d("c1", "y", 0)},
     USDC |-> {d("c1", "u", 0), d("c2", "v", 0)}]

pool(chain, kind, t0, t1) == [chain |-> chain, kind |-> kind, token0 |-> t0, token1 |-> t1]

SomePools ==
    [p1 |-> pool("c1", "v2", "x", "u"), p2 |-> pool("c1", "clmm", "u", "x"),
     p3 |-> pool("c1", "v2", "x", "y"), p4 |-> pool("c1", "v3", "y", "u"),
     p5 |-> pool("c2", "v2", "v", "y")]

row(r0, r1, sqrt, liquidity) == [r0 |-> r0, r1 |-> r1, sqrt |-> sqrt, liquidity |-> liquidity]

SomeRows ==
    [p1 |-> {row(0, 0, 0, 0), row(3, 2, 0, 0)},
     p2 |-> {row(0, 0, 3, 1), row(2, 1, 1, 2), row(3, 1, 0, 1)},
     p3 |-> {row(3, 7, 0, 0), row(1, 1, 0, 0)},
     p4 |-> {row(0, 0, 1, 1), row(0, 0, 3, 2)},
     p5 |-> {row(2, 3, 0, 0)}]

venue(kind, enabled, router, quoter, slipstream) ==
    [chain |-> "c1", kind |-> kind, enabled |-> enabled, router |-> router, quoter |-> quoter,
     slipstream |-> slipstream]

SomeVenues ==
    [uni |-> venue("uniswapv2", TRUE, "ru", "none", FALSE),
     sushi |-> venue("uniswapv2", TRUE, "rs", "none", FALSE),
     off |-> venue("uniswapv2", FALSE, "ro", "none", FALSE),
     aero |-> venue("aerodrome", TRUE, "ra", "none", FALSE),
     v3 |-> venue("uniswapv3", TRUE, "r3", "v2", FALSE),
     old |-> venue("uniswapv3", TRUE, "r1", "v1", FALSE),
     slip |-> venue("uniswapv3", TRUE, "rp", "v2", TRUE)]

onC1(id) == [c \in {"c1"} |-> id]
SomeDeployments == [X |-> onC1("x"), Y |-> onC1("y")]

swapPool(v, kind, t0, t1, fee, tick) ==
    [chain |-> "c1", venue |-> v, kind |-> kind, token0 |-> t0, token1 |-> t1, fee |-> fee,
     tick |-> tick, enabled |-> TRUE]

\* The v2 pools take 30, 100 and 5 basis points.
SomeSwapPools ==
    [q1 |-> swapPool("uni", "v2", "x", "y", 3000, 0), q2 |-> swapPool("sushi", "v2", "y", "x", 10000, 0),
     q3 |-> swapPool("aero", "v2", "x", "y", 500, 0), q4 |-> swapPool("aero", "stable", "x", "y", 0, 0),
     q5 |-> swapPool("v3", "v3", "x", "y", 500, 10), q6 |-> swapPool("v3", "v3", "x", "y", 3000, 60),
     q7 |-> swapPool("slip", "v3", "x", "y", 500, 1), q8 |-> swapPool("slip", "v3", "y", "x", 500, 100),
     q9 |-> swapPool("old", "v3", "x", "y", 500, 10)]

SomeStates == {<<100, 90>>, <<97, 93>>, <<0, 0>>}

request(v, in, out, amount, slippage, p) ==
    [chain |-> "c1", venue |-> v, tokenIn |-> in, tokenOut |-> out, amountIn |-> amount,
     slippage |-> slippage, pool |-> p]

\* At these amounts the fee makes a difference in the last unit.
SomeRequests ==
    {request("uni", "X", "Y", 43, 0, "none"), request("sushi", "X", "Y", 27, 700, "none"),
     request("off", "X", "Y", 20, 50, "none"), request("aero", "Y", "X", 53, 300, "none"),
     request("v3", "X", "Y", 20, 100, "none"), request("old", "Y", "X", 20, 100, "none"),
     request("slip", "Y", "X", 30, 20000, "none"), request("uni", "X", "Z", 20, 50, "none"),
     request("uni", "X", "Y", 20, 50, "q2"), request("v3", "X", "Y", 20, 50, "q6"),
     request("uni", "X", "Y", 0, 50, "none")}

\* The parts that are at rest start in one state, in which their work is done.
Init ==
    /\ part \in {"prices", "swap"}
    /\ PricingInit /\ SwapInit
    /\ pools["p3"] = row(3, 7, 0, 0) /\ pools["p4"] = row(0, 0, 1, 1)
    /\ part # "prices" => pools["p1"].r0 = 0 /\ pools["p2"].sqrt = 0
    /\ \A q \in DOMAIN SwapPools : onchain[q] = <<100, 90>>

Next ==
    /\ UNCHANGED part
    /\ \/ part = "prices" /\ PricingNext /\ UNCHANGED swapVars
       \/ part = "swap" /\ SwapNext /\ UNCHANGED pricingVars

Spec == Init /\ [][Next]_<<part, pricingVars, swapVars>>
=============================================================================
