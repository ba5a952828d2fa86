------------------------------- MODULE MCScan -------------------------------
(***************************************************************************)
(* What is read from the chains, for TLC: the scanner processes and their  *)
(* leases, the scan of a Solana venue, and the calls to the endpoints.     *)
(* Each is checked by itself, with the others at rest.                     *)
(***************************************************************************)
EXTENDS PoolScanner, SolanaScan, RpcPool

VARIABLE part

onePart == <<part, scanVars, solanaVars, rpcVars>>

evmVenue(kind, pools) == [kind |-> kind, pools |-> pools]

SomeSettings ==
    {[venues |-> <<evmVenue("v1", <<"a">>)>>,
      mode |-> "tracked", leases |-> TRUE, repeat |-> TRUE],
     [venues |-> <<evmVenue("v1", <<"a">>), evmVenue("aerodrome", <<"b", "c">>)>>,
      mode |-> "full", leases |-> TRUE, repeat |-> TRUE],
     [venues |-> <<evmVenue("v2", <<"a", "b">>), evmVenue("v3", <<"c">>),
                  evmVenue("aerodrome", <<"d">>)>>,
      mode |-> "tracked", leases |-> FALSE, repeat |-> FALSE]}

account(pr, key, mints) ==
    [program |-> pr, key |-> key, mints |-> mints, valid |-> TRUE, priced |-> TRUE,
     vaults |-> <<"v1", "v2">>]

ofVaults(v, w, a) == [a EXCEPT !.vaults = <<v, w>>]
unfit(a) == [a EXCEPT !.valid = FALSE]
unpriced(a) == [a EXCEPT !.priced = FALSE]

\* A program whose accounts need shards of every depth, two of them with equal bytes,
\* and three small ones.
SomeAccounts ==
    [a1 |-> account("dlmm", <<0, 0, 0>>, <<"x", "y">>),
     a2 |-> account("dlmm", <<0, 0, 1>>, <<"x", "z">>),
     a3 |-> account("dlmm", <<0, 1, 0>>, <<"z", "y">>),
     a4 |-> ofVaults("v3", "v1", account("dlmm", <<0, 1, 0>>, <<"y", "z">>)),
     a5 |-> unpriced(account("dlmm", <<1, 0, 0>>, <<"z", "x">>)),
     b1 |-> account("clmm", <<0, 0, 0>>, <<"x", "y">>),
     b2 |-> ofVaults("v3", "v4", account("cpmm", <<0, 0, 0>>, <<"z", "y">>)),
     b3 |-> account("amm", <<0, 1, 0>>, <<"x", "z">>),
     b4 |-> unfit(account("amm", <<1, 1, 0>>, <<"x", "z">>)),
     c1 |-> account("config1", <<1, 1, 0>>, <<"y", "x">>),
     c2 |-> account("config2", <<0, 1, 1>>, <<"w", "x">>),
     d1 |-> account("whirlpool", <<1, 1, 0>>, <<"y", "x">>)]

SomeBalances == [v1 |-> 5, v2 |-> 7, v3 |-> 11, v4 |-> 13]
NotAnswered == {"a2", "v1"}

SomeMints == <<"x", "y">>

\* The parts that are at rest start in one state, in which their work is done.
Init ==
    /\ part \in {"scanner", "solana", "rpc"}
    /\ ScannerInit /\ SolanaInit /\ RpcInit
    /\ part # "scanner" => ~env.repeat
    /\ part # "solana" <=> venue.key = "unsupported"
    /\ part # "solana" => venue.tracked
    /\ part # "rpc" => chain = "evm"

Next ==
    /\ UNCHANGED part
    /\ \/ part = "scanner" /\ ScannerNext /\ UNCHANGED solanaVars /\ UNCHANGED rpcVars
       \/ part = "solana" /\ SolanaNext /\ UNCHANGED scanVars /\ UNCHANGED rpcVars
       \/ part = "rpc" /\ RpcNext /\ UNCHANGED scanVars /\ UNCHANGED solanaVars

\* A scanner process that runs makes its next step, the lease of a dead one expires and
\* endpoints catch up; goroutines of a Solana scan run and every call returns.  No
\* behaviour of a Solana scan is infinite, so it is enough that some goroutine runs.
Fairness ==
    /\ \A s \in Scanners : WF_scanVars(part = "scanner" /\ ScanStep(s))
    /\ WF_scanVars(part = "scanner" /\ UnrenewedExpires)
    /\ WF_scanVars(part = "scanner" /\ EndpointsCatchUp)
    /\ WF_solanaVars(part = "solana" /\ (ScanLoop \/ \E w \in ShardWorkers : WorkerStep(w)))

Spec == Init /\ [][Next]_onePart /\ Fairness
=============================================================================
