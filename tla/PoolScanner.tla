---------------------------- MODULE PoolScanner ----------------------------
(***************************************************************************)
(* The pool scanner: processes that go through the list of venues, take    *)
(* the lease of a venue, read its pools from the chain, save them and      *)
(* announce the prices that may have changed.  A goroutine renews the      *)
(* lease during the scan; nothing stops a scan whose lease was lost.       *)
(*                                                                         *)
(* The state of a pool on the chain is the number of the block it was read *)
(* at; r0 and r1 are its two reserves, or its price and its liquidity.     *)
(* One call of the multicall contract reads one block, two calls may read  *)
(* two, and an endpoint may be a block behind.  Solana venues are scanned  *)
(* under the same leases; how their accounts are read is in SolanaScan.    *)
(***************************************************************************)
EXTENDS Naturals, Sequences, FiniteSets, TLC

CONSTANTS
    Scanners,    \* scanner processes
    Settings,    \* the settings a run looks at: [venues, mode, leases, repeat]
    ScanBatch,   \* pools in one multicall
    MaxBlock,    \* blocks of the chain (bound)
    ScanFaults   \* errors of calls, lost updates of leases and crashes (bound)

\* "none" stands for the owner of a lease that has no row.
ASSUME ScannerAssumption ==
    /\ "none" \notin Scanners
    /\ ScanBatch \in Nat \ {0}
    /\ MaxBlock \in Nat \ {0}
    /\ ScanFaults \in Nat

VARIABLES
    env,      \* venuesList, SCANNER_MODE, SCANNER_LEASES, SCANNER_INTERVAL > 0
    head,     \* the last block
    lagging,  \* some endpoint is a block behind
    rows,     \* the table pools
    silent,   \* pools that changed since their prices were last announced
    lease,    \* service_leases: the owner of the lease of each venue
    scanner,  \* what each process does
    renewal,  \* the venue whose lease the goroutine of a process renews, or 0
    overrun,  \* history: processes whose lease expired during their scan
    scanFaults

scanVars == <<env, head, lagging, rows, silent, lease, scanner, renewal, overrun, scanFaults>>

VenueIds == DOMAIN env.venues
PoolsOf(v) == {env.venues[v].pools[i] : i \in DOMAIN env.venues[v].pools}
AllPools == UNION {PoolsOf(v) : v \in VenueIds}

NoRow == [r0 |-> 0, r1 |-> 0]
NoOne == [owner |-> "none", expired |-> FALSE]
NoPools == [p \in {} |-> NoRow]
Idle == [step |-> "idle", at |-> 1, todo |-> << >>, got |-> NoPools]

ScannerInit ==
    /\ env \in Settings
    /\ head = 1
    /\ lagging = FALSE
    /\ rows = [p \in AllPools |-> NoRow]
    /\ silent = {}
    /\ lease = [v \in VenueIds |-> NoOne]
    /\ scanner = [s \in Scanners |-> Idle]
    /\ renewal = [s \in Scanners |-> 0]
    /\ overrun = {}
    /\ scanFaults = 0

chainVars == <<env, head, lagging>>

fault == scanFaults < ScanFaults /\ scanFaults' = scanFaults + 1

venueOf(s) == scanner[s].at

-----------------------------------------------------------------------------
(* Leases.                                                                 *)

\* Mutant: an expired lease of another process is not taken over.
acquirableNever(l, s) == l = NoOne \/ l.owner = s

\* The update matches a row that is expired or the process's own; otherwise the
\* insert succeeds only when there is no row.
acquirable(l, s) == l = NoOne \/ l.expired \/ l.owner = s

TryAcquire(v, s) ==
    /\ acquirable(lease[v], s)
    /\ lease' = [lease EXCEPT ![v] = [owner |-> s, expired |-> FALSE]]

\* Mutant: the lease is deleted by its name alone.
ReleaseAnyones(v, s) == lease' = [lease EXCEPT ![v] = NoOne]

Release(v, s) ==
    lease' = [lease EXCEPT ![v] = IF @.owner = s THEN NoOne ELSE @]

\* One tick of the renewal.  The insert of another's lease fails: that ends the
\* goroutine or, when the commit reports the aborted transaction, is only logged.
Renew(s) ==
    /\ renewal[s] # 0
    /\ \/ TryAcquire(renewal[s], s) /\ UNCHANGED <<renewal, scanFaults>>
       \/ /\ ~acquirable(lease[renewal[s]], s)
          /\ renewal' = [renewal EXCEPT ![s] = 0]
          /\ UNCHANGED <<lease, scanFaults>>
    /\ UNCHANGED <<rows, silent, scanner, overrun>> /\ UNCHANGED chainVars

LeaseExpires(v) ==
    /\ lease[v] # NoOne
    /\ ~lease[v].expired
    /\ lease' = [lease EXCEPT ![v].expired = TRUE]
    /\ overrun' = overrun \cup {s \in Scanners : s = lease[v].owner
                                                 /\ venueOf(s) = v /\ scanner[s].step # "idle"}
    /\ UNCHANGED <<rows, silent, scanner, renewal, scanFaults>> /\ UNCHANGED chainVars

-----------------------------------------------------------------------------
(* Which scan a venue gets.                                                *)

fullKinds == {"v2", "aerodrome"}

\* A full scan is skipped for the venues that can only be asked for known tokens.
scanned(v) == env.mode = "tracked" \/ env.venues[v].kind \in fullKinds

\* The venue after this one; the cycle starts again, or the process ends.
afterVenue(s) ==
    IF venueOf(s) < Len(env.venues) THEN [Idle EXCEPT !.at = venueOf(s) + 1]
    ELSE IF env.repeat THEN Idle ELSE [Idle EXCEPT !.step = "over"]

SkipVenue(s) ==
    /\ scanner[s].step = "idle"
    /\ \/ ~scanned(venueOf(s))
       \/ env.leases /\ ~acquirable(lease[venueOf(s)], s)
    /\ scanner' = [scanner EXCEPT ![s] = afterVenue(s)]
    /\ UNCHANGED <<rows, silent, lease, renewal, overrun, scanFaults>> /\ UNCHANGED chainVars

runVenueScan(s) ==
    /\ scanner[s].step = "idle"
    /\ scanned(venueOf(s))
    /\ IF env.leases THEN /\ TryAcquire(venueOf(s), s)
                          /\ renewal' = [renewal EXCEPT ![s] = venueOf(s)]
                     ELSE UNCHANGED <<lease, renewal>>
    /\ scanner' = [scanner EXCEPT ![s].step = "find"]
    /\ UNCHANGED <<rows, silent, overrun, scanFaults>> /\ UNCHANGED chainVars

stopRenewal(s) == renewal' = [renewal EXCEPT ![s] = 0]

\* The deferred end of runVenueScan.  An error of the release is only logged.
EndVenueScan(s) ==
    /\ scanner[s].step = "end"
    /\ stopRenewal(s)
    /\ \/ Release(venueOf(s), s) /\ UNCHANGED scanFaults
       \/ env.leases /\ fault /\ UNCHANGED lease
    /\ overrun' = overrun \ {s}
    /\ scanner' = [scanner EXCEPT ![s] = afterVenue(s)]
    /\ UNCHANGED <<rows, silent>> /\ UNCHANGED chainVars

-----------------------------------------------------------------------------
(* Reading the chain.                                                      *)

\* The block an answer of CallContract or of Aggregate3 is about.
answered == {head} \cup (IF lagging /\ head > 1 THEN {head - 1} ELSE {})

withStep(s, rec) == scanner' = [scanner EXCEPT ![s] = rec]

\* The pools of the venue without the ones whose calls failed.
without(s, lost) == SelectSeq(env.venues[venueOf(s)].pools, LAMBDA p : p \notin lost)

\* Tracked: the pool of every pair of tokens, found with one call of the multicall
\* contract.  A call inside it that fails loses its pool.
findPairAddresses(s) == {without(s, lost) : lost \in SUBSET PoolsOf(venueOf(s))}

\* Aerodrome has a stable and a volatile pool for every pair.
findStableAndVolatile(s) == {without(s, lost) : lost \in SUBSET PoolsOf(venueOf(s))}

\* Uniswap v3 has a pool for every pair and fee, slipstream for every pair and tick
\* spacing: when the call for the spacings fails, the pools of all but the listed ones
\* are lost.
findPoolAddresses(s) == {without(s, lost) : lost \in SUBSET PoolsOf(venueOf(s))}

\* Full: the pools of the factory by their index; no call inside may fail.
loadPairAddressBatch(s) == {env.venues[venueOf(s)].pools}
loadPoolAddressBatchMulticall(s) == {env.venues[venueOf(s)].pools}

\* Uniswap v1 asks for the exchange of each token in turn, and goes on after an error.
findExchanges(s) == {without(s, lost) : lost \in SUBSET PoolsOf(venueOf(s))}

addressesFor(s) ==
    LET kind == env.venues[venueOf(s)].kind
    IN  CASE kind = "v1" -> findExchanges(s)
          [] kind = "v3" -> findPoolAddresses(s)
          [] kind = "v2" -> IF env.mode = "full" THEN loadPairAddressBatch(s)
                            ELSE findPairAddresses(s)
          [] kind = "aerodrome" -> IF env.mode = "full" THEN loadPoolAddressBatchMulticall(s)
                                   ELSE findStableAndVolatile(s)

Find(s) ==
    /\ scanner[s].step = "find"
    /\ \E found \in addressesFor(s) :
         /\ IF found = env.venues[venueOf(s)].pools THEN UNCHANGED scanFaults ELSE fault
         /\ withStep(s, [scanner[s] EXCEPT !.step = IF found = << >> THEN "end" ELSE "load",
                                           !.todo = found])
    /\ UNCHANGED <<rows, silent, lease, renewal, overrun>> /\ UNCHANGED chainVars

\* A full scan saves every batch it has loaded, unless nothing of it is left.
ScanPoolsStream(s, rest, got) ==
    [scanner[s] EXCEPT !.todo = rest, !.got = got,
        !.step = IF DOMAIN got # {} THEN "save" ELSE IF rest = << >> THEN "end" ELSE "load"]

\* A tracked scan saves when all are loaded.
ScanPoolsForAssets(s, rest, got) ==
    [scanner[s] EXCEPT !.todo = rest, !.got = got,
        !.step = IF rest # << >> THEN "load" ELSE IF DOMAIN got # {} THEN "save" ELSE "end"]

afterLoad(s, rest, got) ==
    IF env.mode = "full" THEN ScanPoolsStream(s, rest, got) ELSE ScanPoolsForAssets(s, rest, got)

\* One multicall for the first n pools; a pool whose calls fail is left out.
loadBatch(s, n) ==
    /\ LET now == {scanner[s].todo[i] : i \in 1..n}
           rest == SubSeq(scanner[s].todo, n + 1, Len(scanner[s].todo))
       IN  \E b \in answered, lost \in SUBSET now :
             /\ IF lost = {} THEN UNCHANGED scanFaults ELSE fault
             /\ withStep(s, afterLoad(s, rest,
                    [p \in now \ lost |-> [r0 |-> b, r1 |-> b]] @@ scanner[s].got))
    /\ UNCHANGED <<rows, silent, lease, renewal, overrun>> /\ UNCHANGED chainVars

loading(s, kind) == scanner[s].step = "load" /\ env.venues[venueOf(s)].kind = kind

batchLen(s) == IF Len(scanner[s].todo) < ScanBatch THEN Len(scanner[s].todo) ELSE ScanBatch

\* Tokens and reserves of a batch of Uniswap v2 pairs.
loadPairBatch(s) == loading(s, "v2") /\ loadBatch(s, batchLen(s))

\* Tokens, reserves and the curve of a batch of Aerodrome pools.
loadPoolBatchMulticall(s) == loading(s, "aerodrome") /\ loadBatch(s, batchLen(s))

\* Tokens, fee, liquidity and price of Uniswap v3 pools, all of them in one multicall.
loadPools(s) == loading(s, "v3") /\ loadBatch(s, Len(scanner[s].todo))

\* Uniswap v1: the balance of tokens and the balance of ether are two calls.
tokenBalance(s) ==
    /\ loading(s, "v1")
    /\ \E b \in answered :
         withStep(s, [scanner[s] EXCEPT !.step = "ether",
             !.got = (Head(scanner[s].todo) :> [r0 |-> b, r1 |-> 0]) @@ @])
    /\ UNCHANGED <<rows, silent, lease, renewal, overrun, scanFaults>> /\ UNCHANGED chainVars

loadExchange(s) ==
    /\ scanner[s].step = "ether"
    /\ LET pool == Head(scanner[s].todo)
       IN  \/ /\ \E b \in answered : withStep(s, afterLoad(s, Tail(scanner[s].todo),
                                        [scanner[s].got EXCEPT ![pool].r1 = b]))
              /\ UNCHANGED scanFaults
           \/ /\ fault
              /\ withStep(s, afterLoad(s, Tail(scanner[s].todo),
                    [p \in DOMAIN scanner[s].got \ {pool} |-> scanner[s].got[p]]))
    /\ UNCHANGED <<rows, silent, lease, renewal, overrun>> /\ UNCHANGED chainVars

-----------------------------------------------------------------------------
(* Saving: the handler of PoolBatchScanned, in two transactions.           *)

SavePools(s) ==
    /\ scanner[s].step = "save"
    /\ rows' = scanner[s].got @@ rows
    /\ silent' = silent \cup {p \in DOMAIN scanner[s].got : rows[p] # scanner[s].got[p]}
    /\ withStep(s, [scanner[s] EXCEPT !.step = "announce"])
    /\ UNCHANGED <<lease, renewal, overrun, scanFaults>> /\ UNCHANGED chainVars

announcePrices(s) == silent' = silent \ DOMAIN scanner[s].got

Announce(s) ==
    /\ scanner[s].step = "announce"
    /\ announcePrices(s)
    /\ withStep(s, [scanner[s] EXCEPT !.got = NoPools,
                        !.step = IF scanner[s].todo = << >> THEN "end" ELSE "load"])
    /\ UNCHANGED <<rows, lease, renewal, overrun, scanFaults>> /\ UNCHANGED chainVars

\* An error of a call or of the database ends the scan of the venue; each price is
\* announced in a transaction of its own, so some may be announced already.
ScanError(s) ==
    /\ scanner[s].step \in {"find", "load", "save", "announce"}
    /\ fault
    /\ \E told \in SUBSET DOMAIN scanner[s].got :
         silent' = IF scanner[s].step = "announce" THEN silent \ told ELSE silent
    /\ withStep(s, [scanner[s] EXCEPT !.step = "end", !.got = NoPools, !.todo = << >>])
    /\ UNCHANGED <<rows, lease, renewal, overrun>> /\ UNCHANGED chainVars

\* A process dies with all it holds; another may be started in its place.
ScannerCrash(s) ==
    /\ scanner[s].step \notin {"down", "over"}
    /\ fault
    /\ scanner' = [scanner EXCEPT ![s] = [Idle EXCEPT !.step = "down"]]
    /\ renewal' = [renewal EXCEPT ![s] = 0]
    /\ overrun' = overrun \ {s}
    /\ UNCHANGED <<rows, silent, lease>> /\ UNCHANGED chainVars

ScannerRestart(s) ==
    /\ scanner[s].step = "down"
    /\ scanner' = [scanner EXCEPT ![s] = Idle]
    /\ UNCHANGED <<rows, silent, lease, renewal, overrun, scanFaults>> /\ UNCHANGED chainVars

-----------------------------------------------------------------------------
(* The chain.                                                              *)

NewBlock ==
    /\ head < MaxBlock
    /\ head' = head + 1
    /\ lagging' = TRUE
    /\ UNCHANGED <<env, rows, silent, lease, scanner, renewal, overrun, scanFaults>>

EndpointsCatchUp ==
    /\ lagging
    /\ lagging' = FALSE
    /\ UNCHANGED <<env, head, rows, silent, lease, scanner, renewal, overrun, scanFaults>>

ScanStep(s) ==
    \/ SkipVenue(s) \/ runVenueScan(s) \/ Find(s)
    \/ loadPairBatch(s) \/ loadPoolBatchMulticall(s) \/ loadPools(s) \/ tokenBalance(s) \/ loadExchange(s)
    \/ SavePools(s) \/ Announce(s) \/ EndVenueScan(s)

ScannerNext ==
    \/ \E s \in Scanners : ScanStep(s) \/ Renew(s) \/ ScanError(s)
                           \/ ScannerCrash(s) \/ ScannerRestart(s)
    \/ \E v \in VenueIds : LeaseExpires(v)
    \/ NewBlock \/ EndpointsCatchUp

\* A lease that nobody renews expires.
UnrenewedExpires ==
    \E v \in VenueIds : LeaseExpires(v) /\ \A s \in Scanners : renewal[s] # v

-----------------------------------------------------------------------------
(* Properties.                                                             *)

inScan(s, v) == venueOf(s) = v /\ scanner[s].step \notin {"idle", "down", "over"}

\* Two processes scan one venue at a time only if the lease of one of them expired
\* under its scan; a late process never takes the lease of its successor away.
ScansExclusive ==
    \A v \in VenueIds : \A s, t \in Scanners :
        env.leases /\ s # t /\ inScan(s, v) /\ inScan(t, v) => {s, t} \cap overrun # {}

\* A lease does not outlive the scan it was taken for, unless the process died or its
\* release failed: the renewal that runs beside the scan never brings it back.
LeasesGivenBack ==
    scanFaults = 0 => \A v \in VenueIds, s \in Scanners : lease[v].owner = s => inScan(s, v)

\* When the chain rests, the table ends up with its last state and nothing of it is
\* left unannounced, whatever calls fail, processes die and scans overlap.
RowsCatchUp ==
    <>[](env.repeat => \A v \in VenueIds : scanned(v) => \A p \in PoolsOf(v) :
            rows[p] = [r0 |-> head, r1 |-> head] /\ p \notin silent)

\* The lease of a venue is held by the process that scans it, and by no other.
LeasesHold == ScansExclusive /\ LeasesGivenBack
=============================================================================
