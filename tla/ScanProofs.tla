----------------------------- MODULE ScanProofs -----------------------------
(***************************************************************************)
(* What is read from the chains: the leases of the venues, for any number  *)
(* of scanner processes, any list of venues, any chain and any number of   *)
(* faults; the channel and the wait group of a sharded Solana scan, for    *)
(* any number of workers, any fanout and depth of the shards and any       *)
(* accounts; what that scan, and one by queries, hands on, for any program *)
(* accounts and vaults and any split of keys into calls; and the calls,    *)
(* for any number of endpoints and goroutines.                             *)
(***************************************************************************)
EXTENDS PoolScanner, SolanaScan, RpcPool, TLAPS, FiniteSetTheorems, FunctionTheorems, SequenceTheorems,
        NaturalsInduction, WellFoundedInduction

(***************************************************************************)
(* Leases.                                                                 *)
(***************************************************************************)
ScannerSpec == ScannerInit /\ [][ScannerNext]_scanVars

ScanSteps == {"idle", "find", "load", "ether", "save", "announce", "end", "over", "down"}

\* The steps in which a process is scanning its venue.
Scanning == {"find", "load", "ether", "save", "announce", "end"}

LeaseRow == [owner : Scanners \cup {"none"}, expired : BOOLEAN]

\* A process, whatever the pools it has found and read.
Process(r) == r \in [step : ScanSteps, at : Nat, todo : {r.todo}, got : {r.got}]

ScannerTypeOK ==
    /\ lease \in [VenueIds -> LeaseRow]
    /\ scanner = [s \in Scanners |-> scanner[s]]
    /\ \A s \in Scanners : Process(scanner[s])
    /\ renewal \in [Scanners -> Nat]
    /\ overrun \subseteq Scanners
    /\ scanFaults \in 0..ScanFaults

\* A process that scans a venue has its lease, which has not expired, unless it is late.
HeldDuringScan ==
    \A v \in VenueIds, s \in Scanners :
        env.leases /\ inScan(s, v) /\ s \notin overrun =>
            lease[v] = [owner |-> s, expired |-> FALSE]

\* The renewal runs beside the scan of its venue and not beyond.
RenewedDuringScan == \A s \in Scanners : renewal[s] # 0 => inScan(s, renewal[s])

LeaseInv ==
    /\ ScannerTypeOK
    /\ HeldDuringScan
    /\ RenewedDuringScan
    /\ LeasesGivenBack

USE ScannerAssumption

-----------------------------------------------------------------------------
\* What it means to be inside a venue scan.
LEMMA InScanIs ==
    ASSUME ScannerTypeOK, NEW s \in Scanners, NEW v
    PROVE  inScan(s, v) <=> scanner[s].at = v /\ scanner[s].step \in Scanning
  BY DEF ScannerTypeOK, Process, ScanSteps, Scanning, inScan, venueOf

\* Two processes without the history of a late one cannot have the same lease.
LEMMA HeldIsExclusive ==
    ASSUME LeaseInv
    PROVE  ScansExclusive
<1> SUFFICES ASSUME NEW v \in VenueIds, NEW s \in Scanners, NEW t \in Scanners,
                    env.leases, s # t, inScan(s, v), inScan(t, v),
                    s \notin overrun, t \notin overrun
             PROVE  FALSE
  BY DEF ScansExclusive
<1>1. lease[v] = [owner |-> s, expired |-> FALSE] /\ lease[v] = [owner |-> t, expired |-> FALSE]
  BY DEF LeaseInv, HeldDuringScan
<1>2. lease[v].owner = s /\ lease[v].owner = t
  BY <1>1
<1> QED  BY <1>2

\* No lease is held at the start.
LEMMA LeasesInitInv == ScannerInit => LeaseInv
<1> SUFFICES ASSUME ScannerInit PROVE LeaseInv
  OBVIOUS
<1> USE DEF ScannerInit, Idle, NoOne
<1>1. ScannerTypeOK
  BY DEF ScannerTypeOK, LeaseRow, Process, ScanSteps, NoPools
<1>2. HeldDuringScan /\ RenewedDuringScan
  BY DEF HeldDuringScan, RenewedDuringScan, inScan
<1>3. LeasesGivenBack
  BY DEF LeasesGivenBack
<1> QED  BY <1>1, <1>2, <1>3 DEF LeaseInv

\* What a scan does between its first and its last step leaves the lease alone.
LEMMA ScanGoesOn ==
    ASSUME LeaseInv, NEW s \in Scanners, NEW r, Process(r),
           scanner[s].step \in Scanning, r.step \in Scanning, r.at = scanner[s].at,
           scanner' = [scanner EXCEPT ![s] = r],
           UNCHANGED <<env, lease, renewal, overrun>>,
           scanFaults' = scanFaults \/ fault
    PROVE  LeaseInv'
<1>1. /\ scanner = [t \in Scanners |-> scanner[t]]
      /\ \A t \in Scanners : scanner'[t] = IF t = s THEN r ELSE scanner[t]
      /\ scanner' = [t \in Scanners |-> scanner'[t]]
  BY DEF LeaseInv, ScannerTypeOK
<1>2. scanFaults' \in 0..ScanFaults /\ (scanFaults' = 0 => scanFaults = 0)
  BY DEF LeaseInv, ScannerTypeOK, fault
<1>3. ScannerTypeOK'
  <2>1. \A t \in Scanners : Process(scanner'[t])
    BY <1>1 DEF LeaseInv, ScannerTypeOK
  <2>2. VenueIds' = VenueIds
    BY DEF VenueIds
  <2> QED  BY <1>1, <1>2, <2>1, <2>2 DEF LeaseInv, ScannerTypeOK, Process
<1>4. \A t \in Scanners : \A v : inScan(t, v)' <=> inScan(t, v)
  BY <1>1 DEF inScan, venueOf, Scanning
<1>5. HeldDuringScan'
  BY <1>4 DEF LeaseInv, HeldDuringScan, VenueIds
<1>6. RenewedDuringScan'
  BY <1>4 DEF LeaseInv, RenewedDuringScan
<1>7. LeasesGivenBack'
  BY <1>2, <1>4 DEF LeaseInv, LeasesGivenBack, VenueIds
<1> QED  BY <1>3, <1>5, <1>6, <1>7 DEF LeaseInv

\* Finding, reading, saving and announcing, and an error of any of these.
LEMMA ScanStepInv ==
    ASSUME LeaseInv, NEW s \in Scanners,
           \/ Find(s) \/ loadPairBatch(s) \/ loadPoolBatchMulticall(s) \/ loadPools(s)
           \/ tokenBalance(s) \/ loadExchange(s) \/ SavePools(s) \/ Announce(s) \/ ScanError(s)
    PROVE  LeaseInv'
<1> USE DEF withStep, chainVars, Scanning
<1>1. /\ Process(scanner[s])
      /\ scanner[s].step \in Scanning
      /\ UNCHANGED <<env, lease, renewal, overrun>>
  BY DEF LeaseInv, ScannerTypeOK, Find, loadPairBatch, loadPoolBatchMulticall, loadPools,
         loading, loadBatch, tokenBalance, loadExchange, SavePools, Announce, ScanError
<1>2. ASSUME NEW rest, NEW got
      PROVE  /\ Process(afterLoad(s, rest, got))
             /\ afterLoad(s, rest, got).step \in Scanning
             /\ afterLoad(s, rest, got).at = scanner[s].at
  <2>1. PICK step \in Scanning :
           afterLoad(s, rest, got) = [scanner[s] EXCEPT !.todo = rest, !.got = got, !.step = step]
    BY DEF afterLoad, ScanPoolsStream, ScanPoolsForAssets
  <2> QED  BY <1>1, <2>1 DEF Process, ScanSteps
<1>3. PICK r : /\ scanner' = [scanner EXCEPT ![s] = r]
               /\ Process(r) /\ r.step \in Scanning /\ r.at = scanner[s].at
               /\ scanFaults' = scanFaults \/ fault
  <2>1. CASE Find(s)
    <3>1. PICK found \in addressesFor(s) :
            /\ found = env.venues[venueOf(s)].pools \/ fault
            /\ scanFaults' = scanFaults \/ fault
            /\ scanner' = [scanner EXCEPT ![s] =
                  [scanner[s] EXCEPT !.step = IF found = << >> THEN "end" ELSE "load",
                                     !.todo = found]]
      BY <2>1 DEF Find
    <3> DEFINE step == IF found = << >> THEN "end" ELSE "load"
               r == [scanner[s] EXCEPT !.step = step, !.todo = found]
    <3>2. step \in Scanning
      OBVIOUS
    <3> HIDE DEF step
    <3>3. Process(r) /\ r.step \in Scanning /\ r.at = scanner[s].at
      BY <1>1, <3>2 DEF Process, ScanSteps
    <3>4. scanner' = [scanner EXCEPT ![s] = r]
      BY <3>1 DEF step
    <3> HIDE DEF r
    <3> QED  BY <3>1, <3>3, <3>4
  <2>2. CASE \E n : loadBatch(s, n)
    <3>1. PICK rest, got : /\ scanner' = [scanner EXCEPT ![s] = afterLoad(s, rest, got)]
                           /\ scanFaults' = scanFaults \/ fault
      BY <2>2 DEF loadBatch
    <3> QED  BY <1>2, <3>1
  <2>3. CASE tokenBalance(s)
    <3>1. PICK got : scanner' = [scanner EXCEPT ![s] =
                                   [scanner[s] EXCEPT !.step = "ether", !.got = got]]
      BY <2>3 DEF tokenBalance
    <3> DEFINE r == [scanner[s] EXCEPT !.step = "ether", !.got = got]
    <3>2. Process(r) /\ r.step \in Scanning /\ r.at = scanner[s].at
      BY <1>1 DEF Process, ScanSteps
    <3> HIDE DEF r
    <3> QED  BY <2>3, <3>1, <3>2 DEF r, tokenBalance
  <2>4. CASE loadExchange(s)
    <3>1. PICK rest, got : /\ scanner' = [scanner EXCEPT ![s] = afterLoad(s, rest, got)]
                           /\ scanFaults' = scanFaults \/ fault
      BY <2>4 DEF loadExchange
    <3> QED  BY <1>2, <3>1
  <2>5. CASE SavePools(s)
    <3> DEFINE r == [scanner[s] EXCEPT !.step = "announce"]
    <3>1. Process(r) /\ r.step \in Scanning /\ r.at = scanner[s].at
      BY <1>1 DEF Process, ScanSteps
    <3>2. scanner' = [scanner EXCEPT ![s] = r] /\ scanFaults' = scanFaults
      BY <2>5 DEF SavePools
    <3> HIDE DEF r
    <3> QED  BY <3>1, <3>2
  <2>6. CASE Announce(s)
    <3> DEFINE step == IF scanner[s].todo = << >> THEN "end" ELSE "load"
               r == [scanner[s] EXCEPT !.got = NoPools, !.step = step]
    <3>1. step \in Scanning
      OBVIOUS
    <3>2. scanner' = [scanner EXCEPT ![s] = r] /\ scanFaults' = scanFaults
      BY <2>6 DEF Announce
    <3> HIDE DEF step
    <3>3. Process(r) /\ r.step \in Scanning /\ r.at = scanner[s].at
      BY <1>1, <3>1 DEF Process, ScanSteps
    <3> HIDE DEF r
    <3> QED  BY <3>2, <3>3
  <2>7. CASE ScanError(s)
    <3> DEFINE r == [scanner[s] EXCEPT !.step = "end", !.got = NoPools, !.todo = << >>]
    <3>1. Process(r) /\ r.step \in Scanning /\ r.at = scanner[s].at
      BY <1>1 DEF Process, ScanSteps
    <3>2. scanner' = [scanner EXCEPT ![s] = r] /\ fault
      BY <2>7 DEF ScanError
    <3> HIDE DEF r
    <3> QED  BY <3>1, <3>2
  <2> QED
    BY <2>1, <2>2, <2>3, <2>4, <2>5, <2>6, <2>7
       DEF loadPairBatch, loadPoolBatchMulticall, loadPools
<1> HIDE DEF Scanning
<1> QED  BY <1>1, <1>3, ScanGoesOn

\* Between two scans a process goes through the venues, ends, dies or starts again.
LEMMA NotInScanInv ==
    ASSUME LeaseInv, NEW s \in Scanners, NEW r, Process(r), r.step \notin Scanning,
           scanner' = [scanner EXCEPT ![s] = r],
           (renewal' = renewal /\ renewal[s] = 0) \/ renewal' = [renewal EXCEPT ![s] = 0],
           overrun' \in {overrun, overrun \ {s}},
           scanFaults' = scanFaults \/ fault,
           \A v \in VenueIds : lease'[v] # lease[v] => lease[v].owner = s /\ lease'[v] = NoOne,
           scanFaults' = 0 => \A v \in VenueIds : lease'[v].owner # s,
           lease' \in [VenueIds -> LeaseRow],
           UNCHANGED env
    PROVE  LeaseInv'
<1>1. /\ renewal \in [Scanners -> Nat]
      /\ \A t \in Scanners : scanner'[t] = IF t = s THEN r ELSE scanner[t]
      /\ scanner' = [t \in Scanners |-> scanner'[t]]
  BY DEF LeaseInv, ScannerTypeOK
<1>2. /\ VenueIds' = VenueIds
      /\ scanFaults' \in 0..ScanFaults /\ (scanFaults' = 0 => scanFaults = 0)
      /\ renewal' \in [Scanners -> Nat] /\ renewal'[s] = 0
      /\ \A t \in Scanners \ {s} : renewal'[t] = renewal[t]
  BY <1>1 DEF VenueIds, LeaseInv, ScannerTypeOK, fault
<1>3. ScannerTypeOK'
  <2>1. \A t \in Scanners : Process(scanner'[t])
    BY <1>1 DEF LeaseInv, ScannerTypeOK
  <2> QED  BY <1>1, <1>2, <2>1 DEF LeaseInv, ScannerTypeOK, Process, LeaseRow
<1>4. /\ \A v : ~inScan(s, v)'
      /\ \A t \in Scanners \ {s} : \A v : inScan(t, v)' <=> inScan(t, v)
  BY <1>1 DEF inScan, venueOf, Process, ScanSteps, Scanning
<1>5. HeldDuringScan'
  <2> SUFFICES ASSUME NEW v \in VenueIds, NEW t \in Scanners,
                      env.leases, inScan(t, v)', t \notin overrun'
               PROVE  lease'[v] = [owner |-> t, expired |-> FALSE]
    BY <1>2 DEF HeldDuringScan
  <2>1. t # s /\ inScan(t, v) /\ t \notin overrun
    BY <1>4
  <2>2. lease[v] = [owner |-> t, expired |-> FALSE]
    BY <2>1 DEF LeaseInv, HeldDuringScan
  <2>3. lease[v].owner # s
    BY <2>1, <2>2
  <2> QED  BY <2>2, <2>3
<1>6. RenewedDuringScan'
  BY <1>2, <1>4 DEF LeaseInv, RenewedDuringScan
<1>7. LeasesGivenBack'
  <2> SUFFICES ASSUME scanFaults' = 0, NEW v \in VenueIds, NEW t \in Scanners,
                      lease'[v].owner = t
               PROVE  inScan(t, v)'
    BY <1>2 DEF LeasesGivenBack
  <2>1. t # s /\ scanFaults = 0
    BY <1>2
  <2>2. lease'[v] = lease[v]
    BY DEF NoOne
  <2> QED  BY <1>4, <2>1, <2>2 DEF LeaseInv, LeasesGivenBack
<1> QED  BY <1>3, <1>5, <1>6, <1>7 DEF LeaseInv

\* Where a run goes after a venue.
LEMMA AfterVenueIs ==
    ASSUME LeaseInv, NEW s \in Scanners
    PROVE  Process(afterVenue(s)) /\ afterVenue(s).step \notin Scanning
<1>1. scanner[s].at \in Nat
  BY DEF LeaseInv, ScannerTypeOK, Process
<1>2. afterVenue(s) \in {[Idle EXCEPT !.at = scanner[s].at + 1], Idle, [Idle EXCEPT !.step = "over"]}
  BY DEF afterVenue, venueOf
<1>3. CASE afterVenue(s) = [Idle EXCEPT !.at = scanner[s].at + 1]
  BY <1>1, <1>3 DEF Idle, Process, ScanSteps, Scanning
<1>4. CASE afterVenue(s) = Idle
  BY <1>4 DEF Idle, Process, ScanSteps, Scanning
<1>5. CASE afterVenue(s) = [Idle EXCEPT !.step = "over"]
  BY <1>5 DEF Idle, Process, ScanSteps, Scanning
<1> QED  BY <1>2, <1>3, <1>4, <1>5

\* A process that does not scan renews no lease and, without faults, has none.
LEMMA OutOfScan ==
    ASSUME LeaseInv, NEW s \in Scanners, scanner[s].step \notin Scanning
    PROVE  /\ renewal[s] = 0
           /\ scanFaults = 0 => \A v \in VenueIds : lease[v].owner # s
  BY InScanIs DEF LeaseInv, RenewedDuringScan, LeasesGivenBack

\* Leaving a venue gives its lease back.
LEMMA LeaveInv ==
    ASSUME LeaseInv, NEW s \in Scanners,
           SkipVenue(s) \/ EndVenueScan(s) \/ ScannerCrash(s) \/ ScannerRestart(s)
    PROVE  LeaseInv'
<1> USE DEF chainVars
<1>1. lease \in [VenueIds -> LeaseRow] /\ scanFaults \in 0..ScanFaults
  BY DEF LeaseInv, ScannerTypeOK
<1>2. PICK r : /\ scanner' = [scanner EXCEPT ![s] = r]
               /\ Process(r) /\ r.step \notin Scanning
  <2>1. CASE SkipVenue(s) \/ EndVenueScan(s)
    BY <2>1, AfterVenueIs DEF SkipVenue, EndVenueScan
  <2>2. CASE ScannerCrash(s) \/ ScannerRestart(s)
    <3> DEFINE down == [Idle EXCEPT !.step = "down"]
    <3>1. Process(down) /\ down.step \notin Scanning
      BY DEF Idle, Process, ScanSteps, Scanning
    <3>2. Process(Idle) /\ Idle.step \notin Scanning
      BY DEF Idle, Process, ScanSteps, Scanning
    <3>3. scanner' = [scanner EXCEPT ![s] = down] \/ scanner' = [scanner EXCEPT ![s] = Idle]
      BY <2>2 DEF ScannerCrash, ScannerRestart
    <3> HIDE DEF down
    <3> QED  BY <3>1, <3>2, <3>3
  <2> QED  BY <2>1, <2>2
<1>3. (renewal' = renewal /\ renewal[s] = 0) \/ renewal' = [renewal EXCEPT ![s] = 0]
  <2>1. CASE SkipVenue(s) \/ ScannerRestart(s)
    BY <2>1, OutOfScan DEF SkipVenue, ScannerRestart, Scanning
  <2>2. CASE EndVenueScan(s) \/ ScannerCrash(s)
    BY <2>2 DEF EndVenueScan, ScannerCrash, stopRenewal
  <2> QED  BY <2>1, <2>2
<1>4. /\ overrun' \in {overrun, overrun \ {s}}
      /\ scanFaults' = scanFaults \/ fault
      /\ UNCHANGED env
  BY DEF SkipVenue, EndVenueScan, ScannerCrash, ScannerRestart
<1>5. /\ lease' \in [VenueIds -> LeaseRow]
      /\ \A v \in VenueIds : lease'[v] # lease[v] => lease[v].owner = s /\ lease'[v] = NoOne
      /\ scanFaults' = 0 => \A v \in VenueIds : lease'[v].owner # s
  <2>1. CASE SkipVenue(s) \/ ScannerRestart(s)
    <3>1. UNCHANGED <<lease, scanFaults>> /\ scanner[s].step \notin Scanning
      BY <2>1 DEF SkipVenue, ScannerRestart, Scanning
    <3> QED  BY <1>1, <3>1, OutOfScan
  <2>2. CASE ScannerCrash(s)
    BY <1>1, <2>2 DEF ScannerCrash, fault
  <2>3. CASE EndVenueScan(s) /\ UNCHANGED lease /\ fault
    BY <1>1, <2>3 DEF fault
  <2>4. CASE EndVenueScan(s) /\ Release(venueOf(s), s) /\ UNCHANGED scanFaults
    <3>1. \A v \in VenueIds : lease'[v] = IF v = venueOf(s) /\ lease[v].owner = s
                                          THEN NoOne ELSE lease[v]
      BY <1>1, <2>4 DEF Release
    <3>2. NoOne \in LeaseRow /\ NoOne.owner # s
      BY DEF NoOne, LeaseRow
    <3>3. scanFaults = 0 => \A v \in VenueIds : lease[v].owner = s => v = venueOf(s)
      BY DEF LeaseInv, LeasesGivenBack, inScan
    <3>4. lease' \in [VenueIds -> LeaseRow]
      BY <1>1, <2>4, <3>2 DEF Release
    <3> QED  BY <2>4, <3>1, <3>2, <3>3, <3>4
  <2> QED  BY <2>1, <2>2, <2>3, <2>4 DEF EndVenueScan
<1> QED  BY <1>2, <1>3, <1>4, <1>5, NotInScanInv

\* A venue scan starts with its lease, or without one where none is used.
LEMMA RunInv ==
    ASSUME LeaseInv, NEW s \in Scanners, runVenueScan(s)
    PROVE  LeaseInv'
<1> DEFINE r == [scanner[s] EXCEPT !.step = "find"]
           at == scanner[s].at
<1>1. /\ scanner[s].step = "idle"
      /\ scanner' = [scanner EXCEPT ![s] = r]
      /\ UNCHANGED <<env, overrun, scanFaults>>
  BY DEF runVenueScan, chainVars
<1>2. /\ IF env.leases THEN /\ TryAcquire(at, s)
                            /\ renewal' = [renewal EXCEPT ![s] = at]
                       ELSE UNCHANGED <<lease, renewal>>
  BY DEF runVenueScan, venueOf
<1>3. /\ lease \in [VenueIds -> LeaseRow] /\ renewal \in [Scanners -> Nat]
      /\ scanner = [t \in Scanners |-> scanner[t]] /\ Process(scanner[s]) /\ at \in Nat
  BY DEF LeaseInv, ScannerTypeOK, Process
<1>4. Process(r) /\ r.step = "find" /\ r.at = at
  BY <1>3 DEF Process, ScanSteps
<1> HIDE DEF r
<1>5. /\ \A t \in Scanners : scanner'[t] = IF t = s THEN r ELSE scanner[t]
      /\ scanner' = [t \in Scanners |-> scanner'[t]]
      /\ VenueIds' = VenueIds
  BY <1>1, <1>3 DEF VenueIds
<1>6. /\ \A v : inScan(s, v)' <=> v = at
      /\ \A v : ~inScan(s, v)
      /\ \A t \in Scanners \ {s} : \A v : inScan(t, v)' <=> inScan(t, v)
  BY <1>1, <1>4, <1>5 DEF inScan, venueOf
<1> DEFINE row == [owner |-> s, expired |-> FALSE]
<1>7. row \in LeaseRow /\ row.owner = s
  BY DEF LeaseRow
<1>8. /\ renewal' \in [Scanners -> Nat]
      /\ renewal'[s] \in {0, at}
      /\ \A t \in Scanners \ {s} : renewal'[t] = renewal[t]
  <2>1. renewal[s] = 0
    BY <1>1, OutOfScan DEF Scanning
  <2> QED  BY <1>2, <1>3, <2>1
<1>9. /\ lease' \in [VenueIds -> LeaseRow]
      /\ env.leases => /\ \A v \in VenueIds : lease'[v] = IF v = at THEN row ELSE lease[v]
                       /\ acquirable(lease[at], s)
      /\ ~env.leases => lease' = lease
  BY <1>2, <1>3, <1>7 DEF TryAcquire
<1> HIDE DEF row
<1>10. ScannerTypeOK'
  <2>1. \A t \in Scanners : Process(scanner'[t])
    BY <1>4, <1>5 DEF LeaseInv, ScannerTypeOK
  <2> QED  BY <1>1, <1>5, <1>8, <1>9, <2>1 DEF LeaseInv, ScannerTypeOK, Process, LeaseRow
<1>11. HeldDuringScan'
  <2> SUFFICES ASSUME NEW v \in VenueIds, NEW t \in Scanners,
                      env.leases, inScan(t, v)', t \notin overrun
               PROVE  lease'[v] = [owner |-> t, expired |-> FALSE]
    BY <1>1, <1>5 DEF HeldDuringScan
  <2>1. CASE t = s
    BY <1>6, <1>9, <2>1 DEF row
  <2>2. CASE t # s
    <3>1. lease[v] = [owner |-> t, expired |-> FALSE]
      BY <1>6, <2>2 DEF LeaseInv, HeldDuringScan
    <3>2. ~acquirable(lease[v], s)
      BY <2>2, <3>1 DEF acquirable, NoOne
    <3> QED  BY <1>9, <3>1, <3>2
  <2> QED  BY <2>1, <2>2
<1>12. RenewedDuringScan'
  BY <1>6, <1>8 DEF LeaseInv, RenewedDuringScan
<1>13. LeasesGivenBack'
  <2> SUFFICES ASSUME scanFaults = 0, NEW v \in VenueIds, NEW t \in Scanners,
                      lease'[v].owner = t
               PROVE  inScan(t, v)'
    BY <1>1, <1>5 DEF LeasesGivenBack
  <2>1. CASE lease'[v] = lease[v]
    BY <1>6, <2>1 DEF LeaseInv, LeasesGivenBack
  <2>2. CASE v = at /\ lease'[v] = row
    BY <1>6, <1>7, <2>2
  <2> QED  BY <1>9, <2>1, <2>2
<1> QED  BY <1>10, <1>11, <1>12, <1>13 DEF LeaseInv

\* A renewal extends the lease of its own holder only.
LEMMA RenewInv ==
    ASSUME LeaseInv, NEW s \in Scanners, Renew(s)
    PROVE  LeaseInv'
<1> DEFINE at == renewal[s]
           row == [owner |-> s, expired |-> FALSE]
<1>1. /\ at # 0
      /\ UNCHANGED <<env, scanner, overrun, scanFaults>>
      /\ \/ TryAcquire(at, s) /\ UNCHANGED renewal
         \/ UNCHANGED lease /\ renewal' = [renewal EXCEPT ![s] = 0]
  BY DEF Renew, chainVars
<1>2. /\ lease \in [VenueIds -> LeaseRow] /\ renewal \in [Scanners -> Nat]
      /\ VenueIds' = VenueIds
  BY <1>1 DEF LeaseInv, ScannerTypeOK, VenueIds
<1>3. \A t \in Scanners : \A v : inScan(t, v)' <=> inScan(t, v)
  BY <1>1 DEF inScan, venueOf
<1>4. inScan(s, at)
  BY <1>1 DEF LeaseInv, RenewedDuringScan
<1>5. row \in LeaseRow /\ row.owner = s
  BY DEF LeaseRow
<1>6. CASE UNCHANGED lease /\ renewal' = [renewal EXCEPT ![s] = 0]
  <2>1. renewal' \in [Scanners -> Nat] /\ \A t \in Scanners : renewal'[t] \in {0, renewal[t]}
    BY <1>2, <1>6
  <2>2. ScannerTypeOK'
    BY <1>1, <1>2, <1>6, <2>1 DEF LeaseInv, ScannerTypeOK, Process
  <2>3. HeldDuringScan' /\ RenewedDuringScan' /\ LeasesGivenBack'
    BY <1>1, <1>2, <1>3, <1>6, <2>1
       DEF LeaseInv, HeldDuringScan, RenewedDuringScan, LeasesGivenBack
  <2> QED  BY <2>2, <2>3 DEF LeaseInv
<1>7. CASE TryAcquire(at, s) /\ UNCHANGED renewal
  <2>1. /\ lease' \in [VenueIds -> LeaseRow]
        /\ \A v \in VenueIds : lease'[v] = IF v = at THEN row ELSE lease[v]
        /\ acquirable(lease[at], s)
    BY <1>2, <1>5, <1>7 DEF TryAcquire
  <2> HIDE DEF row
  <2>2. ScannerTypeOK'
    BY <1>1, <1>2, <1>7, <2>1 DEF LeaseInv, ScannerTypeOK, Process
  <2>3. HeldDuringScan'
    <3> SUFFICES ASSUME NEW v \in VenueIds, NEW t \in Scanners,
                        env.leases, inScan(t, v), t \notin overrun
                 PROVE  lease'[v] = [owner |-> t, expired |-> FALSE]
      BY <1>1, <1>2, <1>3 DEF HeldDuringScan
    <3>1. lease[v] = [owner |-> t, expired |-> FALSE]
      BY DEF LeaseInv, HeldDuringScan
    <3>2. CASE t = s
      BY <2>1, <3>1, <3>2 DEF row
    <3>3. CASE t # s
      <4>1. ~acquirable(lease[v], s)
        BY <3>1, <3>3 DEF acquirable, NoOne
      <4> QED  BY <2>1, <3>1, <4>1
    <3> QED  BY <3>2, <3>3
  <2>4. RenewedDuringScan'
    BY <1>3, <1>7 DEF LeaseInv, RenewedDuringScan
  <2>5. LeasesGivenBack'
    <3> SUFFICES ASSUME scanFaults = 0, NEW v \in VenueIds, NEW t \in Scanners,
                        lease'[v].owner = t
                 PROVE  inScan(t, v)
      BY <1>1, <1>2, <1>3 DEF LeasesGivenBack
    <3>1. CASE lease'[v] = lease[v]
      BY <3>1 DEF LeaseInv, LeasesGivenBack
    <3>2. CASE v = at /\ lease'[v] = row
      BY <1>4, <1>5, <3>2
    <3> QED  BY <2>1, <3>1, <3>2
  <2> QED  BY <2>2, <2>3, <2>4, <2>5 DEF LeaseInv
<1> QED  BY <1>1, <1>6, <1>7

\* A lease that expires under a scan is remembered in overrun.
LEMMA ExpireInv ==
    ASSUME LeaseInv, NEW v \in VenueIds, LeaseExpires(v)
    PROVE  LeaseInv'
<1>1. /\ lease' = [lease EXCEPT ![v].expired = TRUE]
      /\ overrun' = overrun \cup {s \in Scanners : s = lease[v].owner
                                     /\ venueOf(s) = v /\ scanner[s].step # "idle"}
      /\ UNCHANGED <<env, scanner, renewal, scanFaults>>
  BY DEF LeaseExpires, chainVars
<1>2. lease \in [VenueIds -> LeaseRow] /\ VenueIds' = VenueIds
  BY <1>1 DEF LeaseInv, ScannerTypeOK, VenueIds
<1>3. /\ lease' \in [VenueIds -> LeaseRow]
      /\ \A u \in VenueIds : lease'[u].owner = lease[u].owner
      /\ \A u \in VenueIds \ {v} : lease'[u] = lease[u]
  BY <1>1, <1>2 DEF LeaseRow
<1>4. \A t \in Scanners : \A u : inScan(t, u)' <=> inScan(t, u)
  BY <1>1 DEF inScan, venueOf
<1>5. ScannerTypeOK'
  BY <1>1, <1>2, <1>3 DEF LeaseInv, ScannerTypeOK, Process
<1>6. HeldDuringScan'
  <2> SUFFICES ASSUME NEW u \in VenueIds, NEW t \in Scanners,
                      env.leases, inScan(t, u), t \notin overrun'
               PROVE  lease'[u] = [owner |-> t, expired |-> FALSE]
    BY <1>1, <1>2, <1>4 DEF HeldDuringScan
  <2>1. t \notin overrun /\ lease[u] = [owner |-> t, expired |-> FALSE]
    BY <1>1 DEF LeaseInv, HeldDuringScan
  <2>2. u # v
    <3> SUFFICES ASSUME u = v PROVE FALSE
      OBVIOUS
    <3>1. lease[v].owner = t
      BY <2>1
    <3> QED  BY <1>1, <3>1 DEF inScan
  <2> QED  BY <1>3, <2>1, <2>2
<1>7. RenewedDuringScan' /\ LeasesGivenBack'
  BY <1>1, <1>2, <1>3, <1>4 DEF LeaseInv, RenewedDuringScan, LeasesGivenBack
<1> QED  BY <1>5, <1>6, <1>7 DEF LeaseInv

\* Every step keeps the invariant.
LEMMA LeasesStepInv ==
    ASSUME LeaseInv, [ScannerNext]_scanVars
    PROVE  LeaseInv'
<1>1. CASE \E s \in Scanners : ScanStep(s) \/ Renew(s) \/ ScanError(s)
                               \/ ScannerCrash(s) \/ ScannerRestart(s)
  <2>1. PICK s \in Scanners : \/ ScanStep(s) \/ Renew(s) \/ ScanError(s)
                              \/ ScannerCrash(s) \/ ScannerRestart(s)
    BY <1>1
  <2> QED  BY <2>1, ScanStepInv, LeaveInv, RunInv, RenewInv DEF ScanStep
<1>2. CASE \E v \in VenueIds : LeaseExpires(v)
  BY <1>2, ExpireInv
<1>3. CASE NewBlock \/ EndpointsCatchUp \/ UNCHANGED scanVars
  <2>1. UNCHANGED <<env, lease, scanner, renewal, overrun, scanFaults>>
    BY <1>3 DEF NewBlock, EndpointsCatchUp, scanVars
  <2>2. \A t \in Scanners : \A u : inScan(t, u)' <=> inScan(t, u)
    BY <2>1 DEF inScan, venueOf
  <2> QED
    BY <2>1, <2>2 DEF LeaseInv, ScannerTypeOK, HeldDuringScan, RenewedDuringScan,
                      LeasesGivenBack, VenueIds, Process
<1> QED  BY <1>1, <1>2, <1>3 DEF ScannerNext

-----------------------------------------------------------------------------
\* The inductive invariant of the leases holds.
THEOREM LeaseInvariant == ScannerSpec => []LeaseInv
  BY LeasesInitInv, LeasesStepInv, PTL DEF ScannerSpec

\* Two processes scan one venue at a time only if the lease of one expired under its scan,
\* however their acquisitions, renewals, releases and crashes interleave; and no lease
\* outlives its scan without a fault, although the renewal runs beside it.
THEOREM VenueLeasesHold == ScannerSpec => []LeasesHold
<1>1. LeaseInv => LeasesHold
  BY HeldIsExclusive DEF LeaseInv, LeasesHold
<1> QED  BY <1>1, LeaseInvariant, PTL

-----------------------------------------------------------------------------
(***************************************************************************)
(* The shards of a Solana scan.                                            *)
(***************************************************************************)
SolanaSpec == SolanaInit /\ [][SolanaNext]_solanaVars

\* A shard is never deeper than maxShardDepth.
Shard == {p \in Seq(Bytes) : Len(p) \in 1..MaxShardDepth}

Job == [step : {"idle", "query", "handle", "expand"}, prefix : Seq(Bytes), child : Bytes]

Scan == [step : {"program", "roots", "wait", "joined", "queries", "done"},
         at : Nat, next : Nat, seen : SUBSET AccountIds, failed : BOOLEAN,
         logged : SUBSET Nat]

ShardsTypeOK ==
    /\ scan \in Scan
    /\ jobs \in Seq(Shard)
    /\ worker \in [ShardWorkers -> Job]
    /\ jobWG \in Nat
    /\ closed \in BOOLEAN
    /\ firstErr \in BOOLEAN
    /\ expanded \in Nat

\* The roots have one byte, a worker's shard is one, and a shard is split only where its
\* children are shards.
SplitsAreShards ==
    /\ scan.step = "roots" => scan.next \in Bytes
    /\ \A w \in ShardWorkers :
          /\ worker[w].step # "idle" => worker[w].prefix \in Shard
          /\ worker[w].step = "expand" => Len(worker[w].prefix) < MaxShardDepth

busy == {w \in ShardWorkers : worker[w].step # "idle"}

\* The wait group counts the shards in the channel and in the hands of workers.
WaitGroupCounts == jobWG = Len(jobs) + Cardinality(busy)

\* While shards are sent the channel is open; it is closed when the count is zero.
ClosedAtZero ==
    closed => jobWG = 0 /\ scan.step \notin {"roots", "wait"}

ShardsInv ==
    /\ ShardsTypeOK
    /\ SplitsAreShards
    /\ WaitGroupCounts
    /\ ClosedAtZero

USE SolanaAssumption

-----------------------------------------------------------------------------
\* The busy workers are finitely many.
LEMMA BusyIsFinite ==
    IsFiniteSet(busy) /\ Cardinality(busy) \in Nat
<1>1. busy \in SUBSET ShardWorkers
  BY DEF busy
<1> QED  BY <1>1, FS_Subset, FS_CardinalityType

\* What one worker does to the number of busy ones.
LEMMA BusyCount ==
    ASSUME ShardsInv, NEW w \in ShardWorkers, NEW job \in Job,
           worker' = [worker EXCEPT ![w] = job]
    PROVE  Cardinality(busy') =
              IF worker[w].step = "idle"
              THEN IF job.step = "idle" THEN Cardinality(busy) ELSE Cardinality(busy) + 1
              ELSE IF job.step = "idle" THEN Cardinality(busy) - 1 ELSE Cardinality(busy)
<1>1. \A v \in ShardWorkers : worker'[v] = IF v = w THEN job ELSE worker[v]
  BY DEF ShardsInv, ShardsTypeOK
<1>2. IsFiniteSet(busy)
  BY BusyIsFinite
<1>3. CASE job.step = "idle"
  <2>1. busy' = busy \ {w}
    BY <1>1, <1>3 DEF busy
  <2>2. w \in busy <=> worker[w].step # "idle"
    BY DEF busy
  <2> QED  BY <1>2, <1>3, <2>1, <2>2, FS_RemoveElement
<1>4. CASE job.step # "idle"
  <2>1. busy' = busy \cup {w}
    BY <1>1, <1>4 DEF busy
  <2>2. w \in busy <=> worker[w].step # "idle"
    BY DEF busy
  <2> QED  BY <1>2, <1>4, <2>1, <2>2, FS_AddElement
<1> QED  BY <1>3, <1>4

\* A closed channel is empty and all workers are idle.
LEMMA CountsToClosed ==
    ASSUME ShardsInv
    PROVE  ClosedWhenIdle
<1> SUFFICES ASSUME closed
             PROVE  jobs = << >> /\ \A w \in ShardWorkers : worker[w].step = "idle"
  BY DEF ClosedWhenIdle
<1>1. Len(jobs) + Cardinality(busy) = 0
  BY DEF ShardsInv, WaitGroupCounts, ClosedAtZero
<1>2. Len(jobs) \in Nat /\ Cardinality(busy) \in Nat
  BY BusyIsFinite DEF ShardsInv, ShardsTypeOK
<1>3. Len(jobs) = 0 /\ Cardinality(busy) = 0
  BY <1>1, <1>2
<1>4. jobs = << >>
  BY <1>3, EmptySeq DEF ShardsInv, ShardsTypeOK
<1>5. busy = {}
  BY <1>3, BusyIsFinite, FS_EmptySet
<1> QED  BY <1>4, <1>5 DEF busy

\* Nothing is scanned, queued or counted at the start.
LEMMA ShardsInitInv == SolanaInit => ShardsInv
<1> SUFFICES ASSUME SolanaInit PROVE ShardsInv
  OBVIOUS
<1> USE DEF SolanaInit, NoJob
<1>1. ShardsTypeOK
  <2>1. scan \in Scan
    BY DEF Scan
  <2>2. worker \in [ShardWorkers -> Job]
    BY DEF Job, Bytes
  <2>3. jobs \in Seq(Shard) /\ closed = FALSE /\ firstErr = FALSE
    BY EmptySeq
  <2>4. jobWG \in Nat /\ expanded \in Nat
    OBVIOUS
  <2> HIDE DEF SolanaInit
  <2> QED  BY <2>1, <2>2, <2>3, <2>4 DEF ShardsTypeOK
<1>2. SplitsAreShards
  BY DEF SplitsAreShards
<1>3. busy = {}
  BY DEF busy
<1>4. WaitGroupCounts /\ ClosedAtZero
  BY <1>3, FS_EmptySet DEF WaitGroupCounts, ClosedAtZero
<1> QED  BY <1>1, <1>2, <1>4 DEF ShardsInv

\* What the scan does without the workers and the channel.
LEMMA ScanOnlyInv ==
    ASSUME ShardsInv, UNCHANGED shardVars,
           scan' \in Scan, scan'.step # "roots", scan'.step = "wait" => scan.step = "roots"
    PROVE  ShardsInv'
<1>1. UNCHANGED <<jobs, worker, jobWG, closed, firstErr, expanded>>
  BY DEF shardVars
<1>2. UNCHANGED busy
  BY <1>1 DEF busy
<1> QED
  BY <1>1, <1>2 DEF ShardsInv, ShardsTypeOK, SplitsAreShards, WaitGroupCounts, ClosedAtZero

\* The program after one that is done.
LEMMA NextProgramTyped ==
    ASSUME scan \in Scan, NEW err \in BOOLEAN
    PROVE  nextProgram(err) \in Scan /\ nextProgram(err).step \in {"program", "done"}
<1> DEFINE ends == scan.at = Len(plan.programs) \/ (err /\ ~plan.tolerant)
           at == IF ends THEN scan.at ELSE scan.at + 1
           step == IF ends THEN "done" ELSE "program"
           failed == scan.failed \/ (err /\ ~plan.tolerant) \/ (ends /\ returnsNoPools)
           logged == IF err /\ plan.tolerant THEN scan.logged \cup {scan.at} ELSE scan.logged
<1>1. at \in Nat /\ step \in {"program", "done"} /\ failed \in BOOLEAN /\ logged \in SUBSET Nat
  BY DEF Scan
<1>2. nextProgram(err) = [scan EXCEPT !.next = 0, !.seen = {}, !.logged = logged,
                                      !.failed = failed, !.at = at, !.step = step]
  BY DEF nextProgram
<1> HIDE DEF at, step, failed, logged, ends
<1>3. {} \in SUBSET AccountIds /\ 0 \in Nat
  OBVIOUS
<1> QED  BY <1>1, <1>2, <1>3 DEF Scan

\* The queries of a program change neither the queue nor the count.
LEMMA QueryStepInv ==
    ASSUME ShardsInv,
           BeginQueries \/ scanProgramForMints \/ QueryError \/ ProgramScanned \/ RootsCanceled
    PROVE  ShardsInv'
<1>1. UNCHANGED shardVars /\ scan \in Scan /\ firstErr \in BOOLEAN
  BY DEF BeginQueries, scanProgramForMints, QueryError, ProgramScanned, RootsCanceled,
         ShardsInv, ShardsTypeOK
<1>2. \A q : matching(q) \subseteq AccountIds
  BY DEF matching
<1>3. ASSUME NEW seen \in SUBSET AccountIds, scan.step = "queries"
      PROVE  afterQuery(seen) \in Scan /\ afterQuery(seen).step \in {"queries", "program", "done"}
  <2>1. CASE afterQuery(seen) = nextProgram(FALSE)
    BY <1>1, <2>1, NextProgramTyped
  <2>2. CASE afterQuery(seen) = [scan EXCEPT !.next = @ + 1, !.seen = seen]
    <3>1. scan.next + 1 \in Nat
      BY <1>1 DEF Scan
    <3> QED  BY <1>1, <1>3, <2>2, <3>1 DEF Scan
  <2> QED  BY <2>1, <2>2 DEF afterQuery
<1>4. scan' \in Scan /\ scan'.step # "roots" /\ (scan'.step = "wait" => scan.step = "roots")
  <2>1. CASE BeginQueries
    <3>1. [scan EXCEPT !.step = "queries"] \in Scan
          /\ [scan EXCEPT !.step = "queries"].step = "queries"
      BY <1>1 DEF Scan
    <3> QED  BY <1>1, <2>1, <3>1, NextProgramTyped DEF BeginQueries
  <2>2. CASE scanProgramForMints
    <3>1. scan.seen \cup matching(queryOf(scan.next)) \in SUBSET AccountIds
      BY <1>1, <1>2 DEF Scan
    <3> QED  BY <1>3, <2>2, <3>1 DEF scanProgramForMints
  <2>3. CASE QueryError
    <3>1. scan.seen \in SUBSET AccountIds
      BY <1>1 DEF Scan
    <3> QED  BY <1>1, <1>3, <2>3, <3>1, NextProgramTyped DEF QueryError
  <2>4. CASE ProgramScanned
    BY <1>1, <2>4, NextProgramTyped DEF ProgramScanned
  <2>5. CASE RootsCanceled
    BY <1>1, <2>5 DEF RootsCanceled, Scan
  <2> QED  BY <2>1, <2>2, <2>3, <2>4, <2>5
<1> QED  BY <1>1, <1>4, ScanOnlyInv

\* The sharded scan of a program opens its channel.
LEMMA BeginInv ==
    ASSUME ShardsInv, BeginShards
    PROVE  ShardsInv'
<1>1. /\ scan' = [scan EXCEPT !.step = "roots", !.next = 0]
      /\ closed' = FALSE /\ firstErr' = FALSE /\ expanded' = 0
      /\ UNCHANGED <<jobs, worker, jobWG>>
  BY DEF BeginShards
<1>2. scan' \in Scan /\ scan'.next \in Bytes
  <2>1. scan \in Scan /\ 0 \in Bytes
    BY DEF ShardsInv, ShardsTypeOK, Bytes
  <2> QED  BY <1>1, <2>1 DEF Scan
<1>3. UNCHANGED busy
  BY <1>1 DEF busy
<1>4. ShardsTypeOK'
  BY <1>1, <1>2 DEF ShardsInv, ShardsTypeOK
<1>5. SplitsAreShards' /\ WaitGroupCounts' /\ ClosedAtZero'
  BY <1>1, <1>2, <1>3 DEF ShardsInv, SplitsAreShards, WaitGroupCounts, ClosedAtZero
<1> QED  BY <1>4, <1>5 DEF ShardsInv

\* The root shard is counted before it is queued.
LEMMA EnqueueRootInv ==
    ASSUME ShardsInv, EnqueueRoot
    PROVE  ShardsInv'
<1> DEFINE root == <<scan.next>>
           step == IF scan.next + 1 = ShardFanout THEN "wait" ELSE "roots"
<1>1. /\ scan.step = "roots"
      /\ jobs' = Append(jobs, root)
      /\ jobWG' = jobWG + 1
      /\ scan' = [scan EXCEPT !.next = @ + 1, !.step = step]
      /\ UNCHANGED <<worker, closed, firstErr, expanded>>
  BY DEF EnqueueRoot, enqueue
<1>2. /\ scan \in Scan /\ scan.next \in Bytes /\ jobs \in Seq(Shard) /\ jobWG \in Nat
      /\ jobWG = Len(jobs) + Cardinality(busy)
      /\ ~closed
  BY <1>1 DEF ShardsInv, ShardsTypeOK, SplitsAreShards, WaitGroupCounts, ClosedAtZero
<1>3. root \in Shard
  BY <1>2 DEF Shard
<1> HIDE DEF root
<1>4. jobs' \in Seq(Shard) /\ Len(jobs') = Len(jobs) + 1
  BY <1>1, <1>2, <1>3
<1>5. step \in {"wait", "roots"} /\ (step = "roots" => scan.next + 1 \in Bytes)
  BY <1>2 DEF Bytes
<1> HIDE DEF step
<1>6. /\ scan' \in Scan /\ scan'.step = step /\ scan'.next = scan.next + 1
  <2>1. scan.next + 1 \in Nat
    BY <1>2 DEF Scan
  <2> QED  BY <1>1, <1>2, <1>5, <2>1 DEF Scan
<1>7. UNCHANGED busy
  BY <1>1 DEF busy
<1>8. ShardsTypeOK'
  BY <1>1, <1>2, <1>4, <1>6 DEF ShardsInv, ShardsTypeOK
<1>9. SplitsAreShards'
  BY <1>1, <1>5, <1>6 DEF ShardsInv, SplitsAreShards
<1>10. WaitGroupCounts' /\ ClosedAtZero'
  BY <1>1, <1>2, <1>4, <1>7, BusyIsFinite DEF WaitGroupCounts, ClosedAtZero
<1> QED  BY <1>8, <1>9, <1>10 DEF ShardsInv

\* The channel is closed when nothing is counted any more.
LEMMA EndInv ==
    ASSUME ShardsInv, EndShards
    PROVE  ShardsInv'
<1>1. /\ jobWG = 0 /\ closed' = TRUE
      /\ scan' = [scan EXCEPT !.step = "joined"]
      /\ UNCHANGED <<jobs, worker, jobWG, firstErr, expanded>>
  BY DEF EndShards
<1>2. scan' \in Scan /\ scan'.step = "joined"
  BY <1>1 DEF ShardsInv, ShardsTypeOK, Scan
<1>3. UNCHANGED busy
  BY <1>1 DEF busy
<1>4. ShardsTypeOK'
  BY <1>1, <1>2 DEF ShardsInv, ShardsTypeOK
<1>5. SplitsAreShards' /\ WaitGroupCounts' /\ ClosedAtZero'
  BY <1>1, <1>2, <1>3 DEF ShardsInv, SplitsAreShards, WaitGroupCounts, ClosedAtZero
<1> QED  BY <1>4, <1>5 DEF ShardsInv

\* A step of a worker keeps the count when it changes the channel, the hands of the
\* worker and the wait group by amounts that fit.
LEMMA WorkerInv ==
    ASSUME ShardsInv, NEW w \in ShardWorkers, NEW job \in Job,
           worker' = [worker EXCEPT ![w] = job],
           job.step # "idle" => job.prefix \in Shard,
           job.step = "expand" => Len(job.prefix) < MaxShardDepth,
           jobs' \in Seq(Shard), jobWG' \in Int, firstErr' \in BOOLEAN, expanded' \in Nat,
           jobWG' - jobWG = Len(jobs') - Len(jobs)
                + (IF job.step = "idle" THEN 0 ELSE 1)
                - (IF worker[w].step = "idle" THEN 0 ELSE 1),
           worker[w].step # "idle" \/ jobs # << >>,
           UNCHANGED <<scan, closed>>
    PROVE  ShardsInv'
<1>1. /\ worker' \in [ShardWorkers -> Job]
      /\ \A v \in ShardWorkers : worker'[v] = IF v = w THEN job ELSE worker[v]
  BY DEF ShardsInv, ShardsTypeOK
<1>2. /\ Len(jobs) \in Nat /\ Len(jobs') \in Nat /\ jobWG \in Nat
      /\ Cardinality(busy) \in Nat /\ jobWG = Len(jobs) + Cardinality(busy)
  BY BusyIsFinite DEF ShardsInv, ShardsTypeOK, WaitGroupCounts
<1>3. /\ worker[w].step # "idle" => Cardinality(busy) > 0
      /\ jobs # << >> => Len(jobs) > 0
  <2>1. worker[w].step # "idle" => busy # {}
    BY DEF busy
  <2> QED  BY <1>2, <2>1, BusyIsFinite, FS_EmptySet, EmptySeq DEF ShardsInv, ShardsTypeOK
<1>4. jobWG' = Len(jobs') + Cardinality(busy')
  <2> DEFINE before == IF worker[w].step = "idle" THEN 0 ELSE 1
             after == IF job.step = "idle" THEN 0 ELSE 1
  <2>1. before \in 0..1 /\ after \in 0..1
    OBVIOUS
  <2>2. Cardinality(busy') = Cardinality(busy) + after - before
    <3>1. Cardinality(busy') =
              IF worker[w].step = "idle"
              THEN IF job.step = "idle" THEN Cardinality(busy) ELSE Cardinality(busy) + 1
              ELSE IF job.step = "idle" THEN Cardinality(busy) - 1 ELSE Cardinality(busy)
      BY BusyCount
    <3> QED  BY <1>2, <3>1
  <2>3. jobWG' - jobWG = Len(jobs') - Len(jobs) + after - before
    OBVIOUS
  <2> HIDE DEF before, after
  <2> QED  BY <1>2, <2>1, <2>2, <2>3
<1>5. Cardinality(busy') \in Nat
  <2>1. busy' \in SUBSET ShardWorkers
    BY DEF busy
  <2> QED  BY <2>1, FS_Subset, FS_CardinalityType
<1>6. jobWG' \in Nat
  BY <1>2, <1>4, <1>5
<1>7. ~closed
  BY <1>2, <1>3 DEF ShardsInv, ClosedAtZero
<1>8. ShardsTypeOK'
  BY <1>1, <1>6 DEF ShardsInv, ShardsTypeOK
<1>9. SplitsAreShards'
  BY <1>1 DEF ShardsInv, SplitsAreShards
<1>10. WaitGroupCounts' /\ ClosedAtZero'
  BY <1>4, <1>7 DEF WaitGroupCounts, ClosedAtZero
<1> QED  BY <1>8, <1>9, <1>10 DEF ShardsInv

\* The job of a worker that has none.
LEMMA NoJobTyped == NoJob \in Job /\ NoJob.step = "idle" /\ 0 \in Bytes
  BY DEF NoJob, Job, Bytes

\* A taken job moves from the queue to its worker.
LEMMA TakeJobInv ==
    ASSUME ShardsInv, NEW w \in ShardWorkers, TakeJob(w)
    PROVE  ShardsInv'
<1>1. /\ worker[w].step = "idle" /\ jobs # << >>
      /\ jobs' = Tail(jobs)
      /\ UNCHANGED <<scan, closed, firstErr, expanded>>
  BY DEF TakeJob
<1>2. /\ jobs \in Seq(Shard) /\ jobWG \in Nat /\ firstErr \in BOOLEAN /\ expanded \in Nat
      /\ worker \in [ShardWorkers -> Job]
  BY DEF ShardsInv, ShardsTypeOK
<1>3. /\ Head(jobs) \in Shard /\ jobs' \in Seq(Shard)
      /\ Len(jobs') = Len(jobs) - 1 /\ Len(jobs) \in Nat
  BY <1>1, <1>2, HeadTailProperties, LenProperties
<1>4. CASE firstErr
  <2>1. jobWG' = jobWG - 1 /\ worker' = [worker EXCEPT ![w] = worker[w]] /\ worker[w] \in Job
    BY <1>2, <1>4 DEF TakeJob
  <2>2. jobWG' \in Int /\ jobWG' - jobWG = Len(jobs') - Len(jobs) + 0 - 0
    BY <1>2, <1>3, <2>1
  <2> QED  BY <1>1, <1>2, <1>3, <2>1, <2>2, WorkerInv
<1>5. CASE ~firstErr
  <2> DEFINE job == [NoJob EXCEPT !.step = "query", !.prefix = Head(jobs)]
  <2>1. worker' = [worker EXCEPT ![w] = job] /\ jobWG' = jobWG
    BY <1>5 DEF TakeJob
  <2>2. job \in Job /\ job.step = "query" /\ job.prefix = Head(jobs)
    BY <1>3, NoJobTyped DEF Job, Shard
  <2>3. jobWG' \in Int /\ jobWG' - jobWG = Len(jobs') - Len(jobs) + 1 - 0
    BY <1>2, <1>3, <2>1
  <2> HIDE DEF job
  <2> QED  BY <1>1, <1>2, <1>3, <2>1, <2>2, <2>3, WorkerInv
<1> QED  BY <1>4, <1>5

\* A worker that is done with its shard takes it off the wait group.
LEMMA JobDoneInv ==
    ASSUME ShardsInv, NEW w \in ShardWorkers, jobDone(w), worker[w].step # "idle",
           firstErr' \in BOOLEAN, UNCHANGED <<scan, jobs, closed, expanded>>
    PROVE  ShardsInv'
<1>1. worker' = [worker EXCEPT ![w] = NoJob] /\ jobWG' = jobWG - 1
  BY DEF jobDone
<1>2. jobs \in Seq(Shard) /\ jobWG \in Nat /\ expanded \in Nat /\ Len(jobs) \in Nat
  BY DEF ShardsInv, ShardsTypeOK
<1>3. jobWG' \in Int /\ jobWG' - jobWG = Len(jobs') - Len(jobs) + 0 - 1
  BY <1>1, <1>2
<1> QED  BY <1>1, <1>2, <1>3, NoJobTyped, WorkerInv

\* A worker that goes on with its shard leaves the channel and the wait group alone.
LEMMA JobGoesOnInv ==
    ASSUME ShardsInv, NEW w \in ShardWorkers, NEW job \in Job,
           worker' = [worker EXCEPT ![w] = job],
           worker[w].step # "idle", job.step # "idle", job.prefix = worker[w].prefix,
           job.step = "expand" => Len(job.prefix) < MaxShardDepth,
           expanded' \in Nat, UNCHANGED <<scan, jobs, jobWG, closed, firstErr>>
    PROVE  ShardsInv'
<1>1. /\ jobs \in Seq(Shard) /\ jobWG \in Nat /\ firstErr \in BOOLEAN /\ Len(jobs) \in Nat
      /\ job.prefix \in Shard
  BY DEF ShardsInv, ShardsTypeOK, SplitsAreShards
<1>2. jobWG' \in Int /\ jobWG' - jobWG = Len(jobs') - Len(jobs) + 1 - 1
  BY <1>1
<1> QED  BY <1>1, <1>2, WorkerInv

\* An answered job is discounted after the shards it was split into are
\* counted.
LEMMA AnswerInv ==
    ASSUME ShardsInv, NEW w \in ShardWorkers,
           ShardAnswered(w) \/ ShardTooLarge(w) \/ ShardError(w) \/ HandleShard(w)
    PROVE  ShardsInv'
<1>1. /\ worker[w] \in Job /\ worker[w].step # "idle"
      /\ firstErr \in BOOLEAN /\ expanded \in Nat
  BY DEF ShardsInv, ShardsTypeOK, ShardAnswered, ShardTooLarge, ShardError, HandleShard
<1>2. CASE ShardAnswered(w)
  <2>1. CASE jobDone(w)
    BY <1>1, <1>2, <2>1, JobDoneInv DEF ShardAnswered
  <2>2. CASE ~jobDone(w)
    <3> DEFINE job == [worker[w] EXCEPT !.step = "handle"]
    <3>1. worker' = [worker EXCEPT ![w] = job] /\ UNCHANGED jobWG
      BY <1>2, <2>2 DEF ShardAnswered
    <3>2. job \in Job /\ job.step = "handle" /\ job.prefix = worker[w].prefix
      BY <1>1 DEF Job
    <3> HIDE DEF job
    <3> QED  BY <1>1, <1>2, <3>1, <3>2, JobGoesOnInv DEF ShardAnswered
  <2> QED  BY <2>1, <2>2
<1>3. CASE ShardTooLarge(w)
  <2>1. CASE Len(worker[w].prefix) < MaxShardDepth
    <3> DEFINE job == [worker[w] EXCEPT !.step = "expand", !.child = 0]
    <3>1. /\ worker' = [worker EXCEPT ![w] = job]
          /\ UNCHANGED <<jobWG, firstErr>> /\ expanded' = expanded + 1
      BY <1>3, <2>1 DEF ShardTooLarge, splitShard
    <3>2. job \in Job /\ job.step = "expand" /\ job.prefix = worker[w].prefix
      BY <1>1, NoJobTyped DEF Job
    <3>3. expanded' \in Nat
      BY <1>1, <3>1
    <3> HIDE DEF job
    <3> QED  BY <1>1, <1>3, <2>1, <3>1, <3>2, <3>3, JobGoesOnInv DEF ShardTooLarge
  <2>2. CASE ~(Len(worker[w].prefix) < MaxShardDepth)
    BY <1>1, <1>3, <2>2, JobDoneInv DEF ShardTooLarge
  <2> QED  BY <2>1, <2>2
<1>4. CASE ShardError(w)
  BY <1>1, <1>4, JobDoneInv DEF ShardError
<1>5. CASE HandleShard(w)
  BY <1>1, <1>5, JobDoneInv DEF HandleShard
<1> QED  BY <1>2, <1>3, <1>4, <1>5

\* A split shard stays on the wait group until its last child is in the channel.
LEMMA EnqueueChildInv ==
    ASSUME ShardsInv, NEW w \in ShardWorkers, EnqueueChild(w)
    PROVE  ShardsInv'
<1>1. /\ worker[w].step = "expand"
      /\ UNCHANGED <<scan, closed, firstErr, expanded>>
  BY DEF EnqueueChild
<1>2. /\ jobs \in Seq(Shard) /\ jobWG \in Nat /\ firstErr \in BOOLEAN /\ expanded \in Nat
      /\ worker[w] \in Job /\ Len(jobs) \in Nat
  BY DEF ShardsInv, ShardsTypeOK
<1>3. worker[w].prefix \in Shard /\ Len(worker[w].prefix) < MaxShardDepth
  BY <1>1 DEF ShardsInv, SplitsAreShards
<1>4. CASE firstErr
  BY <1>1, <1>2, <1>4, JobDoneInv DEF EnqueueChild
<1>5. CASE ~firstErr
  <2> DEFINE child == Append(worker[w].prefix, worker[w].child)
  <2>1. jobs' = Append(jobs, child)
    BY <1>5 DEF EnqueueChild, enqueue
  <2>2. worker[w].prefix \in Seq(Bytes) /\ worker[w].child \in Bytes
    BY <1>2 DEF Job
  <2>3. child \in Seq(Bytes) /\ Len(child) = Len(worker[w].prefix) + 1
    BY <2>2
  <2>4. child \in Shard
    BY <1>3, <2>3 DEF Shard
  <2> HIDE DEF child
  <2>5. jobs' \in Seq(Shard) /\ Len(jobs') = Len(jobs) + 1
    BY <1>2, <2>1, <2>4
  <2>6. CASE worker[w].child = lastChild
    <3>1. worker' = [worker EXCEPT ![w] = NoJob] /\ jobWG' = jobWG
      BY <1>5, <2>6 DEF EnqueueChild
    <3>2. jobWG' \in Int /\ jobWG' - jobWG = Len(jobs') - Len(jobs) + 0 - 1
      BY <1>2, <2>5, <3>1
    <3> QED  BY <1>1, <1>2, <2>5, <3>1, <3>2, NoJobTyped, WorkerInv
  <2>7. CASE worker[w].child # lastChild
    <3> DEFINE sibling == worker[w].child + 1
               job == [worker[w] EXCEPT !.child = sibling]
    <3>1. worker' = [worker EXCEPT ![w] = job] /\ jobWG' = jobWG + 1
      BY <1>5, <2>7 DEF EnqueueChild
    <3>2. sibling \in Bytes
      BY <2>2, <2>7 DEF Bytes, lastChild
    <3> HIDE DEF sibling
    <3>3. job \in Job /\ job.step = "expand" /\ job.prefix = worker[w].prefix
      BY <1>1, <1>2, <3>2 DEF Job
    <3>4. jobWG' \in Int /\ jobWG' - jobWG = Len(jobs') - Len(jobs) + 1 - 1
      BY <1>2, <2>5, <3>1
    <3> HIDE DEF job
    <3> QED  BY <1>1, <1>2, <1>3, <2>5, <3>1, <3>3, <3>4, WorkerInv
  <2> QED  BY <2>6, <2>7
<1> QED  BY <1>4, <1>5

\* Every step keeps the invariant.
LEMMA ShardsStepInv ==
    ASSUME ShardsInv, [SolanaNext]_solanaVars
    PROVE  ShardsInv'
<1>1. CASE ScanLoop \/ QueryError
  BY <1>1, QueryStepInv, BeginInv, EnqueueRootInv, EndInv DEF ScanLoop
<1>2. CASE \E w \in ShardWorkers : WorkerStep(w) \/ ShardError(w)
  BY <1>2, TakeJobInv, AnswerInv, EnqueueChildInv DEF WorkerStep
<1>3. CASE UNCHANGED solanaVars
  <2>1. UNCHANGED <<scan, jobs, worker, jobWG, closed, firstErr, expanded>>
    BY <1>3 DEF solanaVars
  <2>2. UNCHANGED busy
    BY <2>1 DEF busy
  <2> QED
    BY <2>1, <2>2 DEF ShardsInv, ShardsTypeOK, SplitsAreShards, WaitGroupCounts, ClosedAtZero
<1> QED  BY <1>1, <1>2, <1>3 DEF SolanaNext

-----------------------------------------------------------------------------
\* The inductive invariant of the sharded scan holds: the wait group counts what is in
\* the channel and in the hands of the workers, and no shard is deeper than the key.
THEOREM ShardsInvariant == SolanaSpec => []ShardsInv
  BY ShardsInitInv, ShardsStepInv, PTL DEF SolanaSpec

\* The channel is closed only when it is empty and all workers are idle, however splits,
\* errors and cancellation interleave: nothing is sent on a closed channel.
THEOREM ChannelClosedWhenIdle == SolanaSpec => []ClosedWhenIdle
<1>1. ShardsInv => ClosedWhenIdle
  BY CountsToClosed
<1> QED  BY <1>1, ShardsInvariant, PTL

-----------------------------------------------------------------------------
(***************************************************************************)
(* What a Solana scan hands on.                                            *)
(***************************************************************************)
\* What a scan that goes well does to an account: it is handed on, unless the endpoint has
\* no data for it, its data is of another type, it was skipped, or no mint asks for it.
Settled(a) ==
    \/ a \in skipped \cup Unknown
    \/ ~Accounts[a].valid
    \/ venue.tracked /\ Range(Accounts[a].mints) \cap Range(Mints) = {}
    \/ handled[a] = 1

\* Account a is one of program number i of the venue.
ProgramIs(a, i) == i \in 1..Len(plan.programs) /\ plan.programs[i] = Accounts[a].program

Sharding == scan.step \in {"roots", "wait", "joined"}

ScanPlace ==
    /\ venue.key \in SolanaVenues /\ venue.tracked \in BOOLEAN
    /\ IF plan.programs = << >> THEN scan.step = "done" /\ scan.failed
       ELSE scan.at \in 1..Len(plan.programs)
    /\ scan.step = "done" /\ ~scan.failed => scan.at = Len(plan.programs)
    /\ Sharding => ~venue.tracked
    /\ scan.step = "queries" => venue.tracked
    /\ scan.step = "program" => scan.next = 0 /\ scan.seen = {}
    /\ scan.step \notin {"roots", "wait"} => jobWG = 0
    /\ handled \in [AccountIds -> 0..1]

\* Nothing was handed on of the programs to come.
LaterUntouched ==
    \A a \in AccountIds, i \in Nat :
        ProgramIs(a, i) /\ (i > scan.at \/ (i = scan.at /\ scan.step = "program")) => handled[a] = 0

\* The programs that are done are complete, unless an error was returned or that of the
\* program was logged.
EarlierSettled ==
    ~scan.failed => \A a \in AccountIds, i \in Nat \ scan.logged :
        ProgramIs(a, i) /\ (i < scan.at \/ scan.step = "done") => Settled(a)

\* The shards that an account is in: one in the channel, one that a worker has and, if it is
\* being split, has not yet sent the child of, or one of the roots that were not yet sent.
Queued(a, k) == IsPrefix(jobs[k], Accounts[a].key)

InHands(a, w) ==
    /\ worker[w].step # "idle"
    /\ IsPrefix(worker[w].prefix, Accounts[a].key)
    /\ worker[w].step = "expand" => Accounts[a].key[Len(worker[w].prefix) + 1] >= worker[w].child

AtRoot(a) == scan.step = "roots" /\ Accounts[a].key[1] >= scan.next

Waits(a) ==
    \/ \E k \in DOMAIN jobs : Queued(a, k)
    \/ \E w \in ShardWorkers : InHands(a, w)
    \/ AtRoot(a)

\* It is in no more than one of them.
OneShard(a) ==
    /\ \A k, l \in DOMAIN jobs : Queued(a, k) /\ Queued(a, l) => k = l
    /\ \A v, w \in ShardWorkers : InHands(a, v) /\ InHands(a, w) => v = w
    /\ \A k \in DOMAIN jobs, w \in ShardWorkers : ~(Queued(a, k) /\ InHands(a, w))
    /\ AtRoot(a) => /\ \A k \in DOMAIN jobs : ~Queued(a, k)
                    /\ \A w \in ShardWorkers : ~InHands(a, w)

\* Every account of the program that is scanned waits in one shard, or is settled, unless
\* an error cancels the scan; what waits was not handed on.
ShardsHold(a) ==
    /\ OneShard(a)
    /\ Waits(a) => handled[a] = 0
    /\ firstErr \/ Waits(a) \/ Settled(a)

ShardsHoldAll ==
    Sharding => \A a \in AccountIds : Accounts[a].program = program => ShardsHold(a)

\* The queries so far have found what they match, and each account was handed on with the
\* first query that found it.
QueriesHold ==
    scan.step = "queries" =>
        /\ scan.next < 2 * Len(Mints)
        /\ scan.seen \subseteq {a \in AccountIds : Accounts[a].program = program}
        /\ \A a \in AccountIds : Accounts[a].program = program =>
              IF a \in scan.seen THEN Settled(a) ELSE handled[a] = 0
        /\ \A i \in 0..(scan.next - 1) : matching(queryOf(i)) \subseteq scan.seen \cup skipped

HandedInv ==
    /\ ShardsInv
    /\ ScanPlace
    /\ LaterUntouched
    /\ EarlierSettled
    /\ ShardsHoldAll
    /\ QueriesHold
    /\ OwnReserves

-----------------------------------------------------------------------------
(* Lists and calls.                                                        *)

\* A prefix has the first elements of the list.
LEMMA PrefixIs ==
    ASSUME NEW s \in Seq(Bytes), NEW t \in Seq(Bytes)
    PROVE  IsPrefix(s, t) <=> Len(s) <= Len(t) /\ \A i \in 1..Len(s) : s[i] = t[i]
<1>1. ASSUME Len(s) <= Len(t)
      PROVE  /\ SubSeq(s, 1, Len(s)) = [i \in 1..Len(s) |-> s[i]]
             /\ SubSeq(t, 1, Len(s)) = [i \in 1..Len(s) |-> t[i]]
  BY <1>1
<1> QED  BY <1>1 DEF IsPrefix

\* A root has one byte, the first.
LEMMA PrefixOfRoot ==
    ASSUME NEW b \in Bytes, NEW t \in Seq(Bytes), Len(t) >= 1
    PROVE  IsPrefix(<<b>>, t) <=> t[1] = b
<1>1. <<b>> \in Seq(Bytes) /\ Len(<<b>>) = 1 /\ <<b>>[1] = b
  OBVIOUS
<1>2. PICK s \in Seq(Bytes) : s = <<b>>
  BY <1>1
<1>3. Len(s) = 1 /\ s[1] = b
  BY <1>1, <1>2
<1>4. IsPrefix(s, t) <=> t[1] = b
  <2>1. \A i \in 1..Len(s) : i = 1
    BY <1>3
  <2>2. 1 \in 1..Len(s) /\ Len(s) <= Len(t)
    BY <1>3
  <2> QED  BY <1>3, <2>1, <2>2, PrefixIs
<1> QED  BY <1>2, <1>4

\* A child of a shard has one byte more.
LEMMA PrefixOfChild ==
    ASSUME NEW s \in Seq(Bytes), NEW b \in Bytes, NEW t \in Seq(Bytes), Len(s) < Len(t)
    PROVE  IsPrefix(Append(s, b), t) <=> IsPrefix(s, t) /\ t[Len(s) + 1] = b
<1>1. PICK n \in Nat : n = Len(s)
  OBVIOUS
<1>2. PICK u \in Seq(Bytes) : u = Append(s, b)
  <2>1. Append(s, b) \in Seq(Bytes)
    OBVIOUS
  <2> QED  BY <2>1
<1>3. Len(u) = n + 1 /\ u[n + 1] = b /\ \A i \in 1..n : u[i] = s[i]
  BY <1>1, <1>2
<1>4. IsPrefix(u, t) <=> Len(u) <= Len(t) /\ \A i \in 1..(n + 1) : u[i] = t[i]
  BY <1>3, PrefixIs
<1>5. IsPrefix(s, t) <=> \A i \in 1..n : s[i] = t[i]
  BY <1>1, PrefixIs
<1>6. Len(u) <= Len(t)
  BY <1>1, <1>3
<1>7. (\A i \in 1..(n + 1) : u[i] = t[i]) <=> (\A i \in 1..n : u[i] = t[i]) /\ u[n + 1] = t[n + 1]
  OBVIOUS
<1> QED  BY <1>1, <1>2, <1>3, <1>4, <1>5, <1>6, <1>7

\* A list of a finite set has all its elements and no others.
LEMMA ListOfSet ==
    ASSUME NEW S, IsFiniteSet(S)
    PROVE  /\ SetToSeq(S) \in Seq(S)
           /\ \A x \in S : \E i \in DOMAIN SetToSeq(S) : SetToSeq(S)[i] = x
<1>1. PICK n \in Nat : n = Cardinality(S)
  BY FS_CardinalityType
<1>2. \E f \in [1..n -> S] : IsInjective(f)
  <2>1. ExistsBijection(1..n, S)
    BY <1>1, FS_CardinalityType
  <2>2. PICK f \in [1..n -> S] : \A a, b \in 1..n : f[a] = f[b] => a = b
    BY <2>1 DEF ExistsBijection, Bijection, Injection, Surjection, IsInjective
  <2> QED  BY <2>2 DEF IsInjective
<1>3. PICK q \in [1..n -> S] : q = SetToSeq(S) /\ IsInjective(q)
  BY <1>1, <1>2 DEF SetToSeq
<1>4. q \in Seq(S)
  OBVIOUS
<1>5. q \in Injection(1..n, S)
  BY <1>3 DEF Injection
<1>6. Cardinality(1..n) = n
  BY FS_Interval
<1>7. q \in Surjection(1..n, S)
  BY <1>1, <1>5, <1>6, FS_Injection
<1>8. \A x \in S : \E i \in 1..n : q[i] = x
  BY <1>7 DEF Surjection
<1> QED  BY <1>3, <1>4, <1>8

\* Every place of a list falls into one of its chunks.
LEMMA ChunkOf ==
    ASSUME NEW n \in Nat, NEW x \in 1..n
    PROVE  \E i \in 0..n : i * KeysPerCall < x /\ x <= i * KeysPerCall + KeysPerCall
<1> DEFINE Bad == {k \in 1..n : ~ \E i \in 0..n : i * KeysPerCall < k /\ k <= i * KeysPerCall + KeysPerCall}
<1>1. SUFFICES ASSUME Bad # {} PROVE FALSE
  OBVIOUS
<1>2. Bad \in SUBSET Nat
  OBVIOUS
<1>3. PICK k \in Bad : \A m \in Bad : ~(m < k)
  <2>1. PICK R : R = OpToRel(<, Nat)
    OBVIOUS
  <2>2. PICK k \in Bad : \A m \in Bad : <<m, k>> \notin R
    BY <1>1, <1>2, <2>1, NatLessThanWellFounded, WFMin
  <2>3. \A y, z \in Nat : y < z => <<y, z>> \in R
    BY <2>1 DEF OpToRel
  <2> QED  BY <1>2, <2>2, <2>3
<1>4. KeysPerCall \in Nat /\ KeysPerCall >= 1
  BY SolanaAccountsAssumption
<1>5. k \in 1..n /\ ~ \E i \in 0..n : i * KeysPerCall < k /\ k <= i * KeysPerCall + KeysPerCall
  OBVIOUS
<1>6. k # 1
  <2>1. 0 * KeysPerCall = 0 /\ 0 \in 0..n
    BY <1>4
  <2> QED  BY <1>4, <1>5, <2>1
<1>7. k - 1 \in 1..n /\ k - 1 < k
  BY <1>5, <1>6
<1>8. PICK i \in 0..n : i * KeysPerCall < k - 1 /\ k - 1 <= i * KeysPerCall + KeysPerCall
  BY <1>3, <1>7
<1>9. PICK a \in Nat : a = i * KeysPerCall
  BY <1>4
<1>10. k = a + KeysPerCall + 1
  BY <1>4, <1>5, <1>8, <1>9
<1>11. (i + 1) * KeysPerCall = a + KeysPerCall
  BY <1>4, <1>9
<1>12. i < k - 1
  <2>1. i <= a
    BY <1>4, <1>9
  <2> QED  BY <1>8, <1>9, <2>1
<1>13. i + 1 \in 0..n
  BY <1>5, <1>12
<1>14. (i + 1) * KeysPerCall < k /\ k <= (i + 1) * KeysPerCall + KeysPerCall
  BY <1>4, <1>10, <1>11
<1> QED  BY <1>5, <1>13, <1>14

\* The chunks of a list have its elements.
LEMMA ChunksCover ==
    ASSUME NEW S, NEW s \in Seq(S)
    PROVE  /\ \A c \in chunks(s) : c \in Seq(S) /\ \A j \in DOMAIN c : \E i \in DOMAIN s : c[j] = s[i]
           /\ \A i \in DOMAIN s : \E c \in chunks(s) : \E j \in DOMAIN c : c[j] = s[i]
<1>1. PICK n \in Nat : n = Len(s)
  OBVIOUS
<1> DEFINE end(start) == IF start + KeysPerCall > n THEN n ELSE start + KeysPerCall
           starts == {i * KeysPerCall : i \in 0..n} \cap 0..(n - 1)
<1>2. chunks(s) = {SubSeq(s, start + 1, end(start)) : start \in starts}
  BY <1>1 DEF chunks
<1>3. KeysPerCall \in Nat /\ KeysPerCall >= 1
  BY SolanaAccountsAssumption
<1>4. ASSUME NEW start \in starts
      PROVE  /\ start \in 0..(n - 1) /\ end(start) \in 1..n /\ start + 1 <= end(start)
             /\ SubSeq(s, start + 1, end(start)) \in Seq(S)
             /\ DOMAIN SubSeq(s, start + 1, end(start)) = 1..(end(start) - start)
             /\ \A j \in 1..(end(start) - start) : SubSeq(s, start + 1, end(start))[j] = s[start + j]
  <2>1. start \in 0..(n - 1)
    OBVIOUS
  <2>2. end(start) \in 1..n /\ start + 1 <= end(start)
    BY <1>3, <2>1
  <2>3. PICK e \in 1..n : e = end(start)
    BY <2>2
  <2>4. SubSeq(s, start + 1, e) = [j \in 1..(e - start) |-> s[start + j]]
    <3>1. \A j \in 1..(1 + e - (start + 1)) : (start + 1) + j - 1 = start + j
      BY <2>1
    <3>2. 1 + e - (start + 1) = e - start
      BY <2>1
    <3> QED  BY <1>1, <2>1, <2>2, <2>3, <3>1, <3>2
  <2>5. \A j \in 1..(e - start) : start + j \in 1..n
    BY <2>1, <2>3
  <2>6. e - start \in Nat
    BY <2>1, <2>2, <2>3
  <2>7. [j \in 1..(e - start) |-> s[start + j]] \in Seq(S)
    BY <1>1, <2>5, <2>6
  <2> QED  BY <2>1, <2>2, <2>3, <2>4, <2>7
<1>5. ASSUME NEW c \in chunks(s) PROVE c \in Seq(S) /\ \A j \in DOMAIN c : \E i \in DOMAIN s : c[j] = s[i]
  <2>1. PICK start \in starts : c = SubSeq(s, start + 1, end(start))
    BY <1>2
  <2>2. PICK e \in 1..n : e = end(start)
    BY <1>4
  <2>3. /\ start \in 0..(n - 1) /\ c \in Seq(S) /\ DOMAIN c = 1..(e - start)
        /\ \A j \in 1..(e - start) : c[j] = s[start + j]
    BY <1>4, <2>1, <2>2
  <2>4. ASSUME NEW j \in DOMAIN c PROVE \E i \in DOMAIN s : c[j] = s[i]
    <3>1. start + j \in 1..n /\ c[j] = s[start + j]
      BY <2>3
    <3> QED  BY <1>1, <3>1
  <2> QED  BY <2>3, <2>4
<1>6. ASSUME NEW x \in DOMAIN s PROVE \E c \in chunks(s) : \E j \in DOMAIN c : c[j] = s[x]
  <2>1. x \in 1..n
    BY <1>1
  <2>2. PICK i \in 0..n : i * KeysPerCall < x /\ x <= i * KeysPerCall + KeysPerCall
    BY <2>1, ChunkOf
  <2>3. PICK start \in Nat : start = i * KeysPerCall
    BY <1>3
  <2>4. start \in starts
    BY <2>1, <2>2, <2>3
  <2>5. PICK e \in 1..n : e = end(start)
    BY <1>4, <2>4
  <2>6. x <= e /\ start < x
    BY <2>1, <2>2, <2>3, <2>5
  <2> HIDE DEF end, starts
  <2>7. PICK c \in chunks(s) : c = SubSeq(s, start + 1, end(start))
    BY <1>2, <2>4
  <2>8. DOMAIN c = 1..(e - start) /\ \A j \in 1..(e - start) : c[j] = s[start + j]
    BY <1>4, <2>4, <2>5, <2>7
  <2>9. x - start \in 1..(e - start) /\ start + (x - start) = x
    BY <2>1, <2>3, <2>6
  <2> QED  BY <2>7, <2>8, <2>9
<1> QED  BY <1>5, <1>6

\* The endpoints answer for every key that they know, with what it is.
LEMMA AnsweredKeys ==
    ASSUME NEW S, IsFiniteSet(S)
    PROVE  \A p : p \in UNION {keysAnswered(chunk) : chunk \in chunks(SetToSeq(S))}
                    <=> \E x \in S \ Unknown : p = <<x, x>>
<1>1. PICK q \in Seq(S) : q = SetToSeq(S) /\ \A x \in S : \E i \in DOMAIN q : q[i] = x
  BY ListOfSet
<1>2. /\ \A c \in chunks(q) : c \in Seq(S) /\ \A j \in DOMAIN c : \E i \in DOMAIN q : c[j] = q[i]
      /\ \A i \in DOMAIN q : \E c \in chunks(q) : \E j \in DOMAIN c : c[j] = q[i]
  BY ChunksCover
<1>3. \A c, p : p \in keysAnswered(c) <=> \E j \in DOMAIN c : c[j] \notin Unknown /\ p = <<c[j], c[j]>>
  BY DEF keysAnswered, getMultipleAccounts
<1>4. ASSUME NEW c \in chunks(q), NEW j \in DOMAIN c PROVE c[j] \in S
  BY <1>2
<1>5. ASSUME NEW x \in S PROVE \E c \in chunks(q) : \E j \in DOMAIN c : c[j] = x
  BY <1>1, <1>2
<1> QED  BY <1>1, <1>3, <1>4, <1>5

\* The reserves of a pool.
reservesOf(a) ==
    LET amount(v) == IF v \in Unknown THEN 0 ELSE Balances[v]
    IN  <<amount(Accounts[a].vaults[1]), amount(Accounts[a].vaults[2])>>

\* What becomes of the accounts of some keys: one pool for each that has data of the right
\* type, with the balances of its own vaults.
LEMMA PoolsOfKeys ==
    ASSUME NEW keys \in SUBSET AccountIds, NEW pr \in Programs,
           NEW pools, pools = streamProgramAccounts(pr, GetAccounts(SetToSeq(keys)))
    PROVE  /\ {f.id : f \in pools} = {a \in keys \ Unknown : Accounts[a].valid}
           /\ \A f \in pools : f.pool.reserves = reservesOf(f.id)
<1> USE SolanaAccountsAssumption
<1>1. IsFiniteSet(keys)
  BY FS_Subset DEF AccountIds
<1> DEFINE known == GetAccounts(SetToSeq(keys))
           parsed(kd) == {[id |-> kd[1], pool |-> pool] : pool \in parse(pr, Accounts[kd[2]])}
           found == UNION {parsed(kd) : kd \in known}
<1>2. \A p : p \in known <=> \E x \in keys \ Unknown : p = <<x, x>>
  BY <1>1, AnsweredKeys DEF GetAccounts
<1>3. \A data : \E kind, hasPrice : parse(pr, data) = poolOf(data, kind, hasPrice)
  BY DEF Programs, parse, parseOrcaWhirlpool, parseRaydiumCLMM, parseRaydiumCPMM, parseRaydiumAMM, parseMeteoraLbPair
<1>4. \A data : \A pool \in parse(pr, data) : data.valid /\ pool.vaults = data.vaults
                  /\ \E kind, hasPrice : pool = [kind |-> kind, price |-> hasPrice, vaults |-> data.vaults, reserves |-> <<0, 0>>]
  BY <1>3 DEF poolOf
<1>5. \A data : data.valid => parse(pr, data) # {}
  BY <1>3 DEF poolOf
<1> HIDE DEF known
<1>6. \A f \in found : \E x \in keys \ Unknown : \E kind, hasPrice :
         Accounts[x].valid /\ f = [id |-> x, pool |-> [kind |-> kind, price |-> hasPrice,
                                                      vaults |-> Accounts[x].vaults, reserves |-> <<0, 0>>]]
  <2> SUFFICES ASSUME NEW f \in found
               PROVE  \E x \in keys \ Unknown : \E kind, hasPrice :
                         Accounts[x].valid /\ f = [id |-> x, pool |-> [kind |-> kind, price |-> hasPrice,
                                                      vaults |-> Accounts[x].vaults, reserves |-> <<0, 0>>]]
    OBVIOUS
  <2>1. PICK kd \in known : f \in parsed(kd)
    <3> HIDE DEF parsed
    <3> QED  OBVIOUS
  <2>2. PICK pool \in parse(pr, Accounts[kd[2]]) : f = [id |-> kd[1], pool |-> pool]
    BY <2>1
  <2>3. PICK x \in keys \ Unknown : kd = <<x, x>>
    BY <1>2
  <2>4. kd[1] = x /\ kd[2] = x
    BY <2>3
  <2>5. PICK kind, hasPrice : pool = [kind |-> kind, price |-> hasPrice, vaults |-> Accounts[x].vaults, reserves |-> <<0, 0>>]
    BY <1>4, <2>2, <2>4
  <2>6. Accounts[x].valid
    BY <1>4, <2>2, <2>4
  <2>7. f = [id |-> x, pool |-> pool]
    BY <2>2, <2>4
  <2> QED  BY <2>5, <2>6, <2>7
<1>7. \A x \in keys \ Unknown : Accounts[x].valid => \E f \in found : f.id = x
  <2> SUFFICES ASSUME NEW x \in keys \ Unknown, Accounts[x].valid PROVE \E f \in found : f.id = x
    OBVIOUS
  <2>1. PICK kd \in known : kd = <<x, x>>
    BY <1>2
  <2>2. kd[1] = x /\ kd[2] = x
    BY <2>1
  <2>3. PICK pool \in parse(pr, Accounts[kd[2]]) : TRUE
    BY <1>5, <2>2
  <2>4. [id |-> kd[1], pool |-> pool] \in found
    <3>1. [id |-> kd[1], pool |-> pool] \in parsed(kd)
      OBVIOUS
    <3> HIDE DEF parsed
    <3> QED  BY <3>1
  <2> HIDE DEF found
  <2>5. [id |-> kd[1], pool |-> pool].id = x
    BY <2>2
  <2> QED  BY <2>4, <2>5
<1> HIDE DEF found, parsed
<1> DEFINE vaults == UNION {Range(f.pool.vaults) : f \in found}
           amounts == GetTokenAccountAmounts(SetToSeq(vaults))
           reserve(v) == LET of == {a \in amounts : a[1] = v}
                         IN  IF of = {} THEN 0 ELSE (CHOOSE a \in of : TRUE)[2]
           filled(f) == [f EXCEPT !.pool.reserves = <<reserve(f.pool.vaults[1]), reserve(f.pool.vaults[2])>>]
<1>8. pools = {filled(f) : f \in found}
  BY DEF streamProgramAccounts, fillVaultBalances, found, parsed, known
<1>9. IsFiniteSet(vaults)
  <2>1. ASSUME NEW i \in 1..2 PROVE IsFiniteSet({Accounts[x].vaults[i] : x \in AccountIds})
    <3>1. PICK g : g = [x \in AccountIds |-> Accounts[x].vaults[i]]
      OBVIOUS
    <3>2. g \in Surjection(AccountIds, {Accounts[x].vaults[i] : x \in AccountIds})
      BY <3>1 DEF Surjection
    <3> QED  BY <3>2, FS_Surjection DEF AccountIds
  <2>2. PICK T1, T2 : /\ T1 = {Accounts[x].vaults[1] : x \in AccountIds}
                      /\ T2 = {Accounts[x].vaults[2] : x \in AccountIds}
    OBVIOUS
  <2> DEFINE T == T1 \cup T2
  <2>3. IsFiniteSet(T)
    <3>1. IsFiniteSet(T1) /\ IsFiniteSet(T2)
      BY <2>1, <2>2
    <3> QED  BY <3>1, FS_Union
  <2>4. \A f \in found : \E x \in AccountIds : f.pool.vaults = Accounts[x].vaults
    BY <1>6
  <2>5. \A x \in AccountIds : Range(Accounts[x].vaults) \subseteq T
    <3> SUFFICES ASSUME NEW x \in AccountIds, NEW i \in DOMAIN Accounts[x].vaults
                 PROVE  Accounts[x].vaults[i] \in T
      BY DEF Range
    <3>1. i \in 1..2
      BY DEF AccountIds
    <3>2. i = 1 \/ i = 2
      BY <3>1
    <3> QED  BY <2>2, <3>2
  <2>6. vaults \in SUBSET T
    BY <2>4, <2>5
  <2> QED  BY <2>3, <2>6, FS_Subset
<1>10. \A p : p \in amounts <=> \E v \in vaults \ Unknown : p = <<v, Balances[v]>>
  <2> HIDE DEF vaults
  <2>1. PICK kds : kds = UNION {keysAnswered(chunk) : chunk \in chunks(SetToSeq(vaults))}
    OBVIOUS
  <2>2. \A p : p \in kds <=> \E v \in vaults \ Unknown : p = <<v, v>>
    BY <1>9, <2>1, AnsweredKeys
  <2>3. amounts = {<<kd[1], Balances[kd[2]]>> : kd \in kds}
    BY <2>1 DEF GetTokenAccountAmounts
  <2> SUFFICES ASSUME NEW p PROVE p \in amounts <=> \E v \in vaults \ Unknown : p = <<v, Balances[v]>>
    OBVIOUS
  <2> HIDE DEF amounts
  <2>4. ASSUME p \in amounts PROVE \E v \in vaults \ Unknown : p = <<v, Balances[v]>>
    <3>1. PICK kd \in kds : p = <<kd[1], Balances[kd[2]]>>
      BY <2>3, <2>4
    <3>2. PICK v \in vaults \ Unknown : kd = <<v, v>>
      BY <2>2
    <3>3. kd[1] = v /\ kd[2] = v
      BY <3>2
    <3> QED  BY <3>1, <3>3
  <2>5. ASSUME NEW v \in vaults \ Unknown, p = <<v, Balances[v]>> PROVE p \in amounts
    <3>1. PICK kd \in kds : kd = <<v, v>>
      BY <2>2
    <3>2. kd[1] = v /\ kd[2] = v
      BY <3>1
    <3>3. p = <<kd[1], Balances[kd[2]]>>
      BY <2>5, <3>2
    <3> QED  BY <2>3, <3>3
  <2> QED  BY <2>4, <2>5
<1> HIDE DEF amounts
<1>11. ASSUME NEW v \in vaults PROVE reserve(v) = IF v \in Unknown THEN 0 ELSE Balances[v]
  <2> DEFINE of == {a \in amounts : a[1] = v}
  <2>1. \A a : a \in of => v \notin Unknown /\ a = <<v, Balances[v]>>
    BY <1>10
  <2>2. v \notin Unknown => <<v, Balances[v]>> \in of
    BY <1>10
  <2>3. CASE v \in Unknown
    <3>1. of = {}
      BY <2>1, <2>3
    <3> QED  BY <2>3, <3>1
  <2>4. CASE v \notin Unknown
    <3>1. of # {}
      BY <2>2, <2>4
    <3>2. PICK a : a = CHOOSE x \in of : TRUE
      OBVIOUS
    <3>3. reserve(v) = a[2]
      BY <3>1, <3>2
    <3>4. a = <<v, Balances[v]>>
      <4> HIDE DEF of
      <4> QED  BY <2>1, <3>1, <3>2
    <3> HIDE DEF of, reserve
    <3> QED  BY <2>4, <3>3, <3>4
  <2> QED  BY <2>3, <2>4
<1> HIDE DEF reserve
<1>12. ASSUME NEW f \in found
       PROVE  filled(f).id = f.id /\ filled(f).pool.reserves = reservesOf(f.id)
  <2>1. PICK x \in keys \ Unknown : \E kind, hasPrice :
            f = [id |-> x, pool |-> [kind |-> kind, price |-> hasPrice,
                                     vaults |-> Accounts[x].vaults, reserves |-> <<0, 0>>]]
    BY <1>6
  <2>2. x \in AccountIds /\ f.id = x /\ f.pool.vaults = Accounts[x].vaults
    BY <2>1
  <2>3. PICK own : own = Accounts[x].vaults
    OBVIOUS
  <2>4. own[1] \in vaults /\ own[2] \in vaults
    <3>1. 1 \in DOMAIN own /\ 2 \in DOMAIN own
      BY <2>2, <2>3 DEF AccountIds
    <3> QED  BY <2>2, <2>3, <3>1 DEF Range
  <2> HIDE DEF vaults
  <2>5. PICK new : new = <<reserve(own[1]), reserve(own[2])>>
    OBVIOUS
  <2>6. filled(f).id = x /\ filled(f).pool.reserves = new
    BY <2>1, <2>3, <2>5
  <2>7. new = reservesOf(x)
    BY <1>11, <2>3, <2>4, <2>5 DEF reservesOf
  <2> QED  BY <2>2, <2>6, <2>7
<1> HIDE DEF filled
<1>13. {f.id : f \in pools} = {f.id : f \in found}
  <2>1. ASSUME NEW g \in pools PROVE \E f \in found : g.id = f.id
    <3>1. PICK f \in found : g = filled(f)
      BY <1>8
    <3> QED  BY <1>12, <3>1
  <2>2. ASSUME NEW f \in found PROVE \E g \in pools : g.id = f.id
    <3>1. PICK g \in pools : g = filled(f)
      BY <1>8
    <3> QED  BY <1>12, <3>1
  <2> QED  BY <2>1, <2>2
<1>14. \A x : x \in {f.id : f \in found} => x \in keys \ Unknown /\ Accounts[x].valid
  <2> SUFFICES ASSUME NEW f \in found PROVE f.id \in keys \ Unknown /\ Accounts[f.id].valid
    OBVIOUS
  <2> QED  BY <1>6
<1>15. {f.id : f \in found} = {a \in keys \ Unknown : Accounts[a].valid}
  BY <1>7, <1>14
<1>16. \A f \in pools : f.pool.reserves = reservesOf(f.id)
  BY <1>8, <1>12
<1> QED  BY <1>13, <1>15, <1>16

-----------------------------------------------------------------------------
(* The programs of a venue.                                                *)

\* No program comes twice.
LEMMA PlanFacts ==
    ASSUME venue.key \in SolanaVenues
    PROVE  /\ Len(plan.programs) \in Nat
           /\ plan.programs = << >> <=> Len(plan.programs) = 0
           /\ DOMAIN plan.programs = 1..Len(plan.programs)
           /\ \A i, j \in 1..Len(plan.programs) : plan.programs[i] = plan.programs[j] => i = j
<1> USE SolanaAccountsAssumption DEF scanOrca, scanOrcaConfigs, scanRaydium, scanMeteora
<1>1. \/ plan.programs = << >>
      \/ plan.programs = <<"whirlpool">>
      \/ plan.programs = <<"config1", "config2">>
      \/ plan.programs = <<"clmm", "cpmm", "amm">>
      \/ plan.programs = <<"dlmm">>
  <2>1. CASE venue.key = "orca"
    BY <2>1 DEF plan
  <2>2. CASE venue.key = "orca_configs"
    BY <2>2 DEF plan
  <2>3. CASE venue.key = "raydium"
    BY <2>3 DEF plan
  <2>4. CASE venue.key = "meteora"
    BY <2>4 DEF plan
  <2>5. CASE venue.key = "unsupported"
    BY <2>5 DEF plan
  <2> QED  BY <2>1, <2>2, <2>3, <2>4, <2>5
<1>2. PICK s : s = plan.programs
  OBVIOUS
<1>3. CASE s = << >>
  BY <1>2, <1>3
<1>4. CASE s = <<"whirlpool">>
  BY <1>2, <1>4
<1>5. CASE s = <<"config1", "config2">>
  BY <1>2, <1>5
<1>6. CASE s = <<"clmm", "cpmm", "amm">>
  BY <1>2, <1>6
<1>7. CASE s = <<"dlmm">>
  BY <1>2, <1>7
<1> QED  BY <1>1, <1>2, <1>3, <1>4, <1>5, <1>6, <1>7

-----------------------------------------------------------------------------
(* What the handler gets.                                                  *)

\* The accounts behind some keys that were not handed on before are handed on once, as far
\* as the endpoint has data of the right type for them, and the others are left alone.
LEMMA HandedOn ==
    ASSUME handled \in [AccountIds -> 0..1], OwnReserves,
           NEW keys \in SUBSET AccountIds, NEW ok, handTo(keys, ok), \A a \in keys : handled[a] = 0
    PROVE  /\ handled' \in [AccountIds -> 0..1]
           /\ \A a \in AccountIds : handled'[a] = IF a \in keys \ Unknown /\ Accounts[a].valid THEN 1 ELSE handled[a]
           /\ OwnReserves'
<1>1. PICK made \in streamProgramAccountPubkeys :
        /\ made.keys = keys
        /\ handled' = [a \in AccountIds |-> IF a \in {f.id : f \in made.pools} /\ handled[a] < 2
                                              THEN handled[a] + 1 ELSE handled[a]]
        /\ saved' = saved \cup made.pools
  BY DEF handTo
<1>2. PICK pr \in Programs, ks \in SUBSET AccountIds :
        made = [program |-> pr, keys |-> ks, pools |-> streamProgramAccounts(pr, GetAccounts(SetToSeq(ks)))]
  BY DEF streamProgramAccountPubkeys
<1>3. ks = keys
  BY <1>1, <1>2
<1>4. made.pools = streamProgramAccounts(pr, GetAccounts(SetToSeq(keys)))
  BY <1>2, <1>3
<1>5. /\ {f.id : f \in made.pools} = {a \in keys \ Unknown : Accounts[a].valid}
      /\ \A f \in made.pools : f.pool.reserves = reservesOf(f.id)
  BY <1>4, PoolsOfKeys
<1>6. ASSUME NEW a \in AccountIds
      PROVE  /\ handled'[a] = IF a \in keys \ Unknown /\ Accounts[a].valid THEN 1 ELSE handled[a]
             /\ handled'[a] \in 0..1
  <2>1. handled'[a] = IF a \in keys \ Unknown /\ Accounts[a].valid /\ handled[a] < 2 THEN handled[a] + 1 ELSE handled[a]
    BY <1>1, <1>5
  <2>2. handled[a] \in 0..1
    OBVIOUS
  <2> QED  BY <2>1, <2>2
<1>7. handled' \in [AccountIds -> 0..1]
  BY <1>1, <1>6
<1>8. OwnReserves'
  <2> SUFFICES ASSUME NEW f \in saved', NEW i \in 1..2
               PROVE  f.pool.reserves[i] = IF Accounts[f.id].vaults[i] \in Unknown THEN 0
                                           ELSE Balances[Accounts[f.id].vaults[i]]
    BY DEF OwnReserves
  <2>1. CASE f \in saved
    BY <2>1 DEF OwnReserves
  <2>2. CASE f \in made.pools
    <3>1. i = 1 \/ i = 2
      OBVIOUS
    <3>2. f.pool.reserves = reservesOf(f.id)
      BY <1>5, <2>2
    <3> QED  BY <3>1, <3>2 DEF reservesOf
  <2> QED  BY <1>1, <2>1, <2>2
<1> QED  BY <1>6, <1>7, <1>8

-----------------------------------------------------------------------------
(* What a step leaves alone.                                               *)

\* What is settled stays settled.
LEMMA StaysSettled ==
    ASSUME NEW a \in AccountIds, Settled(a), UNCHANGED venue,
           skipped \subseteq skipped', handled'[a] = handled[a]
    PROVE  Settled(a)'
  BY DEF Settled

\* The programs of the venue do not change while it is scanned.
LEMMA SamePlan ==
    ASSUME UNCHANGED venue
    PROVE  UNCHANGED plan /\ \A a, i : ProgramIs(a, i)' <=> ProgramIs(a, i)
<1>1. UNCHANGED plan
  BY DEF plan, scanOrca, scanOrcaConfigs, scanRaydium, scanMeteora
<1> QED  BY <1>1 DEF ProgramIs

\* A scan of a program that is under way is about one of the programs of the plan, and the
\* accounts of the others are not of this one.
LEMMA OtherPrograms ==
    ASSUME ScanPlace, scan.step # "done"
    PROVE  /\ scan.at \in 1..Len(plan.programs) /\ Len(plan.programs) \in Nat
           /\ \A a \in AccountIds, i \in Nat : ProgramIs(a, i) /\ i # scan.at => Accounts[a].program # program
           /\ \A a \in AccountIds : ProgramIs(a, scan.at) <=> Accounts[a].program = program
<1>1. venue.key \in SolanaVenues
  BY DEF ScanPlace
<1>2. scan.at \in 1..Len(plan.programs)
  BY DEF ScanPlace
<1>3. Len(plan.programs) \in Nat
      /\ \A i, j \in 1..Len(plan.programs) : plan.programs[i] = plan.programs[j] => i = j
  BY <1>1, PlanFacts
<1> QED  BY <1>2, <1>3 DEF ProgramIs, program

\* A step of the sharded scan of a program touches no account of another program.
LEMMA WhileSharding ==
    ASSUME HandedInv, ShardsInv', OwnReserves', UNCHANGED venue, ~venue.tracked,
           scan.step \in {"program", "roots", "wait"}, scan'.step \in {"roots", "wait", "joined"},
           scan'.at = scan.at, scan'.failed = scan.failed, scan'.logged = scan.logged,
           scan'.step = "joined" => jobWG' = 0,
           skipped \subseteq skipped', handled' \in [AccountIds -> 0..1],
           \A a \in AccountIds : Accounts[a].program # program => handled'[a] = handled[a],
           \A a \in AccountIds : Accounts[a].program = program => ShardsHold(a)'
    PROVE  HandedInv'
<1>1. /\ UNCHANGED plan
      /\ \A a, i : ProgramIs(a, i)' <=> ProgramIs(a, i)
  BY SamePlan
<1>2. UNCHANGED program
  BY <1>1 DEF program
<1>3. /\ ScanPlace /\ LaterUntouched /\ EarlierSettled /\ scan.step # "done"
  BY DEF HandedInv
<1>4. /\ scan.at \in 1..Len(plan.programs) /\ Len(plan.programs) \in Nat
      /\ \A a \in AccountIds, i \in Nat : ProgramIs(a, i) /\ i # scan.at => Accounts[a].program # program
  BY <1>3, OtherPrograms
<1>5. ScanPlace'
  <2>1. plan.programs # << >>
    BY <1>3 DEF ScanPlace
  <2> QED  BY <1>1, <1>3, <1>4, <2>1 DEF ScanPlace, AccountIds
<1>6. LaterUntouched'
  <2> SUFFICES ASSUME NEW a \in AccountIds, NEW i \in Nat, ProgramIs(a, i), i > scan.at
               PROVE  handled'[a] = 0
    BY <1>1 DEF LaterUntouched, AccountIds
  <2>1. handled[a] = 0
    BY <1>3 DEF LaterUntouched
  <2>2. i # scan.at
    BY <1>4
  <2> QED  BY <1>4, <2>1, <2>2
<1>7. EarlierSettled'
  <2> SUFFICES ASSUME ~scan.failed, NEW a \in AccountIds, NEW i \in Nat \ scan.logged, ProgramIs(a, i), i < scan.at
               PROVE  Settled(a)'
    BY <1>1 DEF EarlierSettled, AccountIds
  <2>1. Settled(a)
    BY <1>3 DEF EarlierSettled
  <2>2. i # scan.at
    BY <1>4
  <2> QED  BY <1>4, <2>1, <2>2, StaysSettled
<1>8. ShardsHoldAll'
  BY <1>2 DEF ShardsHoldAll, AccountIds
<1>9. QueriesHold'
  BY DEF QueriesHold
<1> QED  BY <1>5, <1>6, <1>7, <1>8, <1>9 DEF HandedInv

\* The fields of the scan after a program.
LEMMA NextProgramIs ==
    ASSUME scan \in Scan, NEW err \in BOOLEAN
    PROVE  LET ends == scan.at = Len(plan.programs) \/ (err /\ ~plan.tolerant)
           IN  /\ nextProgram(err).at = IF ends THEN scan.at ELSE scan.at + 1
               /\ nextProgram(err).step = IF ends THEN "done" ELSE "program"
               /\ ~nextProgram(err).failed => ~scan.failed /\ ~(err /\ ~plan.tolerant)
               /\ nextProgram(err).next = 0
               /\ nextProgram(err).seen = {}
               /\ scan.logged \subseteq nextProgram(err).logged
               /\ err /\ plan.tolerant => scan.at \in nextProgram(err).logged
<1> DEFINE ends == scan.at = Len(plan.programs) \/ (err /\ ~plan.tolerant)
           at == IF ends THEN scan.at ELSE scan.at + 1
           step == IF ends THEN "done" ELSE "program"
           failed == scan.failed \/ (err /\ ~plan.tolerant) \/ (ends /\ returnsNoPools)
           logged == IF err /\ plan.tolerant THEN scan.logged \cup {scan.at} ELSE scan.logged
<1>1. nextProgram(err) = [scan EXCEPT !.next = 0, !.seen = {}, !.logged = logged,
                                      !.failed = failed, !.at = at, !.step = step]
  BY DEF nextProgram
<1> HIDE DEF at, step, failed, logged
<1>2. /\ nextProgram(err).at = at /\ nextProgram(err).step = step
      /\ nextProgram(err).failed = failed /\ nextProgram(err).next = 0 /\ nextProgram(err).seen = {}
      /\ nextProgram(err).logged = logged
  BY <1>1 DEF Scan
<1>3. ~nextProgram(err).failed => ~scan.failed /\ ~(err /\ ~plan.tolerant)
  BY <1>2 DEF failed
<1>4. /\ scan.logged \subseteq nextProgram(err).logged
      /\ err /\ plan.tolerant => scan.at \in nextProgram(err).logged
  BY <1>2 DEF logged
<1>5. nextProgram(err).at = at /\ nextProgram(err).step = step
  BY <1>2
<1> QED  BY <1>2, <1>3, <1>4, <1>5 DEF at, step

\* The scan goes on with the next program, or ends, when all of this one is settled, or with
\* its error.
LEMMA AfterProgram ==
    ASSUME HandedInv, ShardsInv', OwnReserves', UNCHANGED venue, UNCHANGED shardVars,
           scan.step \in {"program", "joined", "queries"}, NEW err \in BOOLEAN, scan' = nextProgram(err),
           skipped \subseteq skipped', handled' \in [AccountIds -> 0..1],
           \A a \in AccountIds : Accounts[a].program # program => handled'[a] = handled[a],
           err \/ \A a \in AccountIds : Accounts[a].program = program => Settled(a)'
    PROVE  HandedInv'
<1>1. /\ UNCHANGED plan
      /\ \A a, i : ProgramIs(a, i)' <=> ProgramIs(a, i)
  BY SamePlan
<1>2. /\ ScanPlace /\ LaterUntouched /\ EarlierSettled /\ scan.step # "done" /\ scan \in Scan
      /\ jobWG' = 0
  BY DEF HandedInv, ShardsInv, ShardsTypeOK, ScanPlace, shardVars
<1>3. /\ scan.at \in 1..Len(plan.programs) /\ Len(plan.programs) \in Nat
      /\ \A a \in AccountIds, i \in Nat : ProgramIs(a, i) /\ i # scan.at => Accounts[a].program # program
      /\ \A a \in AccountIds : ProgramIs(a, scan.at) <=> Accounts[a].program = program
  BY <1>2, OtherPrograms
<1>4. PICK ends \in BOOLEAN : ends <=> scan.at = Len(plan.programs) \/ (err /\ ~plan.tolerant)
  OBVIOUS
<1>5. /\ scan'.at = IF ends THEN scan.at ELSE scan.at + 1
      /\ scan'.step = IF ends THEN "done" ELSE "program"
      /\ ~scan'.failed => ~scan.failed /\ ~(err /\ ~plan.tolerant)
      /\ scan'.next = 0
      /\ scan'.seen = {}
      /\ scan.logged \subseteq scan'.logged
      /\ err /\ plan.tolerant => scan.at \in scan'.logged
  BY <1>2, <1>4, NextProgramIs
<1>6. scan'.step \notin {"roots", "wait", "joined", "queries"}
  BY <1>5
<1>7. scan'.at \in 1..Len(plan.programs)
  BY <1>3, <1>4, <1>5
<1>8. ScanPlace'
  <2>1. plan.programs # << >>
    BY <1>2 DEF ScanPlace
  <2>2. scan'.step = "done" /\ ~scan'.failed => scan'.at = Len(plan.programs)
    BY <1>3, <1>4, <1>5
  <2> QED  BY <1>1, <1>2, <1>5, <1>6, <1>7, <2>1, <2>2 DEF ScanPlace, AccountIds, Sharding
<1>9. LaterUntouched'
  <2> SUFFICES ASSUME NEW a \in AccountIds, NEW i \in Nat, ProgramIs(a, i),
                      i > scan'.at \/ (i = scan'.at /\ scan'.step = "program")
               PROVE  handled'[a] = 0
    BY <1>1 DEF LaterUntouched, AccountIds
  <2>1. i > scan.at
    BY <1>3, <1>5
  <2>2. handled[a] = 0
    BY <1>2, <2>1 DEF LaterUntouched
  <2>3. i # scan.at
    BY <1>3, <2>1
  <2> QED  BY <1>3, <2>2, <2>3
<1>10. EarlierSettled'
  <2> SUFFICES ASSUME ~scan'.failed, NEW a \in AccountIds, NEW i \in Nat \ scan'.logged, ProgramIs(a, i),
                      i < scan'.at \/ scan'.step = "done"
               PROVE  Settled(a)'
    BY <1>1 DEF EarlierSettled, AccountIds
  <2>1. ~scan.failed /\ ~(err /\ ~plan.tolerant) /\ i \notin scan.logged
    BY <1>5
  <2>2. i \in 1..Len(plan.programs)
    BY DEF ProgramIs
  <2>3. i = scan.at \/ i < scan.at
    BY <1>3, <1>4, <1>5, <2>1, <2>2
  <2>4. CASE i = scan.at
    <3>1. ~err
      BY <1>5, <2>1, <2>4
    <3> QED  BY <1>3, <2>4, <3>1
  <2>5. CASE i < scan.at
    <3>1. Settled(a)
      BY <1>2, <2>1, <2>5 DEF EarlierSettled
    <3>2. i # scan.at
      BY <1>3, <2>5
    <3> QED  BY <1>3, <3>1, <3>2, StaysSettled
  <2> QED  BY <2>3, <2>4, <2>5
<1>11. ShardsHoldAll' /\ QueriesHold'
  BY <1>6 DEF ShardsHoldAll, Sharding, QueriesHold
<1> QED  BY <1>8, <1>9, <1>10, <1>11 DEF HandedInv

-----------------------------------------------------------------------------
(* The queries.                                                            *)

\* Every registered mint is asked for at both offsets.
LEMMA QueryFor ==
    ASSUME NEW m \in 1..Len(Mints), NEW side \in 1..2
    PROVE  \E n \in 0..(2 * Len(Mints) - 1) : queryOf(n) = [mint |-> Mints[m], side |-> side]
<1>1. Len(Mints) \in Nat
  BY SolanaAccountsAssumption
<1>2. PICK n \in Nat : n = 2 * (m - 1) + (side - 1)
  OBVIOUS
<1>3. n \div 2 = m - 1 /\ n % 2 = side - 1
  <2>1. CASE side = 1
    BY <1>2, <2>1
  <2>2. CASE side = 2
    BY <1>2, <2>2
  <2> QED  BY <2>1, <2>2
<1>4. n \in 0..(2 * Len(Mints) - 1)
  BY <1>1, <1>2
<1>5. (n \div 2) + 1 = m /\ (n % 2) + 1 = side
  BY <1>3
<1>6. queryOf(n) = [mint |-> Mints[m], side |-> side]
  BY <1>5 DEF queryOf
<1> QED  BY <1>4, <1>6

\* An account that no query found has none of the mints.
LEMMA NotAsked ==
    ASSUME NEW a \in AccountIds, Accounts[a].program = program,
           \A n \in 0..(2 * Len(Mints) - 1) : a \notin matching(queryOf(n))
    PROVE  Range(Accounts[a].mints) \cap Range(Mints) = {}
<1> SUFFICES ASSUME NEW x, x \in Range(Accounts[a].mints), x \in Range(Mints)
             PROVE  FALSE
  OBVIOUS
<1>1. PICK side \in 1..2 : x = Accounts[a].mints[side]
  BY SolanaAccountsAssumption DEF Range, AccountIds
<1>2. DOMAIN Mints = 1..Len(Mints)
  BY SolanaAccountsAssumption
<1>3. PICK m \in 1..Len(Mints) : x = Mints[m]
  BY <1>2 DEF Range
<1>4. PICK n \in 0..(2 * Len(Mints) - 1) : queryOf(n) = [mint |-> Mints[m], side |-> side]
  BY QueryFor
<1>5. queryOf(n).mint = x /\ queryOf(n).side = side
  BY <1>3, <1>4
<1> QED  BY <1>1, <1>4, <1>5 DEF matching

\* After a query the next one follows, and after the last the next program: then each of its
\* accounts was found, skipped, or has none of the mints.
LEMMA AfterQueryInv ==
    ASSUME HandedInv, ShardsInv', OwnReserves', UNCHANGED venue, UNCHANGED shardVars,
           scan.step = "queries", NEW seen, scan' = afterQuery(seen),
           seen \subseteq {a \in AccountIds : Accounts[a].program = program},
           skipped \subseteq skipped', handled' \in [AccountIds -> 0..1],
           \A a \in AccountIds : Accounts[a].program # program => handled'[a] = handled[a],
           \A a \in AccountIds : Accounts[a].program = program =>
                IF a \in seen THEN Settled(a)' ELSE handled'[a] = 0,
           \A i \in 0..scan.next : matching(queryOf(i)) \subseteq seen \cup skipped'
    PROVE  HandedInv'
<1>1. /\ UNCHANGED plan
      /\ \A a, i : ProgramIs(a, i)' <=> ProgramIs(a, i)
  BY SamePlan
<1>2. /\ ScanPlace /\ LaterUntouched /\ EarlierSettled /\ scan \in Scan /\ QueriesHold /\ jobWG' = 0
      /\ venue.tracked
  BY DEF HandedInv, ShardsInv, ShardsTypeOK, ScanPlace, shardVars
<1>3. /\ scan.at \in 1..Len(plan.programs) /\ Len(plan.programs) \in Nat
      /\ \A a \in AccountIds, i \in Nat : ProgramIs(a, i) /\ i # scan.at => Accounts[a].program # program
  BY <1>2, OtherPrograms
<1>4. Len(Mints) \in Nat /\ scan.next \in Nat /\ scan.next < 2 * Len(Mints)
  BY <1>2, SolanaAccountsAssumption DEF Scan, QueriesHold
<1>5. CASE scan.next + 1 = 2 * Len(Mints)
  <2>1. scan' = nextProgram(FALSE)
    BY <1>5 DEF afterQuery
  <2>2. ASSUME NEW a \in AccountIds, Accounts[a].program = program PROVE Settled(a)'
    <3>1. CASE a \in seen
      BY <2>2, <3>1
    <3>2. CASE a \in skipped'
      BY <3>2 DEF Settled
    <3>3. CASE a \notin seen \cup skipped'
      <4>1. \A n \in 0..(2 * Len(Mints) - 1) : a \notin matching(queryOf(n))
        <5>1. 0..(2 * Len(Mints) - 1) = 0..scan.next
          BY <1>4, <1>5
        <5> QED  BY <3>3, <5>1
      <4>2. Range(Accounts[a].mints) \cap Range(Mints) = {}
        BY <2>2, <4>1, NotAsked
      <4> QED  BY <1>2, <4>2 DEF Settled
    <3> QED  BY <3>1, <3>2, <3>3
  <2> QED  BY <2>1, <2>2, AfterProgram
<1>6. CASE scan.next + 1 # 2 * Len(Mints)
  <2>1. PICK n \in Nat : n = scan.next + 1
    BY <1>4
  <2>2. scan' = [scan EXCEPT !.next = n, !.seen = seen]
    BY <1>6, <2>1 DEF afterQuery
  <2>3. /\ scan'.step = "queries" /\ scan'.at = scan.at /\ scan'.failed = scan.failed
        /\ scan'.logged = scan.logged
        /\ scan'.next = n /\ scan'.seen = seen
    BY <1>2, <2>2 DEF Scan
  <2>4. UNCHANGED program
    BY <1>1, <2>3 DEF program
  <2>5. ScanPlace'
    <3>1. plan.programs # << >>
      BY <1>2 DEF ScanPlace
    <3> QED  BY <1>1, <1>2, <1>3, <2>3, <3>1 DEF ScanPlace, AccountIds, Sharding
  <2>6. LaterUntouched'
    <3> SUFFICES ASSUME NEW a \in AccountIds, NEW i \in Nat, ProgramIs(a, i), i > scan.at
                 PROVE  handled'[a] = 0
      BY <1>1, <2>3 DEF LaterUntouched, AccountIds
    <3>1. handled[a] = 0
      BY <1>2 DEF LaterUntouched
    <3>2. i # scan.at
      BY <1>3
    <3> QED  BY <1>3, <3>1, <3>2
  <2>7. EarlierSettled'
    <3> SUFFICES ASSUME ~scan.failed, NEW a \in AccountIds, NEW i \in Nat \ scan.logged, ProgramIs(a, i), i < scan.at
                 PROVE  Settled(a)'
      BY <1>1, <2>3 DEF EarlierSettled, AccountIds
    <3>1. Settled(a)
      BY <1>2 DEF EarlierSettled
    <3>2. i # scan.at
      BY <1>3
    <3> QED  BY <1>3, <3>1, <3>2, StaysSettled
  <2>8. ShardsHoldAll'
    BY <2>3 DEF ShardsHoldAll, Sharding
  <2>9. QueriesHold'
    <3>1. n < 2 * Len(Mints) /\ 0..(n - 1) = 0..scan.next
      BY <1>4, <1>6, <2>1
    <3>2. \A q : matching(q)' = matching(q)
      BY <2>4 DEF matching, AccountIds
    <3>3. \A i : UNCHANGED queryOf(i)
      BY DEF queryOf
    <3>4. \A i \in 0..(n - 1) : (matching(queryOf(i)) \subseteq scan.seen \cup skipped)'
      BY <2>3, <2>4, <3>1 DEF matching, AccountIds, queryOf
    <3> QED  BY <2>3, <2>4, <3>1, <3>4 DEF QueriesHold, AccountIds
  <2> QED  BY <2>5, <2>6, <2>7, <2>8, <2>9 DEF HandedInv
<1> QED  BY <1>5, <1>6

\* The queries begin, or there is no mint to ask for.
LEMMA BeginQueriesHanded ==
    ASSUME HandedInv, ShardsInv', BeginQueries
    PROVE  HandedInv'
<1>1. /\ scan.step = "program" /\ venue.tracked
      /\ scan' = IF Mints = << >> THEN nextProgram(FALSE) ELSE [scan EXCEPT !.step = "queries"]
      /\ UNCHANGED <<venue, handled, saved, skipped>> /\ UNCHANGED shardVars
  BY DEF BeginQueries
<1>2. /\ ScanPlace /\ LaterUntouched /\ EarlierSettled /\ scan \in Scan /\ OwnReserves
      /\ jobWG' = 0 /\ handled' \in [AccountIds -> 0..1]
  BY <1>1 DEF HandedInv, ShardsInv, ShardsTypeOK, ScanPlace, shardVars
<1>3. OwnReserves'
  BY <1>1, <1>2 DEF OwnReserves
<1>4. CASE Mints = << >>
  <2>1. Range(Mints) = {}
    BY <1>4 DEF Range
  <2>2. \A a \in AccountIds : Settled(a)'
    BY <1>1, <2>1 DEF Settled
  <2> QED  BY <1>1, <1>2, <1>3, <1>4, <2>2, AfterProgram
<1>5. CASE Mints # << >>
  <2>1. scan' = [scan EXCEPT !.step = "queries"]
    BY <1>1, <1>5
  <2>2. /\ scan'.step = "queries" /\ scan'.at = scan.at /\ scan'.failed = scan.failed
        /\ scan'.logged = scan.logged
        /\ scan'.next = 0 /\ scan'.seen = {}
    BY <1>1, <1>2, <2>1 DEF Scan, ScanPlace
  <2>3. /\ UNCHANGED plan
        /\ \A a, i : ProgramIs(a, i)' <=> ProgramIs(a, i)
    BY <1>1, SamePlan
  <2>4. UNCHANGED program
    BY <2>2, <2>3 DEF program
  <2>5. /\ scan.at \in 1..Len(plan.programs) /\ Len(plan.programs) \in Nat
        /\ \A a \in AccountIds : ProgramIs(a, scan.at) <=> Accounts[a].program = program
    BY <1>1, <1>2, OtherPrograms
  <2>6. ScanPlace'
    <3>1. plan.programs # << >>
      BY <1>1, <1>2 DEF ScanPlace
    <3> QED  BY <1>1, <1>2, <2>2, <2>3, <2>5, <3>1 DEF ScanPlace, AccountIds, Sharding
  <2>7. LaterUntouched'
    BY <1>1, <1>2, <2>2, <2>3 DEF LaterUntouched, AccountIds
  <2>8. EarlierSettled'
    <3> SUFFICES ASSUME ~scan.failed, NEW a \in AccountIds, NEW i \in Nat \ scan.logged, ProgramIs(a, i), i < scan.at
                 PROVE  Settled(a)'
      BY <2>2, <2>3 DEF EarlierSettled, AccountIds
    <3>1. Settled(a)
      BY <1>2 DEF EarlierSettled
    <3> QED  BY <1>1, <3>1, StaysSettled
  <2>9. ShardsHoldAll'
    BY <2>2 DEF ShardsHoldAll, Sharding
  <2>10. QueriesHold'
    <3>1. \A a \in AccountIds : Accounts[a].program = program => handled'[a] = 0
      BY <1>1, <1>2, <2>5 DEF LaterUntouched
    <3>2. Len(Mints) \in Nat /\ Len(Mints) # 0
      BY <1>5, SolanaAccountsAssumption
    <3>3. 0..(0 - 1) = {} /\ 0 < 2 * Len(Mints)
      BY <3>2
    <3> QED  BY <2>2, <2>4, <3>1, <3>3 DEF QueriesHold, AccountIds
  <2> QED  BY <1>3, <2>6, <2>7, <2>8, <2>9, <2>10 DEF HandedInv
<1> QED  BY <1>4, <1>5

\* A query, with or without an error, or an error that ends the program in the midst of it.
LEMMA QueryHanded ==
    ASSUME HandedInv, ShardsInv', scanProgramForMints \/ QueryError
    PROVE  HandedInv'
<1> DEFINE found == matching(queryOf(scan.next))
           keys == unique(found)
<1>1. /\ scan.step = "queries" /\ UNCHANGED venue /\ UNCHANGED shardVars
  BY DEF scanProgramForMints, QueryError
<1>2. /\ ScanPlace /\ QueriesHold /\ OwnReserves /\ handled \in [AccountIds -> 0..1] /\ scan \in Scan
  BY DEF HandedInv, ScanPlace, ShardsInv, ShardsTypeOK
<1>3. found \subseteq {a \in AccountIds : Accounts[a].program = program}
  BY DEF matching
<1>4. /\ scan.seen \subseteq {a \in AccountIds : Accounts[a].program = program}
      /\ \A a \in AccountIds : Accounts[a].program = program =>
              IF a \in scan.seen THEN Settled(a) ELSE handled[a] = 0
      /\ \A i \in 0..(scan.next - 1) : matching(queryOf(i)) \subseteq scan.seen \cup skipped
      /\ scan.next \in Nat
  BY <1>1, <1>2 DEF QueriesHold, Scan
<1> HIDE DEF found
<1>5. /\ keys = found \ scan.seen /\ keys \subseteq {a \in AccountIds : Accounts[a].program = program}
      /\ \A a \in keys : handled[a] = 0
  BY <1>3, <1>4 DEF unique
<1> HIDE DEF keys
<1>6. ASSUME NEW i \in 0..scan.next PROVE i = scan.next \/ i \in 0..(scan.next - 1)
  BY <1>4
<1>7. ASSUME NEW part \in SUBSET keys, NEW ok, handTo(part, ok)
      PROVE  /\ handled' \in [AccountIds -> 0..1] /\ OwnReserves'
             /\ \A a \in AccountIds : handled'[a] = IF a \in part \ Unknown /\ Accounts[a].valid THEN 1 ELSE handled[a]
             /\ \A a \in AccountIds : Accounts[a].program # program => handled'[a] = handled[a]
  <2>1. part \in SUBSET AccountIds /\ \A a \in part : handled[a] = 0
    BY <1>5
  <2>2. /\ handled' \in [AccountIds -> 0..1] /\ OwnReserves'
        /\ \A a \in AccountIds : handled'[a] = IF a \in part \ Unknown /\ Accounts[a].valid THEN 1 ELSE handled[a]
    BY <1>2, <1>7, <2>1, HandedOn
  <2> QED  BY <1>5, <2>2
<1>8. CASE scanProgramForMints
  <2>1. handTo(keys, TRUE) /\ scan' = afterQuery(scan.seen \cup found) /\ UNCHANGED skipped
    BY <1>8 DEF scanProgramForMints, keys, found
  <2>2. /\ handled' \in [AccountIds -> 0..1] /\ OwnReserves'
        /\ \A a \in AccountIds : handled'[a] = IF a \in keys \ Unknown /\ Accounts[a].valid THEN 1 ELSE handled[a]
        /\ \A a \in AccountIds : Accounts[a].program # program => handled'[a] = handled[a]
    BY <1>7, <2>1
  <2>3. PICK seen : seen = scan.seen \cup found
    OBVIOUS
  <2>4. seen \subseteq {a \in AccountIds : Accounts[a].program = program}
    BY <1>3, <1>4, <2>3
  <2>5. ASSUME NEW a \in AccountIds, Accounts[a].program = program
        PROVE  IF a \in seen THEN Settled(a)' ELSE handled'[a] = 0
    <3>1. CASE a \in scan.seen
      <4>1. Settled(a) /\ a \notin keys
        BY <1>4, <1>5, <2>5, <3>1
      <4>2. handled'[a] = handled[a]
        BY <2>2, <4>1
      <4> QED  BY <1>1, <2>1, <2>3, <3>1, <4>1, <4>2, StaysSettled
    <3>2. CASE a \in keys
      BY <1>5, <2>2, <2>3, <3>2 DEF Settled
    <3>3. CASE a \notin scan.seen \cup keys
      <4>1. a \notin seen /\ handled'[a] = handled[a] /\ handled[a] = 0
        BY <1>4, <1>5, <2>2, <2>3, <2>5, <3>3
      <4> QED  BY <4>1
    <3> QED  BY <3>1, <3>2, <3>3
  <2>6. \A i \in 0..scan.next : matching(queryOf(i)) \subseteq seen \cup skipped'
    BY <1>4, <1>6, <2>1, <2>3 DEF found
  <2>7. scan' = afterQuery(seen) /\ skipped \subseteq skipped'
    BY <2>1, <2>3
  <2> QED  BY <1>1, <2>2, <2>4, <2>5, <2>6, <2>7, AfterQueryInv
<1>9. CASE QueryError
  <2>1. CASE /\ skipped' = skipped \cup found
             /\ scan' = afterQuery(scan.seen)
             /\ UNCHANGED <<handled, saved, counted>>
    <3>1. OwnReserves' /\ handled' \in [AccountIds -> 0..1] /\ skipped \subseteq skipped'
      BY <1>2, <2>1 DEF OwnReserves
    <3>2. ASSUME NEW a \in AccountIds, Accounts[a].program = program
          PROVE  IF a \in scan.seen THEN Settled(a)' ELSE handled'[a] = 0
      BY <1>1, <1>4, <2>1, <3>1, <3>2, StaysSettled
    <3>3. \A i \in 0..scan.next : matching(queryOf(i)) \subseteq scan.seen \cup skipped'
      BY <1>4, <1>6, <2>1 DEF found
    <3>4. PICK seen : seen = scan.seen
      OBVIOUS
    <3> QED  BY <1>1, <1>4, <2>1, <3>1, <3>2, <3>3, <3>4, AfterQueryInv
  <2>2. CASE /\ scan' = nextProgram(TRUE)
             /\ \E part \in SUBSET keys : handTo(part, FALSE)
             /\ UNCHANGED skipped
    <3>1. PICK part \in SUBSET keys : handTo(part, FALSE)
      BY <2>2
    <3>2. /\ handled' \in [AccountIds -> 0..1] /\ OwnReserves'
          /\ \A a \in AccountIds : Accounts[a].program # program => handled'[a] = handled[a]
      BY <1>7, <3>1
    <3>3. skipped \subseteq skipped' /\ scan.step \in {"program", "joined", "queries"}
      BY <1>1, <2>2
    <3> QED  BY <1>1, <2>2, <3>2, <3>3, AfterProgram
  <2> QED  BY <1>9, <2>1, <2>2 DEF QueryError, keys, found
<1> QED  BY <1>8, <1>9

-----------------------------------------------------------------------------
(* The shards.                                                             *)

\* What the steps of the sharded scan start from.
LEMMA ShardFacts ==
    ASSUME HandedInv
    PROVE  /\ scan \in Scan /\ jobs \in Seq(Shard) /\ worker \in [ShardWorkers -> Job]
           /\ Len(jobs) \in Nat /\ DOMAIN jobs = 1..Len(jobs)
           /\ \A k \in DOMAIN jobs : jobs[k] \in Shard
           /\ \A w \in ShardWorkers : worker[w].step # "idle" => worker[w].prefix \in Shard
           /\ handled \in [AccountIds -> 0..1] /\ OwnReserves
           /\ scan.step \notin {"roots", "wait"} =>
                 jobs = << >> /\ \A w \in ShardWorkers : worker[w].step = "idle"
           /\ Sharding => ~venue.tracked /\ \A a \in AccountIds : Accounts[a].program = program => ShardsHold(a)
<1>1. /\ scan \in Scan /\ jobs \in Seq(Shard) /\ worker \in [ShardWorkers -> Job]
      /\ \A w \in ShardWorkers : worker[w].step # "idle" => worker[w].prefix \in Shard
      /\ handled \in [AccountIds -> 0..1] /\ OwnReserves
      /\ Sharding => ~venue.tracked /\ \A a \in AccountIds : Accounts[a].program = program => ShardsHold(a)
  BY DEF HandedInv, ShardsInv, ShardsTypeOK, SplitsAreShards, ScanPlace, ShardsHoldAll
<1>2. Len(jobs) \in Nat /\ DOMAIN jobs = 1..Len(jobs)
  BY <1>1
<1>3. \A k \in DOMAIN jobs : jobs[k] \in Shard
  BY <1>1, <1>2
<1>4. ASSUME scan.step \notin {"roots", "wait"}
      PROVE  jobs = << >> /\ \A w \in ShardWorkers : worker[w].step = "idle"
  <2>1. jobWG = 0 /\ jobWG = Len(jobs) + Cardinality(busy)
    BY <1>4 DEF HandedInv, ShardsInv, WaitGroupCounts, ScanPlace
  <2>2. Cardinality(busy) \in Nat
    BY BusyIsFinite
  <2>3. Len(jobs) = 0 /\ Cardinality(busy) = 0
    BY <1>2, <2>1, <2>2
  <2>4. jobs = << >>
    BY <1>1, <2>3, EmptySeq
  <2>5. busy = {}
    BY <2>3, BusyIsFinite, FS_EmptySet
  <2> QED  BY <2>4, <2>5 DEF busy
<1> QED  BY <1>1, <1>2, <1>3, <1>4

\* The bytes of an account.
LEMMA KeyIs ==
    ASSUME NEW a \in AccountIds
    PROVE  /\ Accounts[a].key \in Seq(Bytes) /\ Len(Accounts[a].key) \in Nat
           /\ Len(Accounts[a].key) >= MaxShardDepth /\ Len(Accounts[a].key) >= 1
           /\ \A i \in 1..Len(Accounts[a].key) : Accounts[a].key[i] \in Bytes
<1>1. /\ Accounts[a].key \in Seq(Bytes) /\ Len(Accounts[a].key) >= MaxShardDepth
  BY SolanaAccountsAssumption DEF AccountIds, Bytes
<1> QED  BY <1>1

\* Whether an account waits, and where, depends on what it is and on the shards.
LEMMA SameWaits ==
    ASSUME NEW a \in AccountIds, ShardsHold(a), UNCHANGED <<jobs, worker, venue>>,
           AtRoot(a)' <=> AtRoot(a),
           skipped \subseteq skipped', handled'[a] = handled[a], firstErr => firstErr'
    PROVE  ShardsHold(a)'
<1>1. /\ \A k : Queued(a, k)' <=> Queued(a, k)
      /\ \A w : InHands(a, w)' <=> InHands(a, w)
  BY DEF Queued, InHands
<1>2. OneShard(a)' /\ (Waits(a)' <=> Waits(a))
  BY <1>1 DEF ShardsHold, OneShard, Waits
<1> QED  BY <1>2, StaysSettled DEF ShardsHold

\* A step of a worker that leaves the channel alone, and takes no account up.
LEMMA HandsOnly ==
    ASSUME NEW a \in AccountIds, ShardsHold(a), NEW w \in ShardWorkers, NEW job,
           worker \in [ShardWorkers -> Job], worker' = [worker EXCEPT ![w] = job],
           UNCHANGED <<jobs, scan>>, InHands(a, w)' => InHands(a, w)
    PROVE  /\ OneShard(a)'
           /\ Waits(a)' => Waits(a)
           /\ Waits(a) => Waits(a)' \/ InHands(a, w)
           /\ ~InHands(a, w)' /\ InHands(a, w) => ~Waits(a)'
<1>1. /\ \A k : Queued(a, k)' <=> Queued(a, k)
      /\ \A v \in ShardWorkers \ {w} : InHands(a, v)' <=> InHands(a, v)
      /\ AtRoot(a)' <=> AtRoot(a)
  BY DEF Queued, InHands, AtRoot
<1>2. OneShard(a)
  BY DEF ShardsHold
<1>3. OneShard(a)'
  BY <1>1, <1>2 DEF OneShard
<1> QED  BY <1>1, <1>2, <1>3 DEF OneShard, Waits

\* The sharded scan of a program begins: its accounts are in the roots that were not sent.
LEMMA BeginShardsHanded ==
    ASSUME HandedInv, ShardsInv', BeginShards
    PROVE  HandedInv'
<1>1. /\ scan.step = "program" /\ ~venue.tracked
      /\ scan' = [scan EXCEPT !.step = "roots", !.next = 0]
      /\ UNCHANGED <<venue, jobs, worker, handled, saved, skipped>>
  BY DEF BeginShards
<1>2. /\ scan \in Scan /\ handled \in [AccountIds -> 0..1] /\ OwnReserves
      /\ jobs = << >> /\ \A w \in ShardWorkers : worker[w].step = "idle"
  BY <1>1, ShardFacts
<1>3. scan'.step = "roots" /\ scan'.next = 0 /\ scan'.at = scan.at /\ scan'.failed = scan.failed
      /\ scan'.logged = scan.logged
  BY <1>1, <1>2 DEF Scan
<1>4. OwnReserves'
  BY <1>1, <1>2 DEF OwnReserves
<1>5. ASSUME NEW a \in AccountIds, Accounts[a].program = program PROVE ShardsHold(a)'
  <2>1. DOMAIN jobs' = {} /\ \A w \in ShardWorkers : ~InHands(a, w)'
    BY <1>1, <1>2 DEF InHands
  <2>2. AtRoot(a)'
    <3>1. 1 \in 1..Len(Accounts[a].key)
      BY KeyIs
    <3>2. Accounts[a].key[1] \in Bytes
      BY <3>1, KeyIs
    <3> QED  BY <1>3, <3>2 DEF AtRoot, Bytes
  <2>3. ScanPlace /\ LaterUntouched
    BY DEF HandedInv
  <2>4. ProgramIs(a, scan.at) /\ scan.at \in Nat
    BY <1>1, <1>5, <2>3, OtherPrograms
  <2>5. handled[a] = 0
    BY <1>1, <2>3, <2>4 DEF LaterUntouched
  <2> QED  BY <1>1, <2>1, <2>2, <2>5 DEF ShardsHold, OneShard, Waits
<1> QED  BY <1>1, <1>2, <1>3, <1>4, <1>5, WhileSharding

\* A root goes into the channel, and with it the accounts of its byte.
LEMMA EnqueueRootHanded ==
    ASSUME HandedInv, ShardsInv', EnqueueRoot
    PROVE  HandedInv'
<1> DEFINE step == IF scan.next + 1 = ShardFanout THEN "wait" ELSE "roots"
<1>1. /\ scan.step = "roots"
      /\ jobs' = Append(jobs, <<scan.next>>)
      /\ scan' = [scan EXCEPT !.next = scan.next + 1, !.step = step]
      /\ UNCHANGED <<venue, worker, firstErr, handled, saved, skipped>>
  BY DEF EnqueueRoot, enqueue
<1>2. /\ scan \in Scan /\ handled \in [AccountIds -> 0..1] /\ OwnReserves /\ jobs \in Seq(Shard)
      /\ Len(jobs) \in Nat /\ DOMAIN jobs = 1..Len(jobs)
      /\ ~venue.tracked /\ \A a \in AccountIds : Accounts[a].program = program => ShardsHold(a)
  BY <1>1, ShardFacts DEF Sharding
<1>3. scan.next \in Bytes
  BY <1>1 DEF HandedInv, ShardsInv, SplitsAreShards
<1>4. PICK n : n = scan.next + 1
  OBVIOUS
<1>5. /\ step \in {"roots", "wait"} /\ (step = "wait" <=> n = ShardFanout)
  BY <1>4
<1> HIDE DEF step
<1>6. scan'.step = step /\ scan'.next = n /\ scan'.at = scan.at /\ scan'.failed = scan.failed
      /\ scan'.logged = scan.logged
  BY <1>1, <1>2, <1>4 DEF Scan
<1>7. OwnReserves'
  BY <1>1, <1>2 DEF OwnReserves
<1>8. ASSUME NEW a \in AccountIds, Accounts[a].program = program PROVE ShardsHold(a)'
  <2>1. OneShard(a) /\ ShardsHold(a)
    BY <1>2, <1>8 DEF ShardsHold
  <2>2. PICK b : b = Accounts[a].key[1]
    OBVIOUS
  <2>3. b \in Bytes
    <3>1. 1 \in 1..Len(Accounts[a].key)
      BY KeyIs
    <3> QED  BY <2>2, <3>1, KeyIs
  <2> PICK last : last = Len(jobs) + 1
    OBVIOUS
  <2>4. /\ DOMAIN jobs' = 1..last
        /\ \A k \in 1..Len(jobs) : jobs'[k] = jobs[k]
        /\ jobs'[last] = <<scan.next>>
    BY <1>1, <1>2
  <2>5. \A k \in DOMAIN jobs : Queued(a, k)' <=> Queued(a, k)
    BY <1>2, <2>4 DEF Queued
  <2>6. Queued(a, last)' <=> b = scan.next
    <3>1. PICK root : root = <<scan.next>>
      OBVIOUS
    <3>2. IsPrefix(root, Accounts[a].key) <=> Accounts[a].key[1] = scan.next
      BY <1>3, <3>1, KeyIs, PrefixOfRoot
    <3>3. jobs'[last] = root
      BY <2>4, <3>1
    <3> QED  BY <2>2, <3>2, <3>3 DEF Queued
  <2>7. \A w : InHands(a, w)' <=> InHands(a, w)
    BY <1>1 DEF InHands
  <2>8. AtRoot(a) <=> b >= scan.next
    BY <1>1, <2>2 DEF AtRoot
  <2>9. AtRoot(a)' <=> b >= scan.next /\ b # scan.next
    <3>1. AtRoot(a)' <=> step = "roots" /\ b >= n
      BY <1>6, <2>2 DEF AtRoot
    <3> QED  BY <1>3, <1>4, <1>5, <2>3, <3>1 DEF Bytes
  <2>10. b = scan.next => b >= scan.next
    BY <2>3 DEF Bytes
  <2>11. /\ DOMAIN jobs' = DOMAIN jobs \cup {last} /\ last \notin DOMAIN jobs
         /\ last \in DOMAIN jobs'
    BY <1>2, <2>4
  <2>13. OneShard(a)' /\ (Waits(a)' <=> Waits(a))
    <3>1. \A k \in DOMAIN jobs' : Queued(a, k)' <=> \/ (k \in DOMAIN jobs /\ Queued(a, k))
                                                   \/ (k = last /\ b = scan.next)
      <4> SUFFICES ASSUME NEW k \in DOMAIN jobs'
                   PROVE  Queued(a, k)' <=> \/ (k \in DOMAIN jobs /\ Queued(a, k))
                                            \/ (k = last /\ b = scan.next)
        OBVIOUS
      <4>1. CASE k = last
        BY <2>6, <2>11, <4>1
      <4>2. CASE k \in DOMAIN jobs
        BY <2>5, <2>11, <4>2
      <4> QED  BY <2>11, <4>1, <4>2
    <3>2. \A k, l \in DOMAIN jobs' : Queued(a, k)' /\ Queued(a, l)' => k = l
      BY <2>1, <2>8, <2>10, <2>11, <3>1 DEF OneShard
    <3>3. \A v, w \in ShardWorkers : InHands(a, v)' /\ InHands(a, w)' => v = w
      BY <2>1, <2>7 DEF OneShard
    <3>4. \A k \in DOMAIN jobs', w \in ShardWorkers : ~(Queued(a, k)' /\ InHands(a, w)')
      BY <2>1, <2>7, <2>8, <2>10, <3>1 DEF OneShard
    <3>5. AtRoot(a)' => /\ \A k \in DOMAIN jobs' : ~Queued(a, k)'
                        /\ \A w \in ShardWorkers : ~InHands(a, w)'
      BY <2>1, <2>7, <2>8, <2>9, <3>1 DEF OneShard
    <3>6. (\E k \in DOMAIN jobs' : Queued(a, k)') <=> (\E k \in DOMAIN jobs : Queued(a, k)) \/ b = scan.next
      <4>1. DOMAIN jobs \subseteq DOMAIN jobs' /\ last \in DOMAIN jobs' /\ last \notin DOMAIN jobs
        BY <2>11
      <4> QED  BY <3>1, <4>1
    <3>7. Waits(a)' <=> Waits(a)
      BY <2>7, <2>8, <2>9, <2>10, <3>6 DEF Waits
    <3>8. OneShard(a)'
      BY <3>2, <3>3, <3>4, <3>5 DEF OneShard
    <3> QED  BY <3>7, <3>8
  <2>14. Settled(a)' <=> Settled(a)
    BY <1>1 DEF Settled
  <2> QED  BY <1>1, <2>1, <2>13, <2>14 DEF ShardsHold
<1>9. scan.step \in {"program", "roots", "wait"} /\ scan'.step \in {"roots", "wait", "joined"} /\ scan'.step # "joined"
  BY <1>1, <1>5, <1>6
<1> QED  BY <1>1, <1>2, <1>6, <1>7, <1>8, <1>9, WhileSharding

\* A canceled scan sends no more roots, and at its end there is nothing in any shard.
LEMMA EndHanded ==
    ASSUME HandedInv, ShardsInv', RootsCanceled \/ EndShards
    PROVE  HandedInv'
<1>1. /\ scan.step \in {"roots", "wait"}
      /\ UNCHANGED <<venue, jobs, worker, jobWG, firstErr, handled, saved, skipped>>
  BY DEF RootsCanceled, EndShards, shardVars
<1>2. /\ scan \in Scan /\ handled \in [AccountIds -> 0..1] /\ OwnReserves
      /\ ~venue.tracked /\ \A a \in AccountIds : Accounts[a].program = program => ShardsHold(a)
  BY <1>1, ShardFacts DEF Sharding
<1>3. /\ scan'.step \in {"wait", "joined"} /\ scan'.at = scan.at /\ scan'.failed = scan.failed
      /\ scan'.logged = scan.logged
      /\ scan'.step = "joined" => jobWG' = 0
      /\ scan.step = "roots" => firstErr
  BY <1>1, <1>2 DEF Scan, RootsCanceled, EndShards
<1>4. OwnReserves'
  BY <1>1, <1>2 DEF OwnReserves
<1>5. ASSUME NEW a \in AccountIds, Accounts[a].program = program PROVE ShardsHold(a)'
  <2>1. ShardsHold(a) /\ OneShard(a)
    BY <1>2, <1>5 DEF ShardsHold
  <2>2. /\ \A k : Queued(a, k)' <=> Queued(a, k)
        /\ \A w : InHands(a, w)' <=> InHands(a, w)
        /\ ~AtRoot(a)'
    BY <1>1, <1>3 DEF Queued, InHands, AtRoot
  <2>3. OneShard(a)' /\ (Waits(a)' => Waits(a))
    BY <1>1, <2>1, <2>2 DEF OneShard, Waits
  <2>4. firstErr \/ Waits(a)' \/ Settled(a)'
    <3>1. CASE scan.step = "roots"
      BY <1>3, <3>1
    <3>2. CASE scan.step = "wait"
      <4>1. ~AtRoot(a)
        BY <3>2 DEF AtRoot
      <4>2. Waits(a) => Waits(a)'
        BY <1>1, <2>2, <4>1 DEF Waits
      <4> QED  BY <1>1, <2>1, <4>2, StaysSettled DEF ShardsHold
    <3> QED  BY <1>1, <3>1, <3>2
  <2> QED  BY <1>1, <2>1, <2>3, <2>4 DEF ShardsHold
<1>6. scan.step \in {"program", "roots", "wait"} /\ scan'.step \in {"roots", "wait", "joined"}
  BY <1>1, <1>3
<1> QED  BY <1>1, <1>2, <1>3, <1>4, <1>5, <1>6, WhileSharding

\* The program is done: nothing waits, so that all is settled unless there was an error.
LEMMA ProgramScannedHanded ==
    ASSUME HandedInv, ShardsInv', ProgramScanned
    PROVE  HandedInv'
<1>1. /\ scan.step = "joined" /\ scan' = nextProgram(firstErr)
      /\ UNCHANGED <<venue, handled, saved, skipped>> /\ UNCHANGED shardVars
  BY DEF ProgramScanned
<1>2. /\ handled \in [AccountIds -> 0..1] /\ OwnReserves
      /\ jobs = << >> /\ \A w \in ShardWorkers : worker[w].step = "idle"
      /\ \A a \in AccountIds : Accounts[a].program = program => ShardsHold(a)
  BY <1>1, ShardFacts DEF Sharding
<1>3. OwnReserves'
  BY <1>1, <1>2 DEF OwnReserves
<1>4. ASSUME ~firstErr, NEW a \in AccountIds, Accounts[a].program = program PROVE Settled(a)'
  <2>1. ~Waits(a)
    <3>1. DOMAIN jobs = {}
      BY <1>2
    <3> QED  BY <1>1, <1>2, <3>1 DEF Waits, InHands, AtRoot
  <2>2. Settled(a)
    BY <1>2, <1>4, <2>1 DEF ShardsHold
  <2> QED  BY <1>1, <2>2, StaysSettled
<1>5. firstErr \in BOOLEAN
  BY DEF HandedInv, ShardsInv, ShardsTypeOK
<1>6. scan.step \in {"program", "joined", "queries"} /\ skipped \subseteq skipped' /\ handled' \in [AccountIds -> 0..1]
  BY <1>1, <1>2
<1>7. \A a \in AccountIds : Accounts[a].program # program => handled'[a] = handled[a]
  BY <1>1
<1>8. firstErr \/ \A a \in AccountIds : Accounts[a].program = program => Settled(a)'
  BY <1>4
<1> QED  BY <1>1, <1>3, <1>5, <1>6, <1>7, <1>8, AfterProgram

\* A step of a worker with its shard: each of the accounts in its hands stays there, or is
\* settled, or an error cancels the scan.
LEMMA JobHanded ==
    ASSUME HandedInv, ShardsInv', OwnReserves', NEW w \in ShardWorkers, NEW job,
           worker[w].step # "idle", worker' = [worker EXCEPT ![w] = job],
           UNCHANGED <<venue, scan, jobs>>, firstErr => firstErr',
           skipped \subseteq skipped', handled' \in [AccountIds -> 0..1],
           \A a \in AccountIds : InHands(a, w)' => InHands(a, w),
           \A a \in AccountIds : ~(Accounts[a].program = program /\ InHands(a, w)) => handled'[a] = handled[a],
           \A a \in AccountIds : Accounts[a].program = program /\ InHands(a, w) =>
                \/ InHands(a, w)' /\ handled'[a] = handled[a]
                \/ ~InHands(a, w)' /\ (firstErr' \/ Settled(a)')
    PROVE  HandedInv'
<1>1. /\ scan \in Scan /\ worker \in [ShardWorkers -> Job]
      /\ scan.step \in {"roots", "wait"}
      /\ ~venue.tracked /\ \A a \in AccountIds : Accounts[a].program = program => ShardsHold(a)
  BY ShardFacts DEF Sharding
<1>2. ASSUME NEW a \in AccountIds, Accounts[a].program = program PROVE ShardsHold(a)'
  <2>1. ShardsHold(a)
    BY <1>1, <1>2
  <2>2. /\ OneShard(a)'
        /\ Waits(a)' => Waits(a)
        /\ Waits(a) => Waits(a)' \/ InHands(a, w)
        /\ ~InHands(a, w)' /\ InHands(a, w) => ~Waits(a)'
    BY <1>1, <2>1, HandsOnly
  <2>3. /\ Waits(a) => handled[a] = 0
        /\ firstErr \/ Waits(a) \/ Settled(a)
    BY <2>1 DEF ShardsHold
  <2>4. InHands(a, w)' => Waits(a)'
    BY DEF Waits
  <2>5. CASE InHands(a, w)
    <3>1. CASE InHands(a, w)' /\ handled'[a] = handled[a]
      BY <2>2, <2>3, <2>4, <3>1 DEF ShardsHold
    <3>2. CASE ~InHands(a, w)' /\ (firstErr' \/ Settled(a)')
      BY <2>2, <2>5, <3>2 DEF ShardsHold
    <3> QED  BY <1>2, <2>5, <3>1, <3>2
  <2>6. CASE ~InHands(a, w)
    <3>1. handled'[a] = handled[a]
      BY <2>6
    <3>2. Settled(a) => Settled(a)'
      BY <3>1, StaysSettled
    <3> QED  BY <2>2, <2>3, <2>6, <3>1, <3>2 DEF ShardsHold
  <2> QED  BY <2>5, <2>6
<1>3. \A a \in AccountIds : Accounts[a].program # program => handled'[a] = handled[a]
  OBVIOUS
<1>4. /\ scan.step \in {"program", "roots", "wait"} /\ scan'.step \in {"roots", "wait", "joined"}
      /\ scan'.step # "joined" /\ scan'.at = scan.at /\ scan'.failed = scan.failed /\ scan'.logged = scan.logged
  BY <1>1
<1> QED  BY <1>1, <1>2, <1>3, <1>4, WhileSharding

\* The accounts of a shard are those in the hands of the worker that has it.
LEMMA HandsAre ==
    ASSUME NEW w \in ShardWorkers, worker[w].step \in {"query", "handle"}
    PROVE  \A a \in AccountIds : a \in inShard(worker[w].prefix)
              <=> Accounts[a].program = program /\ InHands(a, w)
  BY DEF inShard, InHands

\* A worker without a job has no account in its hands.
LEMMA DoneHasNone ==
    ASSUME worker \in [ShardWorkers -> Job], NEW w \in ShardWorkers, jobDone(w)
    PROVE  \A a : ~InHands(a, w)'
<1>1. worker'[w] = NoJob
  BY DEF jobDone
<1>2. worker'[w].step = "idle"
  BY <1>1, NoJobTyped
<1> QED  BY <1>2 DEF InHands

\* An answer: an empty shard is done with, the accounts of another one stay in hands.
LEMMA AnsweredHanded ==
    ASSUME HandedInv, ShardsInv', NEW w \in ShardWorkers, ShardAnswered(w)
    PROVE  HandedInv'
<1>1. /\ worker[w].step = "query"
      /\ UNCHANGED <<venue, scan, jobs, firstErr, handled, saved, skipped>>
  BY DEF ShardAnswered
<1>2. /\ worker \in [ShardWorkers -> Job] /\ handled' \in [AccountIds -> 0..1] /\ OwnReserves'
  BY <1>1, ShardFacts DEF OwnReserves
<1>3. CASE inShard(worker[w].prefix) = {}
  <2>1. jobDone(w)
    BY <1>3 DEF ShardAnswered
  <2>2. worker' = [worker EXCEPT ![w] = NoJob] /\ \A a \in AccountIds : ~InHands(a, w)'
    BY <1>2, <2>1, DoneHasNone DEF jobDone
  <2>3. \A a \in AccountIds : ~(Accounts[a].program = program /\ InHands(a, w))
    BY <1>1, <1>3, HandsAre
  <2> QED  BY <1>1, <1>2, <2>2, <2>3, JobHanded
<1>4. CASE inShard(worker[w].prefix) # {}
  <2>1. PICK job : job = [worker[w] EXCEPT !.step = "handle"]
    OBVIOUS
  <2>2. worker' = [worker EXCEPT ![w] = job]
    BY <1>4, <2>1 DEF ShardAnswered
  <2>3. worker'[w].step = "handle" /\ worker'[w].prefix = worker[w].prefix
    BY <1>2, <2>1, <2>2 DEF Job
  <2>4. \A a \in AccountIds : InHands(a, w)' <=> InHands(a, w)
    BY <1>1, <2>3 DEF InHands
  <2> QED  BY <1>1, <1>2, <2>2, <2>4, JobHanded
<1> QED  BY <1>3, <1>4

\* A shard that is too large: its accounts are all still to come when it is split, and when
\* it cannot be split there is an error.
LEMMA TooLargeHanded ==
    ASSUME HandedInv, ShardsInv', NEW w \in ShardWorkers, ShardTooLarge(w)
    PROVE  HandedInv'
<1>1. /\ worker[w].step = "query"
      /\ UNCHANGED <<venue, scan, jobs, handled, saved, skipped>>
  BY DEF ShardTooLarge
<1>2. /\ worker \in [ShardWorkers -> Job] /\ handled' \in [AccountIds -> 0..1] /\ OwnReserves'
      /\ worker[w].prefix \in Shard
  BY <1>1, ShardFacts DEF OwnReserves
<1>3. CASE Len(worker[w].prefix) < MaxShardDepth
  <2>1. PICK job : job = [worker[w] EXCEPT !.step = "expand", !.child = 0]
    OBVIOUS
  <2>2. worker' = [worker EXCEPT ![w] = job] /\ UNCHANGED firstErr
    BY <1>3, <2>1 DEF ShardTooLarge, splitShard
  <2>3. worker'[w].step = "expand" /\ worker'[w].prefix = worker[w].prefix /\ worker'[w].child = 0
    BY <1>2, <2>1, <2>2 DEF Job
  <2>4. ASSUME NEW a \in AccountIds PROVE InHands(a, w)' <=> InHands(a, w)
    <3>1. Len(worker[w].prefix) + 1 \in 1..Len(Accounts[a].key)
      <4>1. PICK n \in Nat : n = Len(worker[w].prefix)
        BY <1>2 DEF Shard
      <4>2. PICK m \in Nat : m = Len(Accounts[a].key) /\ m >= MaxShardDepth
        BY KeyIs
      <4> QED  BY <1>3, <4>1, <4>2
    <3>2. PICK b : b = Accounts[a].key[Len(worker[w].prefix) + 1]
      OBVIOUS
    <3>3. b >= 0
      <4>1. b \in Bytes
        BY <3>1, <3>2, KeyIs
      <4> QED  BY <4>1 DEF Bytes
    <3> QED  BY <1>1, <2>3, <3>2, <3>3 DEF InHands
  <2> QED  BY <1>1, <1>2, <2>2, <2>4, JobHanded
<1>4. CASE ~(Len(worker[w].prefix) < MaxShardDepth)
  <2>1. jobDone(w) /\ firstErr' = TRUE
    BY <1>4 DEF ShardTooLarge
  <2>2. worker' = [worker EXCEPT ![w] = NoJob] /\ \A a \in AccountIds : ~InHands(a, w)'
    BY <1>2, <2>1, DoneHasNone DEF jobDone
  <2> QED  BY <1>1, <1>2, <2>1, <2>2, JobHanded
<1> QED  BY <1>3, <1>4

\* An error of a shard: its accounts are skipped, or the scan is canceled.
LEMMA ErrorHanded ==
    ASSUME HandedInv, ShardsInv', NEW w \in ShardWorkers, ShardError(w)
    PROVE  HandedInv'
<1>1. /\ worker[w].step = "query" /\ jobDone(w)
      /\ UNCHANGED <<venue, scan, jobs, handled, saved>>
      /\ \/ skipped' = skipped \cup inShard(worker[w].prefix) /\ UNCHANGED firstErr
         \/ firstErr' = TRUE /\ UNCHANGED skipped
  BY DEF ShardError
<1>2. /\ worker \in [ShardWorkers -> Job] /\ handled' \in [AccountIds -> 0..1] /\ OwnReserves'
  BY <1>1, ShardFacts DEF OwnReserves
<1>3. worker' = [worker EXCEPT ![w] = NoJob] /\ \A a \in AccountIds : ~InHands(a, w)'
  BY <1>1, <1>2, DoneHasNone DEF jobDone
<1>4. ASSUME NEW a \in AccountIds, Accounts[a].program = program, InHands(a, w)
      PROVE  firstErr' \/ Settled(a)'
  <2>1. a \in inShard(worker[w].prefix)
    BY <1>1, <1>4, HandsAre
  <2> QED  BY <1>1, <2>1 DEF Settled
<1>5. (firstErr => firstErr') /\ skipped \subseteq skipped'
  BY <1>1
<1> QED  BY <1>1, <1>2, <1>3, <1>4, <1>5, JobHanded

\* The handler gets the accounts of a shard, or after an error a part of them.
LEMMA HandleHanded ==
    ASSUME HandedInv, ShardsInv', NEW w \in ShardWorkers, HandleShard(w)
    PROVE  HandedInv'
<1>1. /\ worker[w].step = "handle" /\ jobDone(w)
      /\ UNCHANGED <<venue, scan, jobs, skipped>>
  BY DEF HandleShard
<1>2. PICK part \in SUBSET inShard(worker[w].prefix) :
        /\ (\E ok \in BOOLEAN : handTo(part, ok)) /\ (firstErr => firstErr')
        /\ firstErr' \/ part = inShard(worker[w].prefix)
  <2>1. CASE handTo(inShard(worker[w].prefix), TRUE) /\ UNCHANGED firstErr
    BY <2>1
  <2>2. CASE firstErr' = TRUE /\ \E part \in SUBSET inShard(worker[w].prefix) : handTo(part, FALSE)
    BY <2>2
  <2> QED  BY <2>1, <2>2 DEF HandleShard
<1>3. /\ worker \in [ShardWorkers -> Job] /\ handled \in [AccountIds -> 0..1] /\ OwnReserves
      /\ \A a \in AccountIds : Accounts[a].program = program => ShardsHold(a)
  BY <1>1, ShardFacts DEF Sharding
<1>4. worker' = [worker EXCEPT ![w] = NoJob] /\ \A a \in AccountIds : ~InHands(a, w)'
  BY <1>1, <1>3, DoneHasNone DEF jobDone
<1>5. \A a \in AccountIds : a \in inShard(worker[w].prefix)
              <=> Accounts[a].program = program /\ InHands(a, w)
  BY <1>1, HandsAre
<1>6. part \in SUBSET AccountIds
  BY DEF inShard
<1>7. \A a \in part : handled[a] = 0
  <2> SUFFICES ASSUME NEW a \in part PROVE handled[a] = 0
    OBVIOUS
  <2>1. Accounts[a].program = program /\ InHands(a, w)
    BY <1>5, <1>6
  <2>2. ShardsHold(a)
    BY <1>3, <1>6, <2>1
  <2> QED  BY <2>1, <2>2 DEF ShardsHold, Waits
<1>8. /\ handled' \in [AccountIds -> 0..1] /\ OwnReserves'
      /\ \A a \in AccountIds : handled'[a] = IF a \in part \ Unknown /\ Accounts[a].valid THEN 1 ELSE handled[a]
  BY <1>2, <1>3, <1>6, <1>7, HandedOn
<1>9. ASSUME NEW a \in AccountIds, ~(Accounts[a].program = program /\ InHands(a, w))
      PROVE  handled'[a] = handled[a]
  <2>1. a \notin part
    BY <1>5, <1>9
  <2> QED  BY <1>8, <2>1
<1>10. ASSUME NEW a \in AccountIds, Accounts[a].program = program, InHands(a, w), ~firstErr'
       PROVE  Settled(a)'
  <2>1. a \in part
    BY <1>2, <1>5, <1>10
  <2> QED  BY <1>1, <1>8, <2>1 DEF Settled
<1> QED  BY <1>1, <1>2, <1>4, <1>8, <1>9, <1>10, JobHanded

\* A worker takes the first shard of the channel; a canceled scan drops it.
LEMMA TakeJobHanded ==
    ASSUME HandedInv, ShardsInv', NEW w \in ShardWorkers, TakeJob(w)
    PROVE  HandedInv'
<1>1. /\ worker[w].step = "idle" /\ jobs # << >> /\ jobs' = Tail(jobs)
      /\ UNCHANGED <<venue, scan, firstErr, handled, saved, skipped>>
  BY DEF TakeJob
<1>2. /\ scan \in Scan /\ worker \in [ShardWorkers -> Job] /\ handled' \in [AccountIds -> 0..1] /\ OwnReserves'
      /\ jobs \in Seq(Shard) /\ Len(jobs) \in Nat /\ DOMAIN jobs = 1..Len(jobs)
      /\ scan.step \in {"roots", "wait"}
      /\ ~venue.tracked /\ \A a \in AccountIds : Accounts[a].program = program => ShardsHold(a)
  BY <1>1, ShardFacts DEF Sharding, OwnReserves
<1>3. PICK n \in Nat : n = Len(jobs) /\ n >= 1
  <2>1. Len(jobs) # 0
    BY <1>1, <1>2, EmptySeq
  <2>2. Len(jobs) \in Nat /\ Len(jobs) >= 1
    BY <1>2, <2>1
  <2> QED  BY <2>2, Zenon
<1>4. /\ DOMAIN jobs' = 1..(n - 1)
      /\ \A k \in 1..(n - 1) : jobs'[k] = jobs[k + 1]
      /\ Head(jobs) = jobs[1]
  BY <1>1, <1>2, <1>3
<1>5. ASSUME NEW a \in AccountIds, Accounts[a].program = program PROVE ShardsHold(a)'
  <2>1. ShardsHold(a) /\ OneShard(a)
    BY <1>2, <1>5 DEF ShardsHold
  <2>2. \A k \in 1..(n - 1) : (Queued(a, k)' <=> Queued(a, k + 1)) /\ k + 1 \in DOMAIN jobs
    BY <1>2, <1>3, <1>4 DEF Queued
  <2>3. AtRoot(a)' <=> AtRoot(a)
    BY <1>1 DEF AtRoot
  <2>4. Settled(a) <=> Settled(a)'
    BY <1>1 DEF Settled
  <2>5. ~InHands(a, w)
    BY <1>1 DEF InHands
  <2>6. \A k, l \in DOMAIN jobs' : Queued(a, k)' /\ Queued(a, l)' => k = l
    <3> SUFFICES ASSUME NEW k \in 1..(n - 1), NEW l \in 1..(n - 1), Queued(a, k)', Queued(a, l)'
                 PROVE  k = l
      BY <1>4
    <3>1. k + 1 = l + 1
      BY <2>1, <2>2 DEF OneShard
    <3> QED  BY <3>1
  <2>7. CASE firstErr
    <3>1. UNCHANGED worker
      BY <1>1, <2>7 DEF TakeJob
    <3>2. \A v : InHands(a, v)' <=> InHands(a, v)
      BY <3>1 DEF InHands
    <3>3. OneShard(a)'
      BY <1>4, <2>1, <2>2, <2>3, <2>6, <3>2 DEF OneShard
    <3>4. Waits(a)' => Waits(a)
      BY <1>4, <2>2, <2>3, <3>2 DEF Waits
    <3> QED  BY <1>1, <2>1, <2>7, <3>3, <3>4 DEF ShardsHold
  <2>8. CASE ~firstErr
    <3>1. PICK job : job = [NoJob EXCEPT !.step = "query", !.prefix = Head(jobs)]
      OBVIOUS
    <3>2. worker' = [worker EXCEPT ![w] = job] /\ job.step = "query" /\ job.prefix = jobs[1]
      BY <1>1, <1>4, <2>8, <3>1 DEF TakeJob, NoJob
    <3>3. worker'[w] = job /\ \A v \in ShardWorkers \ {w} : worker'[v] = worker[v]
      BY <1>2, <3>2
    <3>4. InHands(a, w)' <=> Queued(a, 1)
      BY <3>2, <3>3 DEF InHands, Queued
    <3>5. \A v \in ShardWorkers \ {w} : InHands(a, v)' <=> InHands(a, v)
      BY <3>3 DEF InHands
    <3>6. 1 \in DOMAIN jobs
      BY <1>2, <1>3
    <3>7. \A u, v \in ShardWorkers : InHands(a, u)' /\ InHands(a, v)' => u = v
      BY <2>1, <3>4, <3>5, <3>6 DEF OneShard
    <3>8. \A k \in DOMAIN jobs', v \in ShardWorkers : ~(Queued(a, k)' /\ InHands(a, v)')
      <4> SUFFICES ASSUME NEW k \in 1..(n - 1), NEW v \in ShardWorkers, Queued(a, k)', InHands(a, v)'
                   PROVE  FALSE
        BY <1>4
      <4>1. Queued(a, k + 1) /\ k + 1 \in DOMAIN jobs /\ k + 1 # 1
        BY <2>2
      <4> QED  BY <2>1, <3>4, <3>5, <3>6, <4>1 DEF OneShard
    <3>9. AtRoot(a)' => /\ \A k \in DOMAIN jobs' : ~Queued(a, k)'
                        /\ \A v \in ShardWorkers : ~InHands(a, v)'
      BY <1>4, <2>1, <2>2, <2>3, <3>4, <3>5, <3>6 DEF OneShard
    <3>10. OneShard(a)'
      BY <2>6, <3>7, <3>8, <3>9 DEF OneShard
    <3>11. Waits(a)' => Waits(a)
      BY <1>4, <2>2, <2>3, <3>4, <3>5, <3>6 DEF Waits
    <3>12. Waits(a) => Waits(a)'
      <4>1. CASE \E k \in DOMAIN jobs : Queued(a, k)
        <5>1. PICK k \in 1..n : Queued(a, k)
          BY <1>2, <1>3, <4>1
        <5>2. CASE k = 1
          BY <3>4, <5>1, <5>2 DEF Waits
        <5>3. CASE k # 1
          <6>1. k - 1 \in 1..(n - 1) /\ (k - 1) + 1 = k
            BY <1>3, <5>3
          <6>2. PICK l : l = k - 1
            OBVIOUS
          <6>3. Queued(a, l)' /\ l \in DOMAIN jobs'
            BY <1>4, <2>2, <5>1, <6>1, <6>2
          <6> QED  BY <6>3 DEF Waits
        <5> QED  BY <5>2, <5>3
      <4>2. CASE \E v \in ShardWorkers : InHands(a, v)
        BY <2>5, <3>5, <4>2 DEF Waits
      <4>3. CASE AtRoot(a)
        BY <2>3, <4>3 DEF Waits
      <4> QED  BY <4>1, <4>2, <4>3 DEF Waits
    <3> QED  BY <1>1, <2>1, <2>4, <3>10, <3>11, <3>12 DEF ShardsHold
  <2> QED  BY <2>7, <2>8
<1>6. /\ scan.step \in {"program", "roots", "wait"} /\ scan'.step \in {"roots", "wait", "joined"}
      /\ scan'.step # "joined" /\ scan'.at = scan.at /\ scan'.failed = scan.failed /\ scan'.logged = scan.logged
      /\ skipped \subseteq skipped'
      /\ \A a \in AccountIds : Accounts[a].program # program => handled'[a] = handled[a]
  BY <1>1, <1>2
<1> QED  BY <1>1, <1>2, <1>5, <1>6, WhileSharding

\* A child goes into the channel, and with it the accounts of its byte; the others of the
\* shard are still in the hands of the worker, and after the last child there are none.
LEMMA EnqueueChildHanded ==
    ASSUME HandedInv, ShardsInv', NEW w \in ShardWorkers, EnqueueChild(w)
    PROVE  HandedInv'
<1>1. /\ worker[w].step = "expand"
      /\ UNCHANGED <<venue, scan, firstErr, handled, saved, skipped>>
  BY DEF EnqueueChild
<1>2. /\ scan \in Scan /\ worker \in [ShardWorkers -> Job] /\ handled' \in [AccountIds -> 0..1] /\ OwnReserves'
      /\ jobs \in Seq(Shard) /\ Len(jobs) \in Nat /\ DOMAIN jobs = 1..Len(jobs)
      /\ scan.step \in {"roots", "wait"}
      /\ ~venue.tracked /\ \A a \in AccountIds : Accounts[a].program = program => ShardsHold(a)
      /\ worker[w].prefix \in Shard
  BY <1>1, ShardFacts DEF Sharding, OwnReserves
<1>3. Len(worker[w].prefix) < MaxShardDepth
  BY <1>1 DEF HandedInv, ShardsInv, SplitsAreShards
<1>4. CASE firstErr
  <2>1. jobDone(w) /\ UNCHANGED jobs
    BY <1>4 DEF EnqueueChild
  <2>2. worker' = [worker EXCEPT ![w] = NoJob] /\ \A a \in AccountIds : ~InHands(a, w)'
    BY <1>2, <2>1, DoneHasNone DEF jobDone
  <2> QED  BY <1>1, <1>2, <1>4, <2>1, <2>2, JobHanded
<1>5. CASE ~firstErr
  <2>1. PICK prefix \in Seq(Bytes), child \in Bytes :
           prefix = worker[w].prefix /\ child = worker[w].child
    BY <1>2 DEF Job
  <2>2. PICK last, shard : last = Len(jobs) + 1 /\ shard = Append(prefix, child)
    OBVIOUS
  <2>3. jobs' = Append(jobs, shard)
    BY <1>5, <2>1, <2>2 DEF EnqueueChild, enqueue
  <2>4. /\ DOMAIN jobs' = DOMAIN jobs \cup {last} /\ last \notin DOMAIN jobs
        /\ \A k \in DOMAIN jobs : jobs'[k] = jobs[k]
        /\ jobs'[last] = shard
    BY <1>2, <2>2, <2>3
  <2>5. PICK job : /\ worker' = [worker EXCEPT ![w] = job]
                   /\ \/ (job.step = "idle" /\ child = lastChild)
                      \/ (job.step = "expand" /\ job.prefix = prefix /\ job.child = child + 1)
    <3>1. CASE child = lastChild
      <4>1. worker' = [worker EXCEPT ![w] = NoJob]
        BY <1>5, <2>1, <3>1 DEF EnqueueChild
      <4> QED  BY <3>1, <4>1, NoJobTyped
    <3>2. CASE child # lastChild
      <4>1. PICK job : job = [worker[w] EXCEPT !.child = child + 1]
        OBVIOUS
      <4>2. worker' = [worker EXCEPT ![w] = job]
        BY <1>5, <2>1, <3>2, <4>1 DEF EnqueueChild
      <4>3. job.step = "expand" /\ job.prefix = prefix /\ job.child = child + 1
        <5>1. worker[w] \in Job
          BY <1>2
        <5> QED  BY <1>1, <2>1, <4>1, <5>1 DEF Job
      <4> QED  BY <4>2, <4>3
    <3> QED  BY <3>1, <3>2
  <2>6. worker'[w] = job /\ \A v \in ShardWorkers \ {w} : worker'[v] = worker[v]
    BY <1>2, <2>5
  <2>7. ASSUME NEW a \in AccountIds, Accounts[a].program = program PROVE ShardsHold(a)'
    <3>1. ShardsHold(a) /\ OneShard(a)
      BY <1>2, <2>7 DEF ShardsHold
    <3>2. PICK n \in Nat : n = Len(prefix)
      BY <2>1
    <3>3. Len(prefix) < Len(Accounts[a].key) /\ n + 1 \in 1..Len(Accounts[a].key)
      <4>1. PICK m \in Nat : m = Len(Accounts[a].key) /\ m >= MaxShardDepth
        BY KeyIs
      <4> QED  BY <1>3, <2>1, <3>2, <4>1
    <3>4. PICK b \in Bytes : b = Accounts[a].key[n + 1]
      BY <3>3, KeyIs
    <3>5. Queued(a, last)' <=> IsPrefix(prefix, Accounts[a].key) /\ b = child
      <4>1. Accounts[a].key \in Seq(Bytes)
        BY KeyIs
      <4>2. IsPrefix(shard, Accounts[a].key) <=> IsPrefix(prefix, Accounts[a].key) /\ Accounts[a].key[Len(prefix) + 1] = child
        BY <2>2, <3>3, <4>1, PrefixOfChild
      <4> QED  BY <2>4, <3>2, <3>4, <4>2 DEF Queued
    <3>6. InHands(a, w) <=> IsPrefix(prefix, Accounts[a].key) /\ b >= child
      BY <1>1, <2>1, <3>2, <3>4 DEF InHands
    <3>7. InHands(a, w)' <=> IsPrefix(prefix, Accounts[a].key) /\ b >= child /\ b # child
      <4>1. CASE job.step = "idle" /\ child = lastChild
        <5>1. ~InHands(a, w)'
          BY <2>6, <4>1 DEF InHands
        <5>2. b >= child => b = child
          BY <4>1 DEF lastChild, Bytes
        <5> QED  BY <5>1, <5>2
      <4>2. CASE job.step = "expand" /\ job.prefix = prefix /\ job.child = child + 1
        <5>1. InHands(a, w)' <=> IsPrefix(prefix, Accounts[a].key) /\ b >= child + 1
          BY <2>6, <3>2, <3>4, <4>2 DEF InHands
        <5>2. b >= child + 1 <=> b >= child /\ b # child
          BY DEF Bytes
        <5> QED  BY <5>1, <5>2
      <4> QED  BY <2>5, <4>1, <4>2
    <3>8. b = child => b >= child
      BY DEF Bytes
    <3>9. /\ Queued(a, last)' => InHands(a, w)
          /\ InHands(a, w)' <=> InHands(a, w) /\ ~Queued(a, last)'
      BY <3>5, <3>6, <3>7, <3>8
    <3>10. /\ \A k \in DOMAIN jobs : Queued(a, k)' <=> Queued(a, k)
           /\ \A v \in ShardWorkers \ {w} : InHands(a, v)' <=> InHands(a, v)
           /\ AtRoot(a)' <=> AtRoot(a)
      BY <1>1, <2>4, <2>6 DEF Queued, InHands, AtRoot
    <3>11. \A k, l \in DOMAIN jobs' : Queued(a, k)' /\ Queued(a, l)' => k = l
      <4> SUFFICES ASSUME NEW k \in DOMAIN jobs', NEW l \in DOMAIN jobs', Queued(a, k)', Queued(a, l)'
                   PROVE  k = l
        OBVIOUS
      <4>1. CASE k = last /\ l \in DOMAIN jobs
        BY <3>1, <3>9, <3>10, <4>1 DEF OneShard
      <4>2. CASE l = last /\ k \in DOMAIN jobs
        BY <3>1, <3>9, <3>10, <4>2 DEF OneShard
      <4>3. CASE k \in DOMAIN jobs /\ l \in DOMAIN jobs
        BY <3>1, <3>10, <4>3 DEF OneShard
      <4> QED  BY <2>4, <4>1, <4>2, <4>3
    <3>12. \A u, v \in ShardWorkers : InHands(a, u)' /\ InHands(a, v)' => u = v
      BY <3>1, <3>9, <3>10 DEF OneShard
    <3>13. \A k \in DOMAIN jobs', v \in ShardWorkers : ~(Queued(a, k)' /\ InHands(a, v)')
      <4> SUFFICES ASSUME NEW k \in DOMAIN jobs', NEW v \in ShardWorkers, Queued(a, k)', InHands(a, v)'
                   PROVE  FALSE
        OBVIOUS
      <4>1. InHands(a, v)
        BY <3>9, <3>10
      <4>2. CASE k = last
        <5>1. InHands(a, w)
          BY <3>9, <4>2
        <5>2. v = w
          BY <3>1, <4>1, <5>1 DEF OneShard
        <5> QED  BY <3>9, <4>2, <5>2
      <4>3. CASE k \in DOMAIN jobs
        BY <3>1, <3>10, <4>1, <4>3 DEF OneShard
      <4> QED  BY <2>4, <4>2, <4>3
    <3>14. AtRoot(a)' => /\ \A k \in DOMAIN jobs' : ~Queued(a, k)'
                         /\ \A v \in ShardWorkers : ~InHands(a, v)'
      <4> SUFFICES ASSUME AtRoot(a)'
                   PROVE  /\ \A k \in DOMAIN jobs' : ~Queued(a, k)'
                          /\ \A v \in ShardWorkers : ~InHands(a, v)'
        OBVIOUS
      <4>1. /\ \A k \in DOMAIN jobs : ~Queued(a, k)
            /\ \A v \in ShardWorkers : ~InHands(a, v)
        BY <3>1, <3>10 DEF OneShard
      <4>2. ~Queued(a, last)'
        BY <3>9, <4>1
      <4> QED  BY <2>4, <3>9, <3>10, <4>1, <4>2
    <3>15. OneShard(a)'
      BY <3>11, <3>12, <3>13, <3>14 DEF OneShard
    <3>16. Waits(a)' => Waits(a)
      <4>1. CASE \E k \in DOMAIN jobs' : Queued(a, k)'
        <5>1. PICK k \in DOMAIN jobs' : Queued(a, k)'
          BY <4>1
        <5>2. CASE k = last
          BY <3>9, <5>1, <5>2 DEF Waits
        <5>3. CASE k \in DOMAIN jobs
          BY <3>10, <5>1, <5>3 DEF Waits
        <5> QED  BY <2>4, <5>2, <5>3
      <4>2. CASE \E v \in ShardWorkers : InHands(a, v)'
        BY <3>9, <3>10, <4>2 DEF Waits
      <4>3. CASE AtRoot(a)'
        BY <3>10, <4>3 DEF Waits
      <4> QED  BY <4>1, <4>2, <4>3 DEF Waits
    <3>17. Waits(a) => Waits(a)'
      <4>1. last \in DOMAIN jobs' /\ DOMAIN jobs \subseteq DOMAIN jobs'
        BY <2>4
      <4>2. CASE \E k \in DOMAIN jobs : Queued(a, k)
        BY <3>10, <4>1, <4>2 DEF Waits
      <4>3. CASE \E v \in ShardWorkers : InHands(a, v)
        BY <3>9, <3>10, <4>1, <4>3 DEF Waits
      <4>4. CASE AtRoot(a)
        BY <3>10, <4>4 DEF Waits
      <4> QED  BY <4>2, <4>3, <4>4 DEF Waits
    <3>18. Settled(a) <=> Settled(a)'
      BY <1>1 DEF Settled
    <3> QED  BY <1>1, <3>1, <3>15, <3>16, <3>17, <3>18 DEF ShardsHold
  <2>8. /\ scan.step \in {"program", "roots", "wait"} /\ scan'.step \in {"roots", "wait", "joined"}
        /\ scan'.step # "joined" /\ scan'.at = scan.at /\ scan'.failed = scan.failed /\ scan'.logged = scan.logged
        /\ skipped \subseteq skipped'
        /\ \A a \in AccountIds : Accounts[a].program # program => handled'[a] = handled[a]
    BY <1>1, <1>2
  <2> QED  BY <1>1, <1>2, <2>7, <2>8, WhileSharding
<1> QED  BY <1>4, <1>5

-----------------------------------------------------------------------------
\* Nothing was handed on at the start.
LEMMA HandedInitInv == SolanaInit => HandedInv
<1> SUFFICES ASSUME SolanaInit PROVE HandedInv
  OBVIOUS
<1>1. ShardsInv
  BY ShardsInitInv
<1>2. PICK none \in BOOLEAN : none <=> plan.programs = << >>
  OBVIOUS
<1>3. /\ venue \in [key : SolanaVenues, tracked : BOOLEAN]
      /\ scan = [step |-> IF none THEN "done" ELSE "program", at |-> 1, next |-> 0, seen |-> {}, failed |-> none,
                 logged |-> {}]
      /\ jobWG = 0 /\ handled = [a \in AccountIds |-> 0] /\ saved = {}
  <2>1. scan = [step |-> IF none THEN "done" ELSE "program", at |-> 1, next |-> 0, seen |-> {}, failed |-> plan.programs = << >>,
                 logged |-> {}]
    BY <1>2 DEF SolanaInit
  <2> QED  BY <1>2, <2>1 DEF SolanaInit
<1>4. /\ scan.step = IF none THEN "done" ELSE "program"
      /\ scan.at = 1 /\ scan.next = 0 /\ scan.seen = {} /\ scan.failed = none
  BY <1>3
<1>5. venue.key \in SolanaVenues /\ venue.tracked \in BOOLEAN
  BY <1>3
<1>6. Len(plan.programs) \in Nat /\ (none <=> Len(plan.programs) = 0)
  BY <1>2, <1>5, PlanFacts
<1>7. ScanPlace
  <2>1. ~none => scan.at \in 1..Len(plan.programs)
    BY <1>4, <1>6
  <2>2. handled \in [AccountIds -> 0..1]
    BY <1>3
  <2> QED  BY <1>2, <1>3, <1>4, <1>5, <2>1, <2>2 DEF ScanPlace, Sharding
<1>8. LaterUntouched
  BY <1>3 DEF LaterUntouched
<1>9. EarlierSettled
  <2> SUFFICES ASSUME ~scan.failed, NEW a \in AccountIds, NEW i \in Nat \ scan.logged, ProgramIs(a, i), i < scan.at \/ scan.step = "done"
               PROVE  FALSE
    BY DEF EarlierSettled
  <2>1. i \in 1..Len(plan.programs)
    BY DEF ProgramIs
  <2> QED  BY <1>4, <2>1
<1>10. ShardsHoldAll /\ QueriesHold
  BY <1>4 DEF ShardsHoldAll, Sharding, QueriesHold
<1>11. OwnReserves
  BY <1>3 DEF OwnReserves
<1> QED  BY <1>1, <1>7, <1>8, <1>9, <1>10, <1>11 DEF HandedInv

\* Every step keeps the invariant.
LEMMA HandedStepInv ==
    ASSUME HandedInv, [SolanaNext]_solanaVars
    PROVE  HandedInv'
<1>1. ShardsInv'
  BY ShardsStepInv DEF HandedInv
<1>2. CASE ScanLoop \/ QueryError
  BY <1>1, <1>2, BeginShardsHanded, EnqueueRootHanded, EndHanded, ProgramScannedHanded,
     BeginQueriesHanded, QueryHanded DEF ScanLoop
<1>3. CASE \E w \in ShardWorkers : WorkerStep(w) \/ ShardError(w)
  BY <1>1, <1>3, TakeJobHanded, AnsweredHanded, TooLargeHanded, EnqueueChildHanded, HandleHanded,
     ErrorHanded DEF WorkerStep
<1>4. CASE UNCHANGED solanaVars
  <2>1. UNCHANGED <<venue, scan, jobs, worker, jobWG, firstErr, handled, saved, skipped>>
    BY <1>4 DEF solanaVars
  <2>2. UNCHANGED plan
    BY <2>1, SamePlan
  <2>3. UNCHANGED program
    BY <2>1, <2>2 DEF program
  <2>4. /\ \A a : Settled(a)' <=> Settled(a)
        /\ \A a, i : ProgramIs(a, i)' <=> ProgramIs(a, i)
        /\ \A a, k : Queued(a, k)' <=> Queued(a, k)
        /\ \A a, v : InHands(a, v)' <=> InHands(a, v)
        /\ \A a : AtRoot(a)' <=> AtRoot(a)
    BY <2>1, <2>2 DEF Settled, ProgramIs, Queued, InHands, AtRoot
  <2>5. \A a : ShardsHold(a)' <=> ShardsHold(a)
    BY <2>1, <2>4 DEF ShardsHold, OneShard, Waits
  <2>6. ScanPlace' /\ LaterUntouched' /\ EarlierSettled' /\ ShardsHoldAll' /\ OwnReserves'
    BY <2>1, <2>2, <2>3, <2>4, <2>5
       DEF HandedInv, ScanPlace, LaterUntouched, EarlierSettled, ShardsHoldAll, Sharding, OwnReserves, AccountIds
  <2>7. QueriesHold'
    BY <2>1, <2>3, <2>4 DEF HandedInv, QueriesHold, matching, queryOf, AccountIds
  <2> QED  BY <1>1, <2>6, <2>7 DEF HandedInv
<1> QED  BY <1>2, <1>3, <1>4 DEF SolanaNext

\* The inductive invariant of what the scan hands on holds: every account of the program
\* that is scanned waits in one shard or is settled, those of the programs before are
\* settled unless their own error was logged, and those of the programs to come are untouched.
THEOREM HandedInvariant == SolanaSpec => []HandedInv
  BY HandedInitInv, HandedStepInv, PTL DEF SolanaSpec

\* A scan that returns no error has handed on every account of its programs exactly once,
\* those of a tolerant venue whose error it logged excepted, and no scan hands one on twice, with any number of workers, shards of any fanout and
\* depth, and in any order of splits, answers, errors and cancellation; and every pool comes
\* with the balances of its own vaults, however its keys fell into calls.
THEOREM EachAccountHandedOn == SolanaSpec => []AccountsHandedOn
<1>1. HandedInv => AccountsHandedOn
  <2> SUFFICES ASSUME HandedInv PROVE AccountsHandedOn
    OBVIOUS
  <2>1. ScanPlace /\ EarlierSettled /\ OwnReserves /\ handled \in [AccountIds -> 0..1]
    BY DEF HandedInv, ScanPlace
  <2>2. \A a \in AccountIds : handled[a] <= 1
    BY <2>1
  <2>3. ASSUME scan.step = "done", ~scan.failed, NEW a \in AccountIds \ (skipped \cup Unknown),
               NEW i \in DOMAIN plan.programs \ scan.logged, Accounts[a].program = plan.programs[i],
               Accounts[a].valid,
               venue.tracked => Range(Accounts[a].mints) \cap Range(Mints) # {}
        PROVE  handled[a] = 1
    <3>1. i \in Nat \ scan.logged /\ ProgramIs(a, i)
      <4>1. DOMAIN plan.programs = 1..Len(plan.programs)
        BY <2>1, PlanFacts DEF ScanPlace
      <4> QED  BY <2>3, <4>1 DEF ProgramIs
    <3>2. Settled(a)
      BY <2>1, <2>3, <3>1 DEF EarlierSettled
    <3> QED  BY <2>3, <3>2 DEF Settled
  <2>4. AllAccountsOnce
    BY <2>2, <2>3 DEF AllAccountsOnce
  <2> QED  BY <2>1, <2>4 DEF AccountsHandedOn
<1> QED  BY <1>1, HandedInvariant, PTL

-----------------------------------------------------------------------------
(***************************************************************************)
(* Calls.                                                                  *)
(***************************************************************************)

Call == [step : {"idle", "trying", "ended", "gave_up"}, op : {"none", "contract", "balance", "rpc"},
         attempt : Nat, done : Nat, tried : SUBSET Endpoints, missed : SUBSET Endpoints, alone : BOOLEAN]

RpcTypeOK ==
    /\ next \in Endpoints
    /\ disabled \subseteq Endpoints
    /\ call \in [Callers -> Call]

\* A call that no other overlaps has the counter for itself.
AloneMeansAlone ==
    \A c \in Callers : call[c].step = "trying" /\ call[c].alone =>
        \A d \in Callers \ {c} : call[d].step # "trying"

accountedFor(c) == call[c].tried \cup call[c].missed

\* The counter has gone d endpoints on from s, over endpoints that were asked or
\* disabled, and once with every attempt; or it has been round.
wentOn(c, s, d) ==
    /\ \A k \in 0..(d - 1) : turn(s, k) \in accountedFor(c)
    /\ next = turn(s, d)
    /\ call[c].attempt <= d
    /\ d < NumEndpoints

TurnsAreAsked ==
    \A c \in Callers : call[c].step = "trying" /\ call[c].alone =>
        \/ Endpoints \subseteq accountedFor(c)
        \/ \E s \in Endpoints, d \in Nat : wentOn(c, s, d)

RpcInv == NumEndpoints # 0 => RpcTypeOK /\ AloneMeansAlone /\ TurnsAreAsked /\ GivesUpAfterAll

\* Endpoints in turn, within two rounds.
LEMMA TurnIs ==
    ASSUME NumEndpoints # 0, NEW n \in Endpoints, NEW k \in Nat, k <= NumEndpoints
    PROVE  /\ turn(n, k) \in Endpoints
           /\ n + k < NumEndpoints => turn(n, k) = n + k
           /\ n + k >= NumEndpoints => turn(n, k) = n + k - NumEndpoints
<1>1. /\ NumEndpoints \in Nat /\ n \in Nat /\ n + k \in Nat
      /\ n + k < 2 * NumEndpoints
  BY RpcAssumption DEF Endpoints
<1>2. CASE n + k < NumEndpoints
  <2>1. (n + k) % NumEndpoints = n + k
    BY <1>1, <1>2
  <2> QED  BY <1>1, <1>2, <2>1 DEF turn, Endpoints
<1>3. CASE ~(n + k < NumEndpoints)
  <2> DEFINE x == n + k - NumEndpoints
  <2>1. x \in Nat /\ x < NumEndpoints /\ n + k = x + NumEndpoints
    BY <1>1, <1>3
  <2> HIDE DEF x
  <2>2. (x + NumEndpoints) % NumEndpoints = x
    BY <1>1, <2>1
  <2>3. turn(n, k) = x
    BY <2>1, <2>2 DEF turn
  <2> QED  BY <1>1, <1>3, <2>1, <2>3 DEF Endpoints
<1> QED  BY <1>2, <1>3

\* Going on by a and then by b is going on by a + b.
LEMMA TurnsAdd ==
    ASSUME NumEndpoints # 0, NEW s \in Endpoints, NEW a \in Nat, NEW b \in Nat, a + b < NumEndpoints
    PROVE  turn(turn(s, a), b) = turn(s, a + b)
<1>1. NumEndpoints \in Nat /\ s \in 0..(NumEndpoints - 1) /\ a <= NumEndpoints /\ b <= NumEndpoints /\ a + b \in Nat
      /\ a + b <= NumEndpoints
  BY RpcAssumption DEF Endpoints
<1>2. PICK n \in Endpoints : n = turn(s, a)
  BY <1>1, TurnIs
<1>3. /\ s + a < NumEndpoints => n = s + a
      /\ s + a >= NumEndpoints => n = s + a - NumEndpoints
  BY <1>1, <1>2, TurnIs
<1>4. /\ n + b < NumEndpoints => turn(n, b) = n + b
      /\ n + b >= NumEndpoints => turn(n, b) = n + b - NumEndpoints
  BY <1>1, <1>2, TurnIs
<1>5. /\ s + (a + b) < NumEndpoints => turn(s, a + b) = s + (a + b)
      /\ s + (a + b) >= NumEndpoints => turn(s, a + b) = s + (a + b) - NumEndpoints
  BY <1>1, TurnIs
<1>6. n \in 0..(NumEndpoints - 1)
  BY <1>2 DEF Endpoints
<1> HIDE DEF turn
<1>7. turn(n, b) = turn(s, a + b)
  BY <1>1, <1>3, <1>4, <1>5, <1>6
<1> QED  BY <1>2, <1>7

\* A whole round from anywhere meets every endpoint.
LEMMA RoundMeetsAll ==
    ASSUME NumEndpoints # 0, NEW s \in Endpoints, NEW e \in Endpoints
    PROVE  \E k \in 0..(NumEndpoints - 1) : turn(s, k) = e
<1>1. NumEndpoints \in Nat /\ s \in 0..(NumEndpoints - 1) /\ e \in 0..(NumEndpoints - 1)
  BY RpcAssumption DEF Endpoints
<1>2. PICK k \in 0..(NumEndpoints - 1) : IF e >= s THEN k = e - s ELSE k = e - s + NumEndpoints
  <2>1. CASE e >= s
    <3>1. e - s \in 0..(NumEndpoints - 1)
      BY <1>1, <2>1
    <3> QED  BY <2>1, <3>1
  <2>2. CASE ~(e >= s)
    <3>1. e - s + NumEndpoints \in 0..(NumEndpoints - 1)
      BY <1>1, <2>2
    <3> QED  BY <2>2, <3>1
  <2> QED  BY <2>1, <2>2
<1>3. k \in Nat /\ k <= NumEndpoints
  BY <1>1
<1>4. /\ s + k < NumEndpoints => turn(s, k) = s + k
      /\ s + k >= NumEndpoints => turn(s, k) = s + k - NumEndpoints
  BY <1>3, TurnIs
<1>5. turn(s, k) = e
  BY <1>1, <1>2, <1>3, <1>4
<1> QED  BY <1>5

\* What a call may pick: the endpoint in turn, or one after disabled ones.
picks(p) ==
    \E j \in 0..(NumEndpoints - 1) :
        /\ p.url = turn(next, j)
        /\ p.next = turn(next, j + 1)
        /\ \A i \in 0..(j - 1) : turn(next, i) \in disabled

LEMMA PickedInTurn ==
    ASSUME NumEndpoints # 0, NumEndpoints \in Nat, next \in Endpoints,
           NEW p \in Client \cup endpoint
    PROVE  picks(p) /\ p.url \in Endpoints /\ p.next \in Endpoints
<1>1. turn(next, 0) = next
  BY TurnIs DEF Endpoints
<1>2. picks(p)
  <2>1. CASE p = [url |-> next, next |-> turn(next, 1)]
    <3>1. 0 \in 0..(NumEndpoints - 1) /\ 0..(0 - 1) = {} /\ 0 + 1 = 1
      OBVIOUS
    <3> QED  BY <1>1, <2>1, <3>1 DEF picks
  <2>2. CASE p \in {[url |-> turn(next, k), next |-> turn(next, k + 1)] :
             k \in {k \in 0..(NumEndpoints - 1) : /\ turn(next, k) \notin disabled
                                                 /\ \A j \in 0..(k - 1) : turn(next, j) \in disabled}}
    BY <2>2 DEF picks
  <2> QED  BY <2>1, <2>2 DEF Client, endpoint
<1>3. PICK j \in 0..(NumEndpoints - 1) : p.url = turn(next, j) /\ p.next = turn(next, j + 1)
  BY <1>2 DEF picks
<1>4. j \in Nat /\ j + 1 \in Nat /\ j <= NumEndpoints /\ j + 1 <= NumEndpoints
  OBVIOUS
<1> QED  BY <1>2, <1>3, <1>4, TurnIs

\* The loop of a call goes round, one endpoint or more with every attempt.
LEMMA RoundInv ==
    ASSUME RpcInv, NumEndpoints # 0, NEW c \in Callers,
           NEW picked \in SUBSET (Client \cup endpoint), NEW answers, round(c, picked, answers)
    PROVE  RpcTypeOK' /\ AloneMeansAlone' /\ TurnsAreAsked' /\ GivesUpAfterAll'
<1>1. /\ RpcTypeOK /\ AloneMeansAlone /\ TurnsAreAsked /\ GivesUpAfterAll
      /\ NumEndpoints \in Nat /\ next \in Endpoints /\ call[c] \in Call /\ disabled \subseteq Endpoints
  BY RpcAssumption DEF RpcInv, RpcTypeOK
<1>2. PICK p \in picked, answer \in answers :
         /\ next' = p.next
         /\ disabled' = disableEndpoint(p.url, answer)
         /\ call' = [call EXCEPT ![c] = afterAttempt(call[c], p.url, answer, disabled')]
  BY DEF round
<1>3. picks(p) /\ p.url \in Endpoints /\ p.next \in Endpoints
  BY <1>1, PickedInTurn
<1>4. disabled \subseteq disabled' /\ disabled' \subseteq Endpoints
  BY <1>1, <1>2, <1>3 DEF disableEndpoint
<1>5. PICK x : x = afterAttempt(call[c], p.url, answer, disabled')
  BY Zenon
<1>6. /\ x \in Call /\ x.alone = call[c].alone /\ x.attempt = call[c].attempt + 1
      /\ x.tried = call[c].tried \cup {p.url} /\ x.missed = call[c].missed \cup disabled'
      /\ x.step = "gave_up" => outOfAttempts(call[c].attempt)
  <2>1. PICK old \in Call : old = call[c]
    BY <1>1
  <2>2. PICK over \in BOOLEAN : over <=> outOfAttempts(old.attempt)
    OBVIOUS
  <2>3. PICK step : step = IF answer \in {"ok", "fatal"} THEN "ended" ELSE IF outOfAttempts(old.attempt) THEN "gave_up" ELSE "trying"
    BY Zenon
  <2>4. step \in {"ended", "gave_up", "trying"} /\ (step = "gave_up" => outOfAttempts(old.attempt))
    BY <2>2, <2>3
  <2>5. x = [old EXCEPT !.tried = @ \cup {p.url}, !.missed = @ \cup disabled', !.attempt = @ + 1, !.step = step]
    BY <1>5, <2>1, <2>3 DEF afterAttempt
  <2>6. old.tried \cup {p.url} \in SUBSET Endpoints /\ old.missed \cup disabled' \in SUBSET Endpoints
        /\ old.attempt + 1 \in Nat
    BY <1>3, <1>4, <2>1 DEF Call
  <2> QED  BY <2>1, <2>4, <2>5, <2>6 DEF Call
<1>7. call' = [call EXCEPT ![c] = x] /\ call[c].step = "trying"
  BY <1>2, <1>5 DEF round
<1>8. RpcTypeOK'
  BY <1>1, <1>2, <1>3, <1>4, <1>6, <1>7 DEF RpcTypeOK
<1>9. AloneMeansAlone'
  BY <1>1, <1>6, <1>7 DEF AloneMeansAlone, RpcTypeOK
<1>10. \A d \in Callers \ {c} : call'[d] = call[d]
  BY <1>1, <1>7 DEF RpcTypeOK
<1>11. call'[c] = x /\ call[c].tried \subseteq x.tried /\ call[c].missed \subseteq x.missed /\ call[c].attempt \in Nat
  BY <1>1, <1>6, <1>7 DEF RpcTypeOK, Call
<1>12. ASSUME call[c].alone
       PROVE  \/ Endpoints \subseteq x.tried \cup x.missed
              \/ \E s \in Endpoints, d \in Nat : wentOn(c, s, d)'
  <2>1. CASE Endpoints \subseteq accountedFor(c)
    BY <1>11, <2>1 DEF accountedFor
  <2>2. CASE \E s \in Endpoints, d \in Nat : wentOn(c, s, d)
    <3>1. PICK s \in Endpoints, d \in Nat : wentOn(c, s, d)
      BY <2>2
    <3>2. PICK j \in 0..(NumEndpoints - 1) : /\ p.url = turn(next, j)
                                            /\ p.next = turn(next, j + 1)
                                            /\ \A i \in 0..(j - 1) : turn(next, i) \in disabled
      BY <1>3 DEF picks
    <3>3. \A k \in Nat : k <= d + j /\ k < NumEndpoints => turn(s, k) \in x.tried \cup x.missed
      <4> SUFFICES ASSUME NEW k \in Nat, k <= d + j, k < NumEndpoints
                   PROVE  turn(s, k) \in x.tried \cup x.missed
        OBVIOUS
      <4>1. CASE k < d
        <5>1. k \in 0..(d - 1)
          BY <4>1
        <5> QED  BY <1>11, <3>1, <5>1 DEF wentOn, accountedFor
      <4>2. CASE ~(k < d)
        <5>1. PICK i \in Nat : i = k - d /\ d + i = k /\ i <= j
          BY <4>2
        <5>2. turn(next, i) = turn(s, k)
          BY <3>1, <5>1, TurnsAdd DEF wentOn
        <5>3. CASE i = j
          BY <1>6, <3>2, <5>2, <5>3
        <5>4. CASE i # j
          <6>1. i \in 0..(j - 1)
            BY <5>1, <5>4
          <6> QED  BY <1>4, <1>6, <3>2, <5>2, <6>1
        <5> QED  BY <5>3, <5>4
      <4> QED  BY <4>1, <4>2
    <3>4. CASE d + j + 1 >= NumEndpoints
      <4> SUFFICES ASSUME NEW e \in Endpoints
                   PROVE  e \in x.tried \cup x.missed
        OBVIOUS
      <4>1. PICK k \in 0..(NumEndpoints - 1) : turn(s, k) = e
        BY RoundMeetsAll
      <4>2. k \in Nat /\ k <= d + j /\ k < NumEndpoints
        BY <1>1, <3>4
      <4> QED  BY <3>3, <4>1, <4>2
    <3>5. CASE ~(d + j + 1 >= NumEndpoints)
      <4> DEFINE n == d + (j + 1)
      <4>1. n \in Nat /\ n < NumEndpoints /\ j + 1 \in Nat
        BY <1>1, <3>5
      <4>2. next' = turn(s, n)
        BY <1>2, <3>1, <3>2, <4>1, TurnsAdd DEF wentOn
      <4>3. call'[c].attempt <= n
        BY <1>6, <1>11, <3>1 DEF wentOn
      <4>4. \A k \in 0..(n - 1) : turn(s, k) \in call'[c].tried \cup call'[c].missed
        BY <1>1, <1>11, <3>3, <4>1
      <4> HIDE DEF n
      <4>5. wentOn(c, s, n)'
        BY <4>1, <4>2, <4>3, <4>4 DEF wentOn, accountedFor, turn
      <4> QED  BY <4>1, <4>5
    <3> QED  BY <3>4, <3>5
  <2> QED  BY <1>1, <1>7, <1>12, <2>1, <2>2 DEF TurnsAreAsked
<1>13. TurnsAreAsked'
  <2> SUFFICES ASSUME NEW d \in Callers, call'[d].step = "trying", call'[d].alone
               PROVE  \/ Endpoints \subseteq accountedFor(d)'
                      \/ \E s \in Endpoints, n \in Nat : wentOn(d, s, n)'
    BY DEF TurnsAreAsked, Endpoints
  <2>1. CASE d = c
    BY <1>6, <1>11, <1>12, <2>1 DEF accountedFor
  <2>2. CASE d # c
    BY <1>1, <1>7, <1>10, <2>2 DEF AloneMeansAlone
  <2> QED  BY <2>1, <2>2
<1>14. GivesUpAfterAll'
  <2> SUFFICES ASSUME NEW d \in Callers, call'[d].step = "gave_up", call'[d].alone
               PROVE  Endpoints \subseteq call'[d].tried \cup call'[d].missed
    BY DEF GivesUpAfterAll, Endpoints
  <2>1. CASE d = c
    <3>1. ASSUME NEW s \in Endpoints, NEW n \in Nat, wentOn(c, s, n)'
          PROVE  FALSE
      <4>1. call[c].attempt + 1 <= n /\ n < NumEndpoints
        BY <1>6, <1>11, <3>1 DEF wentOn
      <4>2. call[c].attempt + 1 >= 3 * NumEndpoints
        BY <1>6, <1>11, <2>1 DEF outOfAttempts, attempts
      <4> QED  BY <1>1, <1>11, <4>1, <4>2
    <3> QED  BY <1>6, <1>11, <1>12, <2>1, <3>1
  <2>2. CASE d # c
    BY <1>1, <1>10, <2>2 DEF GivesUpAfterAll
  <2> QED  BY <2>1, <2>2
<1> QED  BY <1>8, <1>9, <1>13, <1>14

\* A call starts, which ends the solitude of those under way.
LEMMA BeginCallInv ==
    ASSUME RpcInv, NumEndpoints # 0, NEW c \in Callers, Begin(c)
    PROVE  RpcTypeOK' /\ AloneMeansAlone' /\ TurnsAreAsked' /\ GivesUpAfterAll'
<1>1. /\ RpcTypeOK /\ AloneMeansAlone /\ TurnsAreAsked /\ GivesUpAfterAll
      /\ NumEndpoints \in Nat /\ next \in Endpoints /\ call \in [Callers -> Call] /\ disabled \subseteq Endpoints
  BY RpcAssumption DEF RpcInv, RpcTypeOK
<1> DEFINE others == {d \in Callers \ {c} : call[d].step = "trying"}
<1>3. PICK op \in operations :
         call' = [d \in Callers |->
              IF d = c THEN [NoCall EXCEPT !.step = "trying", !.op = op, !.done = call[c].done,
                                           !.missed = disabled, !.alone = (others = {})]
              ELSE IF d \in others THEN [call[d] EXCEPT !.alone = FALSE] ELSE call[d]]
  BY Zenon DEF Begin
<1>2. \A d : d \in others <=> d \in Callers \ {c} /\ call[d].step = "trying"
  OBVIOUS
<1> HIDE DEF others
<1>4. UNCHANGED <<next, disabled>>
  BY DEF Begin
<1>5. PICK solitary \in BOOLEAN : solitary <=> others = {}
  OBVIOUS
<1>6. PICK x : x = [NoCall EXCEPT !.step = "trying", !.op = op, !.done = call[c].done,
                                           !.missed = disabled, !.alone = (others = {})]
  BY Zenon
<1>7. /\ x.step = "trying" /\ x.attempt = 0 /\ (x.alone <=> others = {})
      /\ x.op = op /\ x.done = call[c].done /\ x.tried = {} /\ x.missed = disabled
      /\ x \in Call
  <2>1. op \in {"none", "contract", "balance", "rpc"} /\ call[c].done \in Nat /\ (others = {}) \in BOOLEAN
    BY <1>1 DEF operations, Call
  <2> QED  BY <1>1, <1>6, <2>1 DEF NoCall, Call
<1>8. /\ call'[c] = x
      /\ \A d \in Callers \ {c} :
            /\ call'[d] \in Call
            /\ call'[d].step = call[d].step
            /\ call'[d].tried = call[d].tried /\ call'[d].missed = call[d].missed
            /\ call'[d].attempt = call[d].attempt
            /\ call[d].step = "trying" => ~call'[d].alone
            /\ call[d].step # "trying" => call'[d] = call[d]
  BY <1>1, <1>2, <1>3, <1>6 DEF Call
<1>9. RpcTypeOK'
  BY <1>1, <1>3, <1>4, <1>6, <1>7, <1>8 DEF RpcTypeOK
<1>10. AloneMeansAlone'
  BY <1>2, <1>7, <1>8 DEF AloneMeansAlone
<1>11. TurnsAreAsked'
  <2>1. wentOn(c, next, 0)'
    <3>1. turn(next, 0) = next
      BY <1>1, TurnIs DEF Endpoints
    <3>2. 0..(0 - 1) = {}
      OBVIOUS
    <3> QED  BY <1>1, <1>4, <1>7, <1>8, <3>1, <3>2 DEF wentOn, turn
  <2>2. \E s \in Endpoints, n \in Nat : wentOn(c, s, n)'
    BY <1>1, <1>4, <2>1
  <2> SUFFICES ASSUME NEW d \in Callers, call'[d].step = "trying", call'[d].alone
               PROVE  \/ Endpoints \subseteq accountedFor(d)'
                      \/ \E s \in Endpoints, n \in Nat : wentOn(d, s, n)'
    BY DEF TurnsAreAsked, Endpoints
  <2> QED  BY <1>8, <2>2
<1>12. GivesUpAfterAll'
  BY <1>1, <1>7, <1>8 DEF GivesUpAfterAll, Endpoints
<1> QED  BY <1>9, <1>10, <1>11, <1>12

\* The result is taken, and an endpoint's cooldown passes.
LEMMA OtherCallInv ==
    ASSUME RpcInv, NumEndpoints # 0,
           \/ \E c \in Callers : Return(c)
           \/ \E e \in Endpoints : CooldownEnds(e)
           \/ UNCHANGED rpcVars
    PROVE  RpcTypeOK' /\ AloneMeansAlone' /\ TurnsAreAsked' /\ GivesUpAfterAll'
<1>1. /\ RpcTypeOK /\ AloneMeansAlone /\ TurnsAreAsked /\ GivesUpAfterAll
      /\ NumEndpoints \in Nat /\ next \in Endpoints /\ call \in [Callers -> Call] /\ disabled \subseteq Endpoints
  BY RpcAssumption DEF RpcInv, RpcTypeOK
<1>2. CASE \E c \in Callers : Return(c)
  <2>1. PICK c \in Callers : Return(c)
    BY <1>2
  <2>2. PICK x : x = [NoCall EXCEPT !.done = call[c].done + 1]
    BY Zenon
  <2>3. x \in Call /\ x.step = "idle"
    <3>1. call[c].done + 1 \in Nat
      BY <1>1 DEF Call
    <3> QED  BY <2>2, <3>1 DEF NoCall, Call
  <2>4. call' = [call EXCEPT ![c] = x] /\ UNCHANGED <<next, disabled>>
    BY <2>1, <2>2 DEF Return
  <2>5. RpcTypeOK' /\ AloneMeansAlone' /\ GivesUpAfterAll'
    BY <1>1, <2>3, <2>4 DEF RpcTypeOK, AloneMeansAlone, GivesUpAfterAll, Endpoints
  <2>6. \A d \in Callers : call'[d].step = "trying" => call'[d] = call[d]
    BY <1>1, <2>3, <2>4
  <2>7. TurnsAreAsked'
    BY <1>1, <2>4, <2>6 DEF TurnsAreAsked, wentOn, accountedFor, turn, Endpoints
  <2> QED  BY <2>5, <2>7
<1>3. CASE ~\E c \in Callers : Return(c)
  <2>1. UNCHANGED <<next, call>> /\ disabled' \subseteq disabled
    BY <1>3 DEF CooldownEnds, rpcVars
  <2> QED
    BY <1>1, <2>1 DEF RpcTypeOK, AloneMeansAlone, TurnsAreAsked, GivesUpAfterAll, wentOn,
                      accountedFor, turn, Endpoints
<1> QED  BY <1>2, <1>3

\* A call that gives up alone has asked every endpoint that was not disabled meanwhile,
\* for every number of endpoints and whatever the calls before left of the counter.
THEOREM CallsAskAll == RpcSpec => []GivesUpAfterAll
<1>1. RpcInit => RpcInv
  <2> SUFFICES ASSUME RpcInit, NumEndpoints # 0
               PROVE  RpcTypeOK /\ AloneMeansAlone /\ TurnsAreAsked /\ GivesUpAfterAll
    BY DEF RpcInv
  <2>1. NoCall \in Call /\ NoCall.step = "idle" /\ 0 \in Endpoints
    BY RpcAssumption DEF NoCall, Call, Endpoints
  <2> QED  BY <2>1 DEF RpcInit, RpcTypeOK, AloneMeansAlone, TurnsAreAsked, GivesUpAfterAll
<1>2. RpcInv /\ [RpcNext]_rpcVars => RpcInv'
  <2> SUFFICES ASSUME RpcInv, [RpcNext]_rpcVars, NumEndpoints # 0
               PROVE  RpcTypeOK' /\ AloneMeansAlone' /\ TurnsAreAsked' /\ GivesUpAfterAll'
    BY DEF RpcInv
  <2>1. ASSUME NEW c \in Callers, CallContract(c) \/ BalanceAt(c) \/ RPCCall(c)
        PROVE  RpcTypeOK' /\ AloneMeansAlone' /\ TurnsAreAsked' /\ GivesUpAfterAll'
    <3>1. \/ round(c, Client, evmAnswers)
          \/ round(c, endpoint, solanaAnswers)
      BY <2>1 DEF CallContract, BalanceAt, RPCCall
    <3>2. Client \subseteq Client \cup endpoint /\ endpoint \subseteq Client \cup endpoint
      OBVIOUS
    <3> QED  BY <3>1, <3>2, RoundInv
  <2> QED  BY <2>1, BeginCallInv, OtherCallInv DEF RpcNext
<1>3. RpcInv => GivesUpAfterAll
  <2>1. CASE NumEndpoints = 0
    <3>1. Endpoints = {}
      BY <2>1 DEF Endpoints
    <3> QED  BY <3>1 DEF GivesUpAfterAll
  <2>2. CASE NumEndpoints # 0
    BY <2>2 DEF RpcInv
  <2> QED  BY <2>1, <2>2
<1> QED  BY <1>1, <1>2, <1>3, PTL DEF RpcSpec
=============================================================================
