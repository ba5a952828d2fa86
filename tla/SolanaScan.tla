----------------------------- MODULE SolanaScan -----------------------------
(***************************************************************************)
(* The scan of a Solana venue.  A full scan asks each program for its      *)
(* accounts in shards: a shard is a prefix of the bytes at the offset of   *)
(* the first token, a pool of workers takes shards from a bounded channel, *)
(* and a worker whose shard is too large for the endpoint puts the shards  *)
(* below it into the same channel.  A tracked scan asks for the accounts   *)
(* of each registered mint, one query after the other.                     *)
(***************************************************************************)
EXTENDS Naturals, Sequences, FiniteSets, SequencesExt

CONSTANTS
    SolanaVenues,  \* the venue keys a run looks at
    Accounts,      \* account -> [program, key, mints, vaults, valid, priced]: key is the bytes
                   \* the shards split; valid: of the expected size and type
    Balances,      \* vault -> amount
    Unknown,       \* accounts and vaults the endpoint has no data for
    KeysPerCall,   \* 100: keys of one getMultipleAccounts
    Mints,         \* solanaAssetMints: a sequence
    ShardFanout,   \* 256: children of a shard
    MaxShardDepth, \* maxShardDepth
    JobsCap,       \* capacity of the channel jobs: 65536
    ShardWorkers,  \* programShardConcurrency goroutines
    ScanLimit,     \* every endpoint answers a shard with this many accounts
    SolanaFaults   \* errors of calls other than the limit (bound)

ASSUME SolanaAssumption ==
    /\ IsFiniteSet(ShardWorkers)
    /\ ShardFanout \in Nat \ {0}
    /\ MaxShardDepth \in Nat \ {0}
    /\ JobsCap \in Nat \ {0}
    /\ SolanaFaults \in Nat

ASSUME SolanaAccountsAssumption ==
    /\ KeysPerCall \in Nat \ {0}
    /\ SolanaVenues \subseteq {"orca", "orca_configs", "raydium", "meteora", "unsupported"}
    /\ IsFiniteSet(DOMAIN Accounts)
    /\ \A a \in DOMAIN Accounts :
          /\ Accounts[a].key \in Seq(0..(ShardFanout - 1)) /\ Len(Accounts[a].key) >= MaxShardDepth
          /\ DOMAIN Accounts[a].mints = 1..2
          /\ Accounts[a].vaults \in [1..2 -> DOMAIN Balances]
          /\ Accounts[a].valid \in BOOLEAN
    /\ Mints \in Seq(Range(Mints))

VARIABLES
    venue,    \* Scanner.venueKey, and whether the scan is tracked
    scan,     \* the goroutine that runs the scan
    jobs,     \* the channel
    worker,   \* the goroutines of StreamProgramAccountPubkeysSharded
    jobWG,    \* the counter of the wait group
    closed,   \* close(jobs) was called
    firstErr, \* set once; it also cancels scanCtx
    handled,  \* how often the handler got an account: 0, 1 or 2 (often)
    saved,    \* the pools the handler got: [id, pool]
    counted,  \* totalScanned > 0: a call of the handler without an error got a pool
    skipped,  \* history: accounts of shards and queries given up after retries
    expanded, \* history: how many shards of the program were split
    solanaFaults

solanaVars == <<venue, scan, jobs, worker, jobWG, closed, firstErr, handled, saved, counted, skipped,
                expanded, solanaFaults>>

AccountIds == DOMAIN Accounts
Programs == {"whirlpool", "config1", "config2", "clmm", "cpmm", "amm", "dlmm"}
Bytes == 0..(ShardFanout - 1)

-----------------------------------------------------------------------------
(* The programs of a venue, whether an error of one of them is only        *)
(* logged, so that the scan goes on with the next, and whether a full scan *)
(* without a pool is an error.                                             *)

scanOrca == [programs |-> <<"whirlpool">>, tolerant |-> FALSE, mustFind |-> TRUE]

\* With configured accounts, one query for each of them.
scanOrcaConfigs == [programs |-> <<"config1", "config2">>, tolerant |-> TRUE, mustFind |-> TRUE]

scanRaydium == [programs |-> <<"clmm", "cpmm", "amm">>, tolerant |-> TRUE, mustFind |-> TRUE]

scanMeteora == [programs |-> <<"dlmm">>, tolerant |-> FALSE, mustFind |-> FALSE]

plan ==
    CASE venue.key = "orca" -> scanOrca
      [] venue.key = "orca_configs" -> scanOrcaConfigs
      [] venue.key = "raydium" -> scanRaydium
      [] venue.key = "meteora" -> scanMeteora
      [] venue.key = "unsupported" -> [programs |-> << >>, tolerant |-> FALSE, mustFind |-> FALSE]

program == plan.programs[scan.at]

\* appendShardFilter: the accounts of a program whose bytes start with the prefix.
inShard(prefix) ==
    {a \in AccountIds : Accounts[a].program = program /\ IsPrefix(prefix, Accounts[a].key)}

NoJob == [step |-> "idle", prefix |-> << >>, child |-> 0]

SolanaInit ==
    /\ venue \in [key : SolanaVenues, tracked : BOOLEAN]
    /\ scan = [step |-> IF plan.programs = << >> THEN "done" ELSE "program",
               at |-> 1, next |-> 0, seen |-> {}, failed |-> plan.programs = << >>,
               logged |-> {}]  \* history: the places in the plan whose error was only logged
    /\ jobs = << >>
    /\ worker = [w \in ShardWorkers |-> NoJob]
    /\ jobWG = 0
    /\ closed = FALSE
    /\ firstErr = FALSE
    /\ handled = [a \in AccountIds |-> 0]
    /\ saved = {}
    /\ counted = FALSE
    /\ skipped = {}
    /\ expanded = 0
    /\ solanaFaults = 0

shardVars == <<jobs, worker, jobWG, closed, firstErr, expanded>>

solanaFault == solanaFaults < SolanaFaults /\ solanaFaults' = solanaFaults + 1

-----------------------------------------------------------------------------
(* From the keys of accounts to pools.                                     *)

chunks(s) ==
    LET end(start) == IF start + KeysPerCall > Len(s) THEN Len(s) ELSE start + KeysPerCall
    IN  {SubSeq(s, start + 1, end(start)) :
            start \in {i * KeysPerCall : i \in 0..Len(s)} \cap 0..(Len(s) - 1)}

\* External: the answer has a place for every key, empty for one without data.
getMultipleAccounts(keys) == [i \in DOMAIN keys |-> {keys[i]} \ Unknown]

\* The keys that have an answer, with it.
keysAnswered(keys) ==
    LET answer == getMultipleAccounts(keys)
    IN  UNION {{keys[i]} \X answer[i] : i \in DOMAIN keys}

GetAccounts(keys) == UNION {keysAnswered(chunk) : chunk \in chunks(keys)}

GetTokenAccountAmounts(keys) ==
    {<<kd[1], Balances[kd[2]]>> : kd \in UNION {keysAnswered(chunk) : chunk \in chunks(keys)}}

poolOf(data, kind, hasPrice) ==
    IF data.valid THEN {[kind |-> kind, price |-> hasPrice, vaults |-> data.vaults, reserves |-> <<0, 0>>]}
    ELSE {}

parseOrcaWhirlpool(data) == poolOf(data, "clmm", TRUE)
parseRaydiumCLMM(data) == poolOf(data, "clmm", TRUE)
parseRaydiumCPMM(data) == poolOf(data, "v2", FALSE)
parseRaydiumAMM(data) == poolOf(data, "v2", FALSE)

\* No price without a bin step, or when the power leaves the range of a float.
meteoraSqrtPriceX96(data) == data.priced
parseMeteoraLbPair(data) == poolOf(data, "clmm", meteoraSqrtPriceX96(data))

parse(pr, data) ==
    CASE pr \in {"whirlpool", "config1", "config2"} -> parseOrcaWhirlpool(data)
      [] pr = "clmm" -> parseRaydiumCLMM(data)
      [] pr = "cpmm" -> parseRaydiumCPMM(data)
      [] pr = "amm" -> parseRaydiumAMM(data)
      [] pr = "dlmm" -> parseMeteoraLbPair(data)

\* A vault without an amount leaves its reserve at zero.
fillVaultBalances(found) ==
    LET amounts == GetTokenAccountAmounts(SetToSeq(UNION {Range(f.pool.vaults) : f \in found}))
        reserve(v) == LET of == {a \in amounts : a[1] = v}
                      IN  IF of = {} THEN 0 ELSE (CHOOSE a \in of : TRUE)[2]
    IN  {[f EXCEPT !.pool.reserves = <<reserve(f.pool.vaults[1]), reserve(f.pool.vaults[2])>>] : f \in found}

streamProgramAccounts(pr, found) ==
    fillVaultBalances(UNION {{[id |-> kd[1], pool |-> pool] : pool \in parse(pr, Accounts[kd[2]])}
                                : kd \in found})

\* Which pools come of which keys of a program, when their accounts are loaded and parsed.
streamProgramAccountPubkeys ==
    UNION {{[program |-> pr, keys |-> keys,
             pools |-> streamProgramAccounts(pr, GetAccounts(SetToSeq(keys)))]
                : keys \in SUBSET {a \in AccountIds : Accounts[a].program = pr}} : pr \in Programs}

\* The pools count only when the call returns without an error.
handTo(keys, ok) ==
    \E call \in streamProgramAccountPubkeys :
      /\ call.program = program /\ call.keys = keys
      /\ LET ids == {f.id : f \in call.pools}
         IN  handled' = [a \in AccountIds |-> IF a \in ids /\ handled[a] < 2
                                              THEN handled[a] + 1 ELSE handled[a]]
      /\ saved' = saved \cup call.pools
      /\ counted' = (counted \/ (ok /\ call.pools # {}))

-----------------------------------------------------------------------------
(* StreamProgramAccountPubkeysSharded.                                     *)

\* Mutant: the channel holds no more than the first shards.
roomForRoots == Len(jobs) < ShardFanout

room == Len(jobs) < JobsCap

\* A send waits for room; a canceled scan gives up instead.
enqueue(prefix) ==
    /\ room
    /\ jobs' = Append(jobs, prefix)

BeginShards ==
    /\ scan.step = "program" /\ ~venue.tracked
    /\ scan' = [scan EXCEPT !.step = "roots", !.next = 0]
    /\ closed' = FALSE /\ firstErr' = FALSE /\ expanded' = 0
    /\ UNCHANGED <<venue, jobs, worker, jobWG, handled, saved, counted, skipped, solanaFaults>>

EnqueueRoot ==
    /\ scan.step = "roots"
    /\ ~firstErr
    /\ enqueue(<<scan.next>>)
    /\ jobWG' = jobWG + 1
    /\ scan' = [scan EXCEPT !.next = @ + 1,
                            !.step = IF scan.next + 1 = ShardFanout THEN "wait" ELSE "roots"]
    /\ UNCHANGED <<venue, worker, closed, firstErr, handled, saved, counted, skipped, expanded, solanaFaults>>

RootsCanceled ==
    /\ scan.step = "roots"
    /\ firstErr
    /\ scan' = [scan EXCEPT !.step = "wait"]
    /\ UNCHANGED <<venue, handled, saved, counted, skipped, solanaFaults>> /\ UNCHANGED shardVars

TakeJob(w) ==
    /\ worker[w].step = "idle"
    /\ jobs # << >>
    /\ jobs' = Tail(jobs)
    /\ IF firstErr THEN jobWG' = jobWG - 1 /\ UNCHANGED worker
       ELSE /\ worker' = [worker EXCEPT ![w] = [NoJob EXCEPT !.step = "query", !.prefix = Head(jobs)]]
            /\ UNCHANGED jobWG
    /\ UNCHANGED <<venue, scan, closed, firstErr, handled, saved, counted, skipped, expanded, solanaFaults>>

jobDone(w) ==
    /\ worker' = [worker EXCEPT ![w] = NoJob]
    /\ jobWG' = jobWG - 1

\* The answer: all accounts of the shard.
ShardAnswered(w) ==
    /\ worker[w].step = "query"
    /\ IF inShard(worker[w].prefix) = {} THEN jobDone(w)
       ELSE worker' = [worker EXCEPT ![w].step = "handle"] /\ UNCHANGED jobWG
    /\ UNCHANGED <<venue, scan, jobs, closed, firstErr, handled, saved, counted, skipped, expanded, solanaFaults>>

\* Mutant: the shard counts as done before its children are in the channel.
splitShardDone(w) ==
    /\ worker' = [worker EXCEPT ![w].step = "expand", ![w].child = 0]
    /\ jobWG' = jobWG - 1

splitShard(w) ==
    /\ worker' = [worker EXCEPT ![w].step = "expand", ![w].child = 0]
    /\ UNCHANGED jobWG

\* The endpoint refuses to answer: the shard is split, or cannot be split further.
ShardTooLarge(w) ==
    /\ worker[w].step = "query"
    /\ Cardinality(inShard(worker[w].prefix)) > ScanLimit
    /\ IF Len(worker[w].prefix) < MaxShardDepth
       THEN /\ splitShard(w)
            /\ expanded' = expanded + 1
            /\ UNCHANGED firstErr
       ELSE /\ jobDone(w)
            /\ firstErr' = TRUE
            /\ UNCHANGED expanded
    /\ UNCHANGED <<venue, scan, jobs, closed, handled, saved, counted, skipped, solanaFaults>>

\* An error that the retries did not cure leaves the shard out; any other ends the scan.
ShardError(w) ==
    /\ worker[w].step = "query"
    /\ solanaFault
    /\ \/ skipped' = skipped \cup inShard(worker[w].prefix) /\ UNCHANGED firstErr
       \/ firstErr' = TRUE /\ UNCHANGED skipped
    /\ jobDone(w)
    /\ UNCHANGED <<venue, scan, jobs, closed, handled, saved, counted, expanded>>

\* Mutant: the last child is left out.
lastChildShort == ShardFanout - 2

lastChild == ShardFanout - 1

EnqueueChild(w) ==
    /\ worker[w].step = "expand"
    /\ IF firstErr THEN jobDone(w) /\ UNCHANGED jobs
       ELSE /\ enqueue(Append(worker[w].prefix, worker[w].child))
            /\ IF worker[w].child = lastChild
               THEN worker' = [worker EXCEPT ![w] = NoJob] /\ UNCHANGED jobWG
               ELSE worker' = [worker EXCEPT ![w].child = @ + 1] /\ jobWG' = jobWG + 1
    /\ UNCHANGED <<venue, scan, closed, firstErr, handled, saved, counted, skipped, expanded, solanaFaults>>

HandleShard(w) ==
    /\ worker[w].step = "handle"
    /\ \/ handTo(inShard(worker[w].prefix), TRUE) /\ UNCHANGED <<firstErr, solanaFaults>>
       \/ /\ solanaFault /\ firstErr' = TRUE
          /\ \E part \in SUBSET inShard(worker[w].prefix) : handTo(part, FALSE)
    /\ jobDone(w)
    /\ UNCHANGED <<venue, scan, jobs, closed, skipped, expanded>>

\* After the wait the channel is closed, the workers end, and the first error is the
\* result of the program.
EndShards ==
    /\ scan.step = "wait"
    /\ jobWG = 0
    /\ closed' = TRUE
    /\ scan' = [scan EXCEPT !.step = "joined"]
    /\ UNCHANGED <<venue, jobs, worker, jobWG, firstErr, handled, saved, counted, skipped, expanded, solanaFaults>>

returnsNoPools == plan.mustFind /\ ~venue.tracked /\ ~counted

\* An error ends the scan of a venue that is not tolerant; a tolerant one logs it and, when
\* the last program is done, fails only if a full scan counted no pool at all.
nextProgram(err) ==
    LET ends == scan.at = Len(plan.programs) \/ (err /\ ~plan.tolerant)
    IN  [scan EXCEPT !.next = 0, !.seen = {},
            !.logged = IF err /\ plan.tolerant THEN @ \cup {scan.at} ELSE @,
            !.failed = @ \/ (err /\ ~plan.tolerant) \/ (ends /\ returnsNoPools),
            !.at = IF ends THEN @ ELSE @ + 1,
            !.step = IF ends THEN "done" ELSE "program"]

ProgramScanned ==
    /\ scan.step = "joined"
    /\ \A w \in ShardWorkers : worker[w].step = "idle"
    /\ scan' = nextProgram(firstErr)
    /\ UNCHANGED <<venue, handled, saved, counted, skipped, solanaFaults>> /\ UNCHANGED shardVars

-----------------------------------------------------------------------------
(* scanProgramForMints: query number n is about one mint and one of the    *)
(* two offsets.                                                            *)

queryOf(n) == [mint |-> Mints[(n \div 2) + 1], side |-> (n % 2) + 1]

matching(q) ==
    {a \in AccountIds : Accounts[a].program = program /\ Accounts[a].mints[q.side] = q.mint}

unique(found) == found \ scan.seen

BeginQueries ==
    /\ scan.step = "program" /\ venue.tracked
    /\ scan' = IF Mints = << >> THEN nextProgram(FALSE) ELSE [scan EXCEPT !.step = "queries"]
    /\ UNCHANGED <<venue, handled, saved, counted, skipped, solanaFaults>> /\ UNCHANGED shardVars

afterQuery(seen) ==
    IF scan.next + 1 = 2 * Len(Mints) THEN nextProgram(FALSE)
    ELSE [scan EXCEPT !.next = @ + 1, !.seen = seen]

scanProgramForMints ==
    /\ scan.step = "queries"
    /\ handTo(unique(matching(queryOf(scan.next))), TRUE)
    /\ scan' = afterQuery(scan.seen \cup matching(queryOf(scan.next)))
    /\ UNCHANGED <<venue, skipped, solanaFaults>> /\ UNCHANGED shardVars

QueryError ==
    /\ scan.step = "queries"
    /\ solanaFault
    /\ \/ /\ skipped' = skipped \cup matching(queryOf(scan.next))
          /\ scan' = afterQuery(scan.seen)
          /\ UNCHANGED <<handled, saved, counted>>
       \/ /\ scan' = nextProgram(TRUE)
          /\ \E part \in SUBSET unique(matching(queryOf(scan.next))) : handTo(part, FALSE)
          /\ UNCHANGED skipped
    /\ UNCHANGED venue /\ UNCHANGED shardVars

-----------------------------------------------------------------------------
WorkerStep(w) ==
    TakeJob(w) \/ ShardAnswered(w) \/ ShardTooLarge(w) \/ EnqueueChild(w) \/ HandleShard(w)

ScanLoop ==
    \/ BeginShards \/ EnqueueRoot \/ RootsCanceled \/ EndShards \/ ProgramScanned
    \/ BeginQueries \/ scanProgramForMints

SolanaNext ==
    \/ ScanLoop \/ QueryError
    \/ \E w \in ShardWorkers : WorkerStep(w) \/ ShardError(w)

-----------------------------------------------------------------------------
(* Properties.                                                             *)

\* jobs is closed only when nobody can send on it or has work left: the wait group
\* covers a split shard until its last child is in the channel.
ClosedWhenIdle ==
    closed => jobs = << >> /\ \A w \in ShardWorkers : worker[w].step = "idle"

\* A scan that returns no error has handed on every account of the programs it completed
\* exactly once, however their shards were split and in whatever order they came; a tracked
\* one every account with a registered mint.  Missing without an error returned are the
\* shards skipped after retries and, at Raydium and at Orca with configured accounts, what
\* was left of a program whose error was only logged; even of those nothing comes twice.
AllAccountsOnce ==
    /\ scan.step = "done" /\ ~scan.failed =>
          \A a \in AccountIds \ (skipped \cup Unknown), i \in DOMAIN plan.programs \ scan.logged :
             Accounts[a].program = plan.programs[i] /\ Accounts[a].valid
             /\ (venue.tracked => Range(Accounts[a].mints) \cap Range(Mints) # {})
                => handled[a] = 1
    /\ \A a \in AccountIds : handled[a] <= 1

\* Whatever the endpoint leaves out of an answer, and however the keys fall into calls,
\* a pool is handed on with the balances of its own vaults; one the endpoint does not
\* know counts as empty.
OwnReserves ==
    \A f \in saved : \A i \in 1..2 :
        LET vault == Accounts[f.id].vaults[i]
        IN  f.pool.reserves[i] = IF vault \in Unknown THEN 0 ELSE Balances[vault]

\* Every scan ends, with errors, cancellation and splits, as long as the children of all
\* refused shards fit into the channel; beyond that (256 shards with 256 children in 65536
\* places) all workers may wait for room in the channel that only they empty.
ScanEnds == <>(scan.step = "done" \/ expanded >= JobsCap \div ShardFanout)

\* What a scan of several shards, batches and goroutines hands on is what the chain has.
AccountsHandedOn == AllAccountsOnce /\ OwnReserves
=============================================================================
