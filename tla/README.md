# TLA+ models of crosschainswap

This directory models the exchange backend of crosschainswap in TLA+: the custody of
funds, matching in its three forms, the queues between the processes, the way of an
update to the browsers, the scanners, prices and swap quotes. TLC checks the models on
small instances, and TLAPS proves the main facts of the ledger, of the order service, of the two
queues, of the scanner leases and of the Solana shards for any number of users, orders, workers and
amounts. `PROJECT.json` maps every
definition to the lines it models and lists the runs, the mutants each property is
tested with, the findings, the hazards and the theorems.

## The system

A Go exchange backend in several processes that share one Postgres database
(and a web frontend). Every operation that changes money or orders is one
database transaction (`ExchangeRepository.Transaction`) under READ COMMITTED,
with explicit row locks (`SELECT ... FOR UPDATE`) and unique indexes.

| component | state | operations | interacts with |
|---|---|---|---|
| balances and reservations (`exchange_repository.go`, `reservation_repository.go`) | `exchange_balances` (available, locked, pending), `exchange_reservations`, `exchange_balance_events`, `exchange_withdrawals` | mark and settle a deposit, request/complete/cancel a withdrawal, reserve, release, settle a trade | called inside the transactions of the order service |
| order service (`app/orders/service.go`) | `exchange_orders`, `exchange_active_orders`, `exchange_price_levels`, `exchange_order_commands`, last trade | Place, Cancel, TriggerStops, MatchOrder, MatchOrderWithBook, PersistBookMatchResult, gateway callbacks | ledger, matching engine, command log, match jobs, publisher |
| matching engine (`core/matching/engine.go`) | none | MatchLimit | used by the order service |
| in-memory book (`core/matching/book.go`, `snapshot.go`) | price levels and queues of one market | add, match, cancel, snapshot, restore | resident matcher |
| matcher (`app/matcher`) | `exchange_match_jobs`, or the command log, match events and snapshots | claim, match, complete, fail, quarantine, recover | order service, several instances at once |
| outbox and worker (`outbox_repository.go`, `app/worker`) | `exchange_outbox_events` | create, claim, publish, mark published or failed | event backends |
| event backends (`adapters/eventstream`) | connections to postgres, redis, nats or kafka | publish, subscribe | worker, API |
| market data (`app/marketdata`) | candles, market statistics, projection offset | fold new trades into candles | trades of the order service |
| API and websocket (`interfaces/rest`, `app/apiruntime`) | connected clients | requests, broadcast | everything above |
| pool scanner (`app/poolscanner`, `lease_repository.go`) | `pools`, `service_leases` | acquire, renew and release a lease, scan, save, announce | chain scanners, outbox |
| chain scanners (`adapters/venues`) | endpoints and their cooldowns | find pools, load them, retry at another endpoint | chain RPC |
| pricing and swap quotes (`app/pricing`, `app/swap`) | none: they read `pools` | prices, conversion to USDC, quote, transaction, approval | scanner, API |
| supervisor (`runtime/supervisor.go`) | running services | start, first error stops all | everything above |

### What is hard

* Concurrency: requests of clients, callbacks of the payment gateway, match jobs
  and stop triggers all commit between each other's reads and writes. A check
  made on a row that is not locked (the idempotency lookups, the last trade
  price, the existing deposit event) may be stale when it is used.
* Delivery: requests, callbacks and jobs arrive twice, late and out of order.
* Accounting: one trade changes two balances and two reservations in separate
  updates, with rounding at each product and releases that are cut down to what
  is there, so an error would be hidden rather than reported.
* A derived table: the published price levels are refreshed only where a
  transaction noted that it changed something.
* Memory beside a database: the resident matcher matches in a book that users'
  cancels do not reach, and persists the result later.
* Queues with locks that expire: three tables of work are claimed, worked on and
  marked in separate transactions, and nobody checks that he still owns a row.
* Leases, goroutines and channels: a lost lease does not stop a scan, and the workers of
  a Solana scan both fill and empty one bounded channel.
* Matching runs in rounds of a limited number of candidates, inside one
  transaction that also activates stops, which match again.

### What makes each part correct

* ledger: no balance is negative; what is locked is exactly what reservations
  hold; what an order reserved is what it consumed, released and still holds; no
  operation but a deposit or a withdrawal changes what exists.
* deposits and withdrawals: a payment is credited once; the pending balance
  always covers what deposits announced and withdrawals requested.
* order book: published levels equal the orders; transactions that run one after another
  never leave it crossed and fill in price-time order.
* placement: one order for a client order id, however often it is sent.
* order funds: an order holds what its unfilled part may cost and nothing once it
  is over.
* queues: no item lost; finished only after its work was done; an item that cannot
  be done is set aside and stays there. `WorkQueue` is the abstract specification.
* resident matcher: its book is the one in the database, after any crash and failure, where
  the events it recovers from were committed in their order and no read failed; what is filled was traded once.
* several matchers: no fill is lost, the two order tables agree, every transaction ends.
* updates and candles: all clients see one order without gaps; each trade is in its
  candle, once.
* scanners: one scan per venue, leases given back, the table catches up with the chain; a
  Solana scan hands on every account once and ends.
* prices and swaps: the right pools, the best conversion, what the clients see catches up
  with the table; a swap trades the pool that was quoted and pays what was promised.

## Modules

| module | models | uses |
|---|---|---|
| `Ledger` | the ledger operations as operators on a transaction's working copy | - |
| `Accounts` | every operation that changes a balance as an action; matching abstracted to "two crossing orders trade" | `Ledger` |
| `LedgerProofs`, `AccountsProofs` | theorems about the two | TLAPS |
| `Matching` | `MatchLimit` | `Ledger` |
| `Orders` | the order service of one market | `Matching`, `Ledger` |
| `FoldLemmas` | induction over a fold, for the loops of `Orders` | TLAPS |
| `OrdersProofs` | theorems about `Orders` | `LedgerProofs`, `FoldLemmas` |
| `MarketBook` | the in-memory book as operators | `Matching` |
| `BookReplay` | the book under any commands, failures, cancels and snapshots | `MarketBook` |
| `ReplayProofs` | theorems about `BookReplay` | `LedgerProofs`, `FoldLemmas` |
| `Resident` | command log, resident matcher and its recovery | `MarketBook`, `WorkQueue` |
| `MatchLocks` | matching and canceling transactions of several sessions, statement by statement | `MarketBook` |
| `WorkQueue` | abstract: a queue that does each item's work at least once | - |
| `MatchJobs` | the match job table with several workers | `WorkQueue` |
| `EventStream` | what the four event backends answer and deliver | - |
| `Outbox` | outbox table and publishing workers | `EventStream`, `WorkQueue` |
| `Updates` | subscription of the API process and websocket hub | `EventStream` |
| `Candles` | market data workers | - |
| `PipelineProofs` | theorems about `MatchJobs` and `Outbox`, with their refinements, `Updates` and `Candles` | `FoldLemmas`, TLAPS |
| `PoolScanner` | scanner processes, leases, the EVM scans, saving and announcing | - |
| `SolanaScan` | the scan of a Solana venue by goroutines | - |
| `RpcPool` | failover between endpoints | - |
| `ScanProofs` | theorems about these three | TLAPS |
| `Pricing` | prices of an asset and the messages that carry them | - |
| `Swap` | quote, transaction and approval of a swap on an EVM venue | - |
| `QuoteProofs` | theorems about these two | `FoldLemmas`, TLAPS |
| `MCAccounts`, `MCOrders`, `MCMatcher`, `MCResident`, `MCStreams`, `MCScan`, `MCQuotes` | instances for TLC | |

An MC module often holds several components that share nothing, or only constants. Its
variable `part` (`story` in `MCAccounts`) says which of them a behaviour is about; the others stay in
their initial states, so a run explores the sum and not the product of their states.

### Ledger

A transaction works on a record `f` whose fields are the tables it touches and
`f.ok`; an operation that returns an error yields `Fail(f)`, and only a
transaction with `f.ok` commits. Operators bear the names of the Go methods.
Amounts are natural numbers of the smallest unit. `Mul` is `decimal.Mul`: the
product of two amounts divided by `SCALE` and rounded half up; with `SCALE = 1`
there is nothing to round, with `SCALE = 2` half units occur. The
reservation of an order has the id of the order, since the code finds it by its
order id, which is unique.

### Accounts

`Accounts` answers what the ledger guarantees whatever the matcher does: any two
crossing orders of different users may trade at either's price, in any order.
The gateway callback is split where the code reads without a lock:
`ReadSettledEvent`, `ReadPendingEvent`, then `ApplyCallback`, whose inserts fail
when another delivery has written the event in the meantime (the event id is a
primary key). `supply` is a history variable: what was deposited minus what was
withdrawn. `manual` is another: for each account, what an operator marked by hand and whether
an operator ever settled on it. `PendingBacked` excepts these accounts, since the operator's
endpoints leave no event that a callback could meet.

### Matching and Orders

`MatchLimit(taker, makers)` folds over the makers as the Go loop does, with its
checks, the self-trade rule (the taker expires), the fill at the maker's price and
the statuses.

`Orders` has the transactions of the order service for one market.

* Placing is `BeginPlace` (the lookups, without a lock that would keep a second
  request out), `LockPlace` (the inserts of the command; `AppendOrderCommandLog` locks the
  market's sequence row to the end of the transaction, so that only one
  placement at a time is beyond this point; then the price band and stop checks
  against the last trade), `CommitPlace` (sequence id, order, reservation and,
  in sync mode, matching, settlement, stops and price levels) and `AbortPlace`
  (an error, a lost connection or a crash).
* `Cancel`, `TriggerStops` and `MatchOrder` are one step each, and so is the matching in `CommitPlace`: in this
  module the transactions that match run one after another. In the code they may overlap, and under
  READ COMMITTED `ListMatchCandidates` then misses an order that is not yet committed; `MatchLocks` has
  them statement by statement. `SerialBookUncrossed` and `PriceTimePriority` are therefore about
  transactions in series, which match jobs late and repeated, stops and several rounds make hard enough, and `crossed_book`
  shows what overlapping ones do. `MatchOrder` may run for an order again and again: a job
  whose lock expired is claimed by another worker.
* `exchange_active_orders` is written with each `SaveOrder`; it is the set
  `activeOrders`, computed from the orders. The last trade is the last one created.
* A round of `match` fetches at most `CandidateLimit` makers (500 in the code).
* `MinActive` stands for `minimumActiveOrderQuantity`: a smaller remainder is not
  in the book.

Out of the model: fees (the code has none), order events and deltas for the
websocket, the metrics, and the checks of the request's format; `validRequest`
restricts the requests to what `buildOrder` accepts.

### MarketBook and BookReplay

The book the resident matcher keeps: the price lists, queues and index of the Go
structure, `Apply` round by round on them (the loop body is `applyRound`; how two orders trade
is `tradeWith` of `Matching`, the same code in both files), and replay. `ProcessCommand` of
`BookReplay` is the part of the matcher that concerns the book: copy, apply, restore the copy if applying or
persisting fails. Commands arrive in any order, since one that failed is retried
later. Cancels are an operation of the book; the match event log does not contain them,
which `ReplayRebuilds` states.

### MatchJobs and WorkQueue

`Orders` lets `MatchOrder` run at any time; `MatchJobs` has the table that decides
when it runs. A row has its status, the attempts, and whether its lock is stale and its
retry due; a worker has the batch it claimed and how far it is with the first
job of it. Time is abstract: a lock expires and a retry time
comes at any moment after it is set, so a slow worker may go on working on a job that
another one has claimed, which is what the code allows (`worker_id` is checked by no
update). `attempts` stops counting at `MaxAttempts`, the only value it is compared
with. A worker may crash after any of its transactions; its row is left as it is.

`WorkQueue` says what such a table promises, without workers, locks and clocks.
`MatchJobs`, `Outbox` and `Resident` each instantiate it with a refinement mapping:

| | `state` | `tries` | `done` |
|---|---|---|---|
| `JobsAreAQueue` | status of the job | attempts | the order was matched or is over |
| `ImplementsQueue` | status of the event | attempts | the backend took the message |
| `CommandsAreAQueue` | status of the command | attempts | the order was matched or is over |

A finished item may be reopened by the late failure of a worker that lost its lock: the
abstract queue allows that (`Reopen`), so none of the three promises work done once.

### MatchLocks

Transactions of matcher workers and of cancels, each a list of statements
(`todo`) that grows as it goes on. A statement that needs a locked row waits for the
session that holds it; `DeadlockDetected` rolls back one of a ring. What a transaction
wrote is in its record until `CommitTx`; reads see the committed tables and the
transaction's own writes. `ListMatchCandidates` finds its rows when the statement starts
and locks them one by one; a row changed in the meantime is looked at again, as Postgres
does. `RefreshPriceLevels` goes over a Go map, so in any order, and reads the orders
without a lock. Balances and reservations appear as rows to lock; their contents are in
`Ledger`. Left out: stops, the synchronous Place and the limit of 500 candidates.

### Resident

One matcher of one market, with a resident book (`MATCHING_RUNTIME=resident`) or without. A cycle is
`EnsureLoaded`, `CompleteRecovered`, `ClaimOrderCommandLogsAfter`, then for each
command the match in memory (`MatchCommand`), the transaction (`Persist...`), and
`ApplyOrderCommandLog` or `FailOrderCommandLog`. `reload` has every branch of the
recovery: from the active orders, from a snapshot with the match events after it, or
from the snapshot alone. Users place and cancel in the database between any two steps. A
reservation is kept as the quantity it still covers, which `Orders` shows to be exact.

A recovery is a chain of reads, and each may fail (`EnsureLoadedFails`, `ReloadAfterStopsFails`). Before the
replay, or instead of it, that leaves the runtime as it was: not loaded in `ensureLoaded`, with the old book after
stops. In the replay the events are read page by page (`ReplayPage`, 1000 in the code), and `interruptedReplay` is the
book with the pages applied so far. Whatever is left, `ensureLoaded` takes a book that is not nil for loaded, so nothing reads
the rest.

Three history variables name what the properties except, each a consequence of the code:
`astray` (the order was canceled between the match in memory and its transaction, which then
writes nothing and leaves the fills of the makers in the book; the book was rebuilt from
events that cannot rebuild it; or a read failed in a rebuild and the book that was left misses events), `spoiled` (a result of such a book was persisted) and `unreplayable` (the
match events behind the snapshot cannot rebuild the book: stops were triggered since, whose fills are in no event, or
an event was committed after one with a higher sequence).

### EventStream, Outbox and Updates

`EventStream` gives, for each of the four backends, the possible answers of `Publish` (the server may
have taken a message although the call failed), the goroutines that run the subscriber's
handler and what a lost connection does. `Outbox` is the table and its workers, as
`MatchJobs`. `Updates` starts with messages the backend has taken: the handler
expands price events by reading the prices then and there, copies the list of clients,
waits for `writeMu` and writes to one client after the other; a write may fail at any time,
clients join, ping and leave in between. The version of the saved pools is the number of
price messages, since a price event is published after its pools are saved.

### Candles

Trades are numbered in the order of `(created_at, id)`, the order in which they are
read; they commit in any order. A worker reads the position and the batch without a lock
and does the rest in one transaction. `late` and `raced` record what `CandlesAreRight` excepts.
One interval and the number of trades stand for the six intervals and the volumes.

### PoolScanner, SolanaScan and RpcPool

The state of a pool of the chain is the number of the block it was read at, so a row that
mixes two reads has two different numbers. `PoolScanner` has the processes with their
leases and renewal goroutines, both scan modes, and for each kind of venue which pools are found
by which calls. `SolanaScan` has the goroutine of the scan and the workers of
`StreamProgramAccountPubkeysSharded` with channel, wait group and cancellation; shards are prefixes of
a key of `MaxShardDepth` bytes with `ShardFanout` values instead of 256. The plan of a venue says which programs are
scanned and what becomes of their errors (`nextProgram`): Raydium, and Orca with configured accounts, are `tolerant`. They log
the error of a program, go on with the next one and return an error only if a full scan found no pool at all, for which
`counted` remembers whether a call that returned without an error found one. `scan.failed` is the error that the
scan returns, and `scan.logged` (a history variable) the programs whose error was only logged. `RpcPool` has the
retry loops of the EVM pool and of the Solana client; `alone` records that no other call
overlapped.

### Pricing and Swap

`Pricing` translates the arithmetic with its rounding: `Unit` and `SqrtUnit` are 10^18 and 2^96 in
the code, 100 and 2 in the run, so that rounding and truncation occur. Queries return pools in no order,
so a conversion is any that some order yields. USDC is assumed to be registered, once on a chain, and a chain and an
id to name one asset (`RegistryAssumption`), as in the configuration of the repository. `Swap` has the operators of the executors (constant product,
least output, choice of pool, router and quoter); the pools and contracts of the chain are external
and defined by the invariant they keep, not by the formula of the code. Every pool has a fee of its own, which only a v3
quote asks for; `FeeBps` is what `NewSwapEngine` gives the v2 executors, 30 for every venue. The call of Aerodrome's router differs
from that of the other forks in its encoding, which is left out. A factory has one pool for two tokens and
what selects it, the fee, the tick spacing or nothing (`OnePoolAssumption`). Pools move and the table follows
between any two steps. Deadlines, recipients and the Solana transactions are left out.

## Runs

All bounds are constants of the configurations. Deadlock is not checked, since
a system in which every request has been handled may stop.

| run | instance | what it shows |
|---|---|---|
| `accounts` | three stories: a payment announced once and settled by two deliveries at once beside two withdrawals; operator deposits, a withdrawal and an order; two users with three orders, prices 1 and 3, half units | a deposit is credited once, the shared pending balance covers announced deposits and requested withdrawals, locks equal reservations, reservations add up, nothing is created or lost through partial fills, price improvement, rounding, release and expiry |
| `orders_sync` | two asks of one user, a bid sent twice that takes both, a buy and a sell stop; one candidate per round | transactions in series never leave the book crossed and fill in price-time order, with several rounds per match and stops activated by trades and by the endpoint; a request sent twice at once makes one order |
| `orders_async` | match jobs run late and repeatedly; market sell, immediate-or-cancel, self-trade, dust (`MinActive` = 2), price band of 50 % | the published levels are the book, and every reservation is what its order needs, with every order type and with a stop that the price band rejects |
| `matcher` | two workers with two jobs, crashes, expired locks, failures and retries; a book with six orders of three users in any order of arrival, where a trade can fail half way | one unexpired claim per job, every job ends, the table implements `WorkQueue` (a job completes only after its order was matched or is over, and quarantine is final); the book's structures agree, it never is crossed, trades exactly as `MatchLimit`, and snapshot plus logged results rebuild it |
| `resident` | a matcher with five commands, a stop, a self-trade, two cancels, a snapshot at every second command, a fault and a read that fails in a recovery; and three transactions of two sessions on five orders, with an immediate order, a self-trade, a second round and a fault | the book in memory is the one in the database but where `astray` says why not, fills are traded once, an order that is over stays over, every command ends, the log implements `WorkQueue`; concurrent transactions lose no fill, keep both tables in step and the levels exact, and end |
| `streams` | two events, two publishers, all four backends; two topics, two clients, two messages, a lost connection; three trades in two minutes, two projectors | once unless disturbed, at least once always, all events end; one order for all clients, no gaps, prices never go back, no client left silent; each trade in its candle once |
| `scan` | two scanners, up to three venues of four kinds in both modes, two blocks, one fault; twelve accounts in seven programs, shards of depth three, two workers, a channel of six; two endpoints, two callers | one scan per venue, leases given back, the table catches up; the channel closed when idle, each account once with its own reserves unless an error was returned or, at a tolerant venue, logged for its program, every scan ends; a call gives up after all endpoints |
| `quotes` | three assets on two chains with an id that means two things, five pools with and without reserves, two saves; seven venues, nine pools, eleven requests, one move | the right pools, the best route, conversions that are prices, clients that catch up; quotes exact at the fee they name, on the right side of the pool's own, the quoted pool traded, payment as quoted, approvals that fit |

Some properties are conjunctions of parts that are stated and commented one by one:

| property | parts |
|---|---|
| `FundsFollowOrders` (`Orders`) | `ReservedForOrders`, `LockedForReservations`, `NothingLost` |
| `BookConsistent` (`BookReplay`) | `StructuresAgree`, `BookNeverCrossed` |
| `TablesAgree` (`MatchLocks`) | `FillsAreKept`, `SameOrders`, `LevelsAreSums` |
| `ClientsSeeOneStream`, `ClientsAreServed` (`Updates`) | `SameOrderForAll`, `NoGaps`, `PricesNeverGoBack`; `UpdatesGetThrough`, `NoZombies` |
| `CandlesAreRight` (`Candles`) | `CountedOnce`, `CandlesMatchTrades` |
| `LeasesHold` (`PoolScanner`) | `ScansExclusive`, `LeasesGivenBack` |
| `AccountsHandedOn` (`SolanaScan`) | `AllAccountsOnce`, `OwnReserves` |
| `PricesAreRight` (`Pricing`) | `RightPools`, `BestRoute`, `ConversionIsThePrice` |
| `SwapAsQuoted` (`Swap`) | `QuotedPoolIsTraded`, `PaidAsQuoted`, `ApprovalFits` |

Two users are enough for a trade and for a self-trade; two orders on a side are
what price-time priority compares; three orders let a fill be followed by
another one with a different partner. The opening balances are larger than what
the requests can lock together in `orders_async`, and smaller in the trading story and
`orders_sync`, so that both accepted and refused reservations occur. `MaxOrders` never
keeps a request out in the order runs: it is the number of distinct requests that can succeed.
Two workers with two items in a batch show a lock that expires under the second
item; one fault is enough to interrupt any step, and the attempts bound (2) lets an item fail, be
retried and be given up. Three faults are needed for a recovery after events out of
order (below), which the run of `resident` does not reach. `ReplayPage` is 1, so that an interrupted replay may have applied any
number of events, and one failed read (`ReloadFaults`) meets each recovery of the run. Two blocks make a torn or late read visible. A channel of six
with a fan-out of two is filled by three split shards, and the run reaches that.
The three transactions of `resident` are any three matches and cancels; two sessions are what a
deadlock takes.

### Fairness

* `matcher`, `lost_update`, `streams` (outbox): weak fairness of a free worker's claim (the poll loops
  run on a ticker for as long as their process does), of each step of a worker that holds an
  item (a call that returns or fails) and of the expiry of a lock and of a retry time (clock readings).
* `resident`: the loop of the matcher goes on, and time passes. In the part of the
  sessions: a session that need not wait executes its statement or fails, and Postgres detects
  deadlocks. The formula `SessionGoesOn` is the weak fairness of a session's steps, written without ENABLED.
* `streams` (updates, candles): the goroutines of a living subscription run, every write ends by its
  deadline of two seconds, connections are made again where the client library does so, a browser
  pings again (the frontend does so on a timer), and the market data loop runs.
* `scan`: a process that runs makes its next step, a lease that nobody renews expires, endpoints
  catch up with the chain; some goroutine of a Solana scan that can run does.

Nothing is assumed of crashes, of the outcome of a match, a call or a publication, of new blocks, or of a client that
cancels or leaves.

### Where the code and its documents differ

Four runs show where the code does not do what a document says (`findings` in
`PROJECT.json`):

| run | what happens |
|---|---|
| `stop_expiry` | a triggered stop that meets its own user's order expires, and its funds stay locked: only the paths of new orders release them, and an expired order cannot be canceled |
| `stale_stop` | a stop is placed while a trade beyond its stop price commits, and stays pending |
| `lost_update` | the matcher commits a match and stops before it publishes the result; the job is claimed again, finds the order filled, and completes without publishing |
| `crossed_book` | two workers match a bid and an ask at once, each before the other commits, and both rest crossed |

`FundsFollowOrders` states what does hold beside `stop_expiry`, and `TablesAgree` beside
`crossed_book`. Other consequences of the code, met while modelling,
follow. Each is in a model, as an exception that a property names or as what an operator computes.

* The client order id is the command id for all users, so a second user's order with the same id
  is refused (`orderCommandID`; the repository's README says "idempotency per user").
* A market sell is filled below the price its client gave as the minimum (`effectiveMatchTaker`;
  README: "for market sells it is the minimum acceptable execution price"). With the in-memory book,
  `effectiveBookTaker`, the price is respected.
* The trades of activated stops trigger no further stops; a bid whose fills round up one by
  one can use up its reservation before it is filled, after which every match with it fails.
* A price level summed while another transaction changes one of its orders stays wrong until
  the next change at that price (`raced` in `MatchLocks`).
* The resident matcher: a cancel between the match in memory and its transaction leaves fills in the
  book that never happened; canceled makers stay in the book and make commands fail until
  they are quarantined; a command that waits for its retry is passed over once a later one is
  applied; triggered stops are in no match event.
* The resident matcher retries a failed command after later ones, but recovery takes the sequence of an event
  for its place in time (`resident_runtime.go:115`). Commands 1 and 2 are claimed together; 1 fails, 2 is persisted with
  a snapshot and then cannot be marked applied; 1 is retried and rests; the matcher crashes. Recovery restores
  snapshot 2 and reads the events after it: event 1 is neither, so order 1 rests in the database and is missing in the
  book, until a restart reads the active orders. Likewise events 5 and 4, committed in this order, are
  replayed as 4 and 5. It takes three faults with `SnapshotEvery = 2`; the invariant without the second clause of
  `unreplayable` fails in `Resident` with three commands, `MatcherFaults = 3`, `CommandTries = 3` and no cancels, and as it is stated it holds there.
* A read that fails in a recovery leaves a book that counts as loaded: the snapshot with some of the events, after a
  crash, or the book from before the stops were activated (`resident_runtime.go:80-84`, `93-154`). Nothing
  reads the rest until the process starts again (`astray`).
* Candles: two workers that read the same position can count a trade twice; a trade that commits
  behind the position is never counted; the statistics of a day cover 500 minutes, because
  `ListCandles` replaces the limit of 1440 by 500.
* A redis or kafka subscription that fails once is not made again; postgres and nats miss what is sent
  while they reconnect.
* A Solana shard whose retries are used up is missing although the scan reports no error; with more
  than 256 split shards all workers may wait for room in the channel.
* The scans of Raydium and of Orca with configured accounts log the error of a program and report success if any pool
  was found, tracked scans even if none was (`scanner.go:194-197`, `215-247`, `284-328`): the accounts of that program are
  missing without an error (`scan.logged`).
* Every v2 pool is quoted at 30 basis points (`bootstrap/swap.go:63`, `72`; nothing sets `FeeBpsByVenue`), although forks
  take other fees (`uniswapv2_test.go` sets 100 for KewlSwap) and Aerodrome has a fee per pool. A quote for a pool with a
  higher fee promises too much, and the swap reverts unless the slippage covers the difference; for one with a lower fee it
  promises too little. `QuoteExactAtFee` says on which side a quote errs.
* The value of an asset found through its quote asset is not announced when the
  second pool changes (`SymbolsForPools`), though the README says that updates are published "whenever
  prices change".
* A pool that the client of a swap names is not compared with the venue and tokens of the request.

## Proofs

`LedgerProofs` has the lemmas about the operators of `Ledger`: each preserves the
types, the split of each reservation and the agreement of locked balances and
reservations, or fails. `AccountsProofs` has the theorems of `Accounts`:

* `LedgerInvariant`: `Spec => []LedgerInv`. `LedgerInv` is the conjunction of
  `TypeOK`, `ReservationBalanced`, `LockedIsReserved` and `LiveReserved`: the
  reservation of every live order exists and is on the account the order draws on.
  `LockedIsReserved` is not inductive without the others: if `LiveReserved` failed, a
  settlement could debit one account and consume the reservation of another, and if
  `ReservationBalanced` or the types failed, a charge would not be the difference
  it makes to the sum of what is held.
* `AccountsTypeCorrect`, `ReservationsBalanced` and `LocksAreReservations`
  follow from it: the invariants the runs check, for every number of users,
  orders, withdrawals and callbacks, every set of prices and amounts and every
  `SCALE`.

`PipelineProofs` has the theorems about what follows a committed placement. The match jobs (`MatchJobs`), for any set
of jobs and workers and any `MaxAttempts`:

* `JobsInvariant`: `Spec => []JobsInv`. `JobsInv` adds to the properties that a
  worker past its match saw the order matched or over (`WorkSeen`), a job in a worker's
  hands whose lock never expired is locked in the table (`JobHeldIsLocked`), a stale lock is
  on record as expired (`StaleIsExpired`), and a quarantined job has used its
  attempts (`QuarantinedSpent`).
* `JobsCompleteAfterMatch` (no job is completed before its order was matched or is over),
  `JobsAreExclusive` and `QuarantineIsFinal` (no late failure reopens a quarantined job) follow.
* `JobsImplementQueue`: `Spec => JobsAreAQueue`, the refinement of `WorkQueue`. Initial states
  map to initial states; a claim maps to `HandOut`, a match or a closed order to `Process` (or a stutter), a
  completion to `Finish`, and a failure to `Abandon`, `Reopen` or a stutter. `JobsInv` is needed
  where a step of the queue has a guard that the row alone does not show: `WorkSeen` for `Finish`, and the
  types for the counting of `tries`.

The sum of the reservations of an account is stated without recursion: `TotalIs(f, n, total)` says that
there is a function of partial sums that starts at 0, adds `f[i]` at each step and ends at
`total`. The lemmas say how it changes when one entry changes. (`SumIsTotal` of `OrdersProofs` shows that
it is what `SumFunction` computes.)

Two more theorems of `AccountsProofs` are about what exists and what is announced:

* `FundsConserved`: `Spec => []SupplyConserved`. Each ledger operation has a lemma that says what it
  adds to an asset over all accounts (`Gains`): nothing for a reservation, a release and both
  halves of a settlement, and exactly the amount for a deposit, a withdrawal and its cancellation. The
  two sums of an asset, over accounts and over open withdrawals, are then compared with
  `supply` action by action. `LedgerInv` is needed where a decrease must not be cut off at zero.
* `PendingIsBacked`: `Spec => []PendingBacked`, by `PendingInv`, which adds `EventsAgree`: a delivery that saw
  the pending event of its payment did so because the event exists, and one that applies a settlement
  carries the amount of that payment. Without it two deliveries between their reads and their
  commit could take the same announcement off the pending balance twice.

`OrdersProofs` has the theorems of `Orders`, for any users, requests, prices, amounts, `SCALE`, price band,
minimal order and candidate limit, in both modes:

* `OrdersInvariant`: `Spec => []OrdersInv`. Every order is in the table under its own id, complete, and its
  identity never changes; the placed orders are the first ones (`SequenceInv`), so the next sequence id is free; at
  most one placement is beyond the command sequence row, and the unique keys it found free are
  still free (`LockInv`); the levels are right; the accounts are sound (`FundsSound`: types, split of
  reservations, locks that are covered, and a reservation on the right account for every order).
* `ClientOrdersAreUnique`, `LevelsAreRight`, `LocksFollowReservations` and `OrdersConserveFunds` follow.

A transaction of `Orders` is a chain of loops: rounds of matching, makers of a round, makers to save, trades to
settle, stops to activate. `FoldLemmas` proves once that a fold goes through the values of a loop
(`FoldLeftSteps`) and keeps what its body keeps (`FoldKeeps`). The library's induction theorems cannot be used for
this, since they take the claim as an operator argument; `FoldLemmas` declares body and claim as
constants instead, and each loop instantiates it (`Makers`, `Rounds`, `Saves`, `Settlement`, `Stops`). What the loops
keep is the relation `Moves(f, g)` between two states of a working copy. It says that no order becomes another
and that whoever changes an order has noted its level (`Advances`), and that funds stay sound and none is gained or lost
unless the transaction has failed (`Conserves`). An untouched level then has the orders it
had (`LevelsKept`), which is why refreshing only the noted ones is enough.

The second half of `OrdersProofs` has two theorems about what a match does to the book, with the same generality:

* `SerialMatchesUncross`: `Spec => []SerialBookUncrossed`, for transactions in series, as the module has them: ones that overlap do
  leave the book crossed (`crossed_book`). `SerialBookUncrossed` is inductive together with `OrdersInv`.
* `TurnsAreKept`: `Spec => PriceTimePriority`, from the same two invariants and for transactions in series too.

The argument follows a match from the inside out. The candidates are the orders the taker faces, in priority order and
without a gap (`CandidatesInOrder`). `MatchLimit` takes them in that order: when it has filled a maker, every maker before
it is used up, and it stops only when the taker or all candidates are used up, or at a self-trade, which expires
the taker (`MatchLimitFills`). The makers of a round are different orders, so none is saved over another
(`SaveWritesAll`). A round that trades uses up the taker or an order that it faces, so the number of orders it
faces falls with every such round: the loop of `match`, which has one round more than there are orders, ends because
there is nothing left to do (`AfterRounds`, `MatchFills`). This is also what justifies the bound on the
rounds in the model, where the code loops without one. What rests in the book afterwards faces nobody. An activated stop is one more such match, of an
order that was not in the book (`StopsTidy`). A match job that runs again for an order in the book fills
nothing, because the book was uncrossed before (`RematchIsIdle`): this is where price-time priority needs
`SerialBookUncrossed`.

`ReplayProofs` has the theorems about the resident book, for any set of commands with any prices and amounts:

* `ReplayInvariant`: `ReplaySpec => []ReplayInv`, where `ReplaySpec` is the part of `MCSpec` that `BookReplay` contributes.
* `BookStaysConsistent` (`BookConsistent`), `ReplayAlwaysRebuilds` (`ReplayRebuilds`) and `BookMatchesLikeEngine`
  (`AgreesWithEngine`) follow.

`GoodBook` says that every list of the book is in its order, every queued order is bookable and where its side and price
say, and the index has what is queued. Such a book is determined by the set of its orders: two strictly ordered lists
with the same elements are one list (`SortedUnique`), so the sides and with them the books are equal (`BooksEqual`). Every
operation is therefore described by what it does to that set (`InsertGood`, `RemoveOrderGood`, `ReplaceHeadGood`). A
round of `Apply` that goes on takes an order out of the book, so there are enough rounds (`RoundsEnd`), and the last one
found nothing at a price the order reaches, so that what rests does not cross the book (`FacesNone`, `RestRests`). The
orders that a match leaves are those from before with the makers and the taker taken out and put back as the result has them
(`Traced`), which is also what replay does with the logged result (`ResultGood`). `CaptureState` lists every order once
(`CaptureListed`), so a restored copy is the book itself: a failed match changes nothing (`ApplyFailsKeeps`).

That the book and the engine agree is shown round by round (`InStep`). The levels of a side, one after the other, are in
price-time priority (`SideListed`), so the list of the other side that the engine is given exists and has every order once (`PriorityList`).
The head of the best queue comes before every other order of its side (`HeadIsAhead`). While the book goes on, what is left of the
side is therefore the rest of the engine's list, both meet the same order, and both make the same of it (`MeetSame`).
When the book has stopped, the engine passes over the rest of its list: nothing there crosses (`RoundSame`). When the list has ended,
the side is empty and the book stops (`RoundAfter`). The two keep the status of the taker in different
ways, the engine after each fill and the book at the end; `TakerSays` is why the order service and the book return the same one
(`FinishSame`).

`PipelineProofs` goes on with what carries the committed data to its readers. The outbox, for any events,
workers, backends and any `MaxAttempts`:

* `OutboxInvariant`: `Spec => []OutboxInv`. The property that an event goes out once unless
  something disturbed it needs the whole story of a row: an undisturbed row that a worker holds is locked in the
  table and held by nobody else (`HeldIsLocked`, `OnePublisher`), its event has not been taken
  before the call (`HeldIsUntaken`, `WaitingIsUntaken`), a row marked as published was taken
  (`MarkedWasTaken`), and a stale lock counts as a disturbance (`StaleIsDisturbed`).
* `EventsGoOutOnce` and `OutboxImplementsQueue` (`Spec => ImplementsQueue`) follow.

The updates, for any clients and topics, any number of messages and all four backends:

* `UpdatesInvariant`: `UpdatesSpec => []UpdatesInv`. For each client and topic, `Stretch` says that what the client
  has is a stretch of the history of the topic which ends at its latest update, or just before it while the latest
  is on its way to the client (`pending`). That rests on each topic having one goroutine, whatever the backend
  (`OneGoroutine`), so that a new update is handled when the broadcast of the one before has ended (`TaskIsLatest`,
  `OneBroadcast`); and the order across topics rests on the lock: the goroutine that writes holds it (`LockIsWriter`), and
  whoever has what is being written has nothing after it (`WrittenLast`). `HandledInOrder` keeps the prices of an update
  at those of the table or older.
* `ClientsShareOneStream`: `UpdatesSpec => []ClientsSeeOneStream` follows.

The candles, for any trades, projectors, batch sizes and numbers of faults:

* `CandlesInvariant`: `CandlesSpec => []CandlesInv`. `CountedUpTo` says of a position that what lies behind it is counted
  unless it committed late. It holds of the saved position and of each one that a projector has read
  (`BatchesAreNext`, with the trades of the batch being all those in time after it); without races each counted trade is
  counted once and lies behind the position (`CountedInOrder`), so a batch adds each of its trades once and its first trade
  after all others. `CandlesShow` says of every candle what its trades say.
* `CandlesFollowTrades`: `CandlesSpec => []CandlesAreRight` follows. `UpdateCandles` is a fold over the batch: `FoldLemmas`
  gives its values, and an induction over the places of the batch shows what they are.

`ScanProofs` has the theorems about the reading of chains. Leases: `LeaseInvariant` (`ScannerSpec => []LeaseInv`) and `VenueLeasesHold`. A process that scans without having
noticed the loss of its lease either holds it in the table or has lost it to the clock
(`HeldDuringScan`, `RenewedDuringScan`), which makes two such processes the same one; `LeasesGivenBack` closes the
round.

The sharded scan: `ShardsInvariant` (`SolanaSpec => []ShardsInv`) and `ChannelClosedWhenIdle`. The wait group counts the
queued shards and the busy workers (`WaitGroupCounts`), and the channel is closed only at zero
(`ClosedAtZero`), so no worker sends on a closed channel and none leaves while shards are left, for any
shards, workers, capacity and number of failures.

What a Solana scan hands on: `HandedInvariant` (`SolanaSpec => []HandedInv`) and `EachAccountHandedOn`
(`SolanaSpec => []AccountsHandedOn`), for any accounts, vaults, mints, workers, fan-out and depth. An account is settled
(`Settled`) when it was handed on once or there is a reason why it is not: no data at the endpoint, data of another
type, a shard or query that was skipped, no mint that asks for it. The invariant says where each account of the program
that is being scanned is until then (`ShardsHold`): in one shard of the channel, or in the hands of one worker, which of a
shard that is being split are the accounts of the children not yet sent, or under one of the roots not yet sent; never in
two of these (`OneShard`), and what waits was not handed on. Each step moves accounts from one place to the
next, and only an error drops any, which the scan returns or, at a tolerant venue, logs. At the end the wait group is zero, so nothing waits. The tracked scan
keeps the same account with `QueriesHold`: what earlier queries found is settled and what they did not find is
untouched, and after the last query every mint was asked for at both offsets (`QueryFor`). Across programs,
`LaterUntouched` and `EarlierSettled`, which excepts the programs in `scan.logged`, need that no program comes twice in a plan (`PlanFacts`). That a pool has the
balances of its own vaults comes from lemmas about the operators: the chunks of a list cover it whatever the size of a call
(`ChunksCover`), the answers are those of the known keys (`AnsweredKeys`), and so on to the reserves (`PoolsOfKeys`).

Calls: `CallsAskAll` (`RpcSpec => []GivesUpAfterAll`), for any number of endpoints. The invariant `TurnsAreAsked` says that
the shared counter, while a call is alone, has passed only over endpoints that the call asked or found disabled, and
that it moves at least once with every attempt; two or three rounds of attempts then meet every
endpoint. `AloneMeansAlone` is why nobody else moves the counter.

`QuoteProofs` has the theorems about what the API answers from the pool table. Swaps, for any venues, pools, requests,
reserves, amounts, fees and slippages:

* `SwapInvariant`: `SwapSpec => []SwapInv`. `SwapInv` traces each thing a client gets to what it was made from: the
  chosen pool to a request (`SwapChosen`), the quote to one row of a pool (`SwapQuoted`), the transaction to choice and quote
  (`SwapBuilt`), the approval to the request (`SwapApproved`), the payment to the transaction (`SwapPaid`).
* `QuotesAreExactAtFee`: `SwapSpec => []QuoteExactAtFee`. A pool pays the largest amount that keeps the product of its reserves;
  that the formula of `constantProductOut`, which multiplies by the fee and divides once, is that amount to the last unit is `FormulaIsMax`, from
  facts about integer division (`Quotient`, `ProductKept`, `FactorBelowQuotient`). What a pool pays falls as its fee rises
  (`PoolPaysFalls`, for v2 from `FormulaFalls`), so a quote at another fee than the pool's errs on one side only.
* `SwapsFollowQuotes`: `SwapSpec => []SwapAsQuoted`. The parameters of a route find one pool (`RouteFindsPool`, from
  `OnePoolAssumption`), and `MinOutBounds` says what `MinOut` loses to rounding, at a slippage of 0 and above 100 % too.

Prices, for any registry, any pools, any rows that scans find and any order in which queries return them:

* `PricingInvariant`: `PricingSpec => []PricingInv`. A message is what two readings of the table yield (`IsMessage`), and a
  computation in progress has made one of them (`IsReading`). `MessageFollows` and `ReadingFollows` say of each pool and each
  symbol it trades that the message, or the computation, has its present row, or that something is on its way which leads
  to another message: the pool is not yet announced, the symbol is due, or it is being computed.
* `MessagesComeFromPools`: `PricingSpec => []PricesAreRight`, by three facts about one message. The query by token address
  finds pools of other chains too, but only keys of chain and address become entries (`MessagePools`, from `KeysAreUnique`).
  The loop of `enrichUSDCPrices` is a fold over the pools: after each pool it holds of each asset the first of the best
  conversions so far (`OneMorePool`, `FirstBestIsTaken`, by `FoldLemmas`), since the comparison is an order (`BetterIsOrder`), so
  the route is one of the best of all (`RouteIsBest`). And the two functions that compute a price agree (`ValueIsPrice`).
* `PricesCatchUp`: `PricingSpec => []ClientsCatchUp`. `FoundIsChoice` is what makes it possible to speak about an unknown
  order: the conversions that some order yields are exactly the choices of one best conversion for each asset (for such a
  choice, the order that begins with its pools yields it). A message about old rows of foreign pools can
  therefore be compared with the present table: its choice for the assets of the symbol and any choice for the others
  are together a choice of the present table (`ChoicesJoin`), and the two messages say the same of the symbol's own
  pools (`OwnPartDecided`).

The assumptions used are `LedgerAssumption`, `AccountsAssumption`, `OrdersAssumption`, `MarketBookAssumption`, `MatchJobsAssumption`,
`OutboxAssumption`, `UpdatesAssumption`, `CandlesAssumption`, `ScannerAssumption`, `SolanaAssumption`, `SolanaAccountsAssumption`, `RpcAssumption`, `SwapAssumption`, `OnePoolAssumption`, `RegistryAssumption` and
`RowsAssumption`: the constants are numbers,
sets and functions of the expected sort, `Base` and `Quote` differ, the key of a Solana account has as many bytes as a
shard can be deep (32, where the code splits to depth 3), the table has finitely many pools, and what is said above of the
registry and of factories. TLC evaluates each of them in the run of its component.

### Only model-checked

* Liveness (`JobsEnd`, `CommandsEnd`, `EventsEnd`, `TransactionsEnd`, `ClientsAreServed`, `TradesGetCounted`, `RowsCatchUp`,
  `ScanEnds`): the provers here cannot handle fairness, which is defined by ENABLED.
* `ReservedForOrders`, the first part of `FundsFollowOrders`: with rounding (`SCALE > 1`) the
  fills of a bid can round up one by one, and its reservation is then less than what its rest can cost. The other
  two parts are proved for every `SCALE`.
* `BookIsActive`, `FilledIsTraded`, `OverIsOver`, `CommandsAreAQueue` (`Resident`): no proof was attempted yet. The lemmas of
  `ReplayProofs` about the book are what they would start from.
* `TablesAgree` (`MatchLocks`): no proof was attempted yet.

## Plan

Done: all modules of the table above, and the theorems above.

1. Proofs: `TablesAgree`, and `Resident` on the lemmas of `ReplayProofs`.
2. `MatchLocks`: the synchronous Place and the activation of stops, which take the same
   locks in a longer transaction.
3. Several resident matchers of one market, which nothing but the job locks keeps apart.

## Not modelled

* Requests and answers: parsing, validation of formats, authorization, the OpenAPI document, the HTTP
  client of the payment gateway. What they accept reaches one of the modelled operations; what
  they refuse changes nothing.
* Decoding of chain data and contract calls, and the transactions that an external API builds for
  Solana swaps: input and output without state that the models would tell apart.
* Token verification (OIDC), which rests on cryptographic libraries.
* Migrations, configuration registries, commands and the frontend. The registries are constants
  of `Pricing`, `Swap` and `PoolScanner`.
* The supervisor: to the models, a service it stops has crashed, which they allow at any step.
* Reconciliation: it reads only, and what it compares is `LockedIsReserved`.
* Lists for display, order deltas, metrics, the depth view and the checksum of the book, and the retention
  check of snapshots.
* Packages that contain only a package comment (bridges, custody, compliance and others).
