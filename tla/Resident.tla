------------------------------ MODULE Resident ------------------------------
(***************************************************************************)
(* The resident matcher of one market: it claims the commands of the       *)
(* durable log behind its last sequence, matches them in a book it keeps   *)
(* in memory, and persists each result with its match event in one         *)
(* transaction.  After a crash the book is rebuilt from the latest         *)
(* snapshot and the match events behind it, or from the active orders; an  *)
(* error of a read ends the rebuild where it is, and what there is of the  *)
(* book then counts as loaded.                                             *)
(* Users place and cancel orders in the database all the while; the book   *)
(* in memory is not told of cancels.                                       *)
(*                                                                         *)
(* A command has the sequence id of its order.  A reservation is kept as   *)
(* the quantity of the order it still covers (Orders shows that it does).  *)
(* There is one matcher for the market, with a bounded number of faults.   *)
(* Without MATCHING_RUNTIME=resident it keeps no book: each command is     *)
(* matched in one transaction, in a book loaded from the active orders.    *)
(***************************************************************************)
EXTENDS MarketBook

CONSTANTS
    ClaimBatch,     \* MATCHER_BATCH_SIZE
    CommandTries,   \* MATCHER_MAX_ATTEMPTS
    SnapshotEvery,  \* MATCHER_SNAPSHOT_EVERY, 0 for never
    ReplayPage,     \* 1000: match events read with one query
    MaxCancels,     \* cancels by the users (bound)
    MatcherFaults,  \* crashes and database errors of the matcher (bound)
    ReloadFaults    \* errors of the reads that rebuild its book (bound)

ASSUME ResidentAssumption == ReplayPage \in Nat \ {0}

VARIABLES
    row,     \* exchange_orders
    held,    \* exchange_reservations: the quantity each order still has reserved
    traded,  \* exchange_trades: the quantity of each order that was traded
    cmd,     \* exchange_order_command_log
    event,   \* exchange_match_event_log, by sequence
    snap,    \* the latest of exchange_matcher_snapshots
    runtime, \* "resident", or "book" for a matcher without a book of its own
    rt,      \* marketRuntime: book and lastSequence, once loaded
    job,     \* what the matcher is doing
    unreplayable, \* history: the snapshot and the events behind it miss something
    astray,  \* history: the book has fills the database has not, or misses some
    spoiled, \* history: a result of such a book was persisted
    faults,
    reloadFaults,
    cancels

dbVars == <<row, held, traded, cmd, event, snap>>
historyVars == <<unreplayable, astray, spoiled>>
vars == <<runtime, dbVars, rt, job, historyVars, faults, reloadFaults, cancels>>

takerOf(id) == CHOOSE t \in Takers : t.id = id

Ids == {t.id : t \in Takers}
\* A set of ids as a sequence, in the order of the sequence ids.
inOrder(S) == SelectSeq([i \in 1..MaxOrders |-> i], LAMBDA i : i \in S)
Stops == {t.id : t \in {s \in Takers : s.status = "pending_stop"}}

NoCommand == [status |-> "none", attempts |-> 0, stale |-> FALSE, due |-> TRUE]
NoSnapshot == [sequence |-> 0, items |-> <<>>]
NotLoaded == [loaded |-> FALSE, book |-> NewMarketBook, last |-> 0]
NoResult == [taker |-> takerOf(CHOOSE id \in Ids : TRUE), makers |-> <<>>, trades |-> <<>>]
Waiting == [step |-> "idle", todo |-> <<>>, result |-> NoResult, before |-> NewMarketBook]

Init ==
    /\ row = [id \in Ids |-> [takerOf(id) EXCEPT !.status = "none"]]
    /\ held = [id \in Ids |-> 0]
    /\ traded = [id \in Ids |-> 0]
    /\ cmd = [id \in Ids |-> NoCommand]
    /\ event = [id \in {} |-> NoResult]
    /\ snap = NoSnapshot
    /\ runtime \in {"resident", "book"}
    /\ rt = NotLoaded
    /\ job = Waiting
    /\ unreplayable = FALSE
    /\ astray = FALSE
    /\ spoiled = FALSE
    /\ faults = 0
    /\ reloadFaults = 0
    /\ cancels = 0

-----------------------------------------------------------------------------
(* The database: placements, cancels and the tables the matcher reads.     *)

runtimeMatchable(status) == status \in {"pending_match", "open", "partially_filled"}

\* exchange_active_orders, in sequence order.
ListActiveOrdersForUpdate(rows) ==
    LET ids == inOrder({i \in Ids : isBookable(rows[i])})
    IN  [i \in 1..Len(ids) |-> rows[ids[i]]]

\* The transaction of Place: the command of a stop is applied at once, that of any
\* other order waits for the matcher.
Place(id) ==
    /\ row[id].status = "none"
    /\ \A i \in Ids : i < id => row[i].status # "none"
    /\ row' = [row EXCEPT ![id].status =
                  IF id \in Stops THEN "pending_stop" ELSE "pending_match"]
    /\ held' = [held EXCEPT ![id] = takerOf(id).remaining]
    /\ cmd' = [cmd EXCEPT ![id].status = IF id \in Stops THEN "applied" ELSE "pending"]
    /\ UNCHANGED <<traded, event, snap, rt, job, historyVars, faults, reloadFaults, cancels>>

Cancel(id) ==
    /\ row[id].status \in {"pending_match", "open", "partially_filled", "pending_stop"}
    /\ cancels < MaxCancels
    /\ cancels' = cancels + 1
    /\ row' = [row EXCEPT ![id].status = "canceled", ![id].remaining = 0]
    /\ held' = [held EXCEPT ![id] = 0]
    /\ UNCHANGED <<traded, cmd, event, snap, rt, job, historyVars, faults, reloadFaults>>

LatestAppliedOrderCommandSequence == Max({0} \cup {i \in Ids : cmd[i].status = "applied"})

LatestMatchEventSequence == Max({0} \cup DOMAIN event)

ListMatchEventLogsAfter(after) ==
    LET later == inOrder({i \in DOMAIN event : i > after})
    IN  [i \in 1..Len(later) |-> event[later[i]]]

-----------------------------------------------------------------------------
(* Recovery of the book.                                                   *)

restore(snapshot) ==
    [loaded |-> TRUE, book |-> RestoreMarketBook(snapshot.items), last |-> snapshot.sequence]

loadActiveProjection(last) ==
    [loaded |-> TRUE,
     book |-> Load(NewMarketBook, ListActiveOrdersForUpdate(row)),
     last |-> IF last = 0 THEN LatestAppliedOrderCommandSequence ELSE last]

\* Mutant: the events are replayed on an empty book.
replayMatchEventsFromNothing(snapshot) ==
    [loaded |-> TRUE,
     book |-> FoldLeft(ApplyResult, NewMarketBook, ListMatchEventLogsAfter(snapshot.sequence)),
     last |-> LatestMatchEventSequence]

replayMatchEventsFromSnapshot(snapshot) ==
    [loaded |-> TRUE,
     book |-> FoldLeft(ApplyResult, restore(snapshot).book,
                       ListMatchEventLogsAfter(snapshot.sequence)),
     last |-> LatestMatchEventSequence]

\* The branches of reload in their order.
usesProjection ==
    \/ snap = NoSnapshot
    \/ /\ LatestAppliedOrderCommandSequence > snap.sequence
       /\ LatestMatchEventSequence < LatestAppliedOrderCommandSequence

reload ==
    IF snap = NoSnapshot THEN loadActiveProjection(0)
    ELSE IF usesProjection THEN loadActiveProjection(LatestAppliedOrderCommandSequence)
    ELSE IF LatestMatchEventSequence > snap.sequence THEN replayMatchEventsFromSnapshot(snap)
    ELSE restore(snap)

\* The events are applied to the restored book page by page: what it is when the query for
\* a page fails.
interruptedReplay ==
    LET events == ListMatchEventLogsAfter(snap.sequence)
        replayed(n) == [loaded |-> TRUE,
                        book |-> FoldLeft(ApplyResult, restore(snap).book, SubSeq(events, 1, n)),
                        last |-> IF n = 0 THEN snap.sequence ELSE events[n].taker.id]
    IN  {replayed(n) : n \in {n \in 0..Len(events) : n % ReplayPage = 0}}

\* A read that fails before the replay, or one of the active orders, leaves the runtime as
\* it was; one in the replay leaves a book that ensureLoaded takes for loaded.
failedReload ==
    {rt} \cup (IF ~usesProjection /\ LatestMatchEventSequence > snap.sequence
               THEN interruptedReplay ELSE {})

ReloadFails ==
    /\ reloadFaults < ReloadFaults /\ reloadFaults' = reloadFaults + 1
    /\ \E left \in failedReload :
          /\ rt' = left
          /\ astray' = (left.loaded /\ (unreplayable \/ left.last < LatestMatchEventSequence))

\* Fills of stops are not in the match events, and the events are replayed in the order
\* of their sequence, which need not be the order in which they were committed.
Reload ==
    /\ rt' = reload
    /\ astray' = (unreplayable /\ ~usesProjection)

-----------------------------------------------------------------------------
(* The transaction of PersistBookMatchResult.                              *)

saveOrders(tx, items) ==
    [tx EXCEPT !.row = FoldLeft(LAMBDA r, o : [r EXCEPT ![o.id] = o], @, items)]

\* Mutant: what is not reserved any more is taken as spent.
settleFillAnyway(tx, t) ==
    [tx EXCEPT !.held = [@ EXCEPT ![t.maker] = SubFloorZero(@, t.qty),
                                  ![t.taker] = SubFloorZero(@, t.qty)],
               !.traded = [@ EXCEPT ![t.maker] = @ + t.qty, ![t.taker] = @ + t.qty]]

\* consumeReservation refuses what is not reserved any more.
settleFill(tx, t) ==
    IF ~tx.ok \/ tx.held[t.maker] < t.qty \/ tx.held[t.taker] < t.qty THEN Fail(tx)
    ELSE [tx EXCEPT !.held = [@ EXCEPT ![t.maker] = @ - t.qty, ![t.taker] = @ - t.qty],
                    !.traded = [@ EXCEPT ![t.maker] = @ + t.qty, ![t.taker] = @ + t.qty]]

releaseUnfilled(tx, o) ==
    IF tx.ok /\ o.status = "expired" THEN [tx EXCEPT !.held[o.id] = 0] ELSE tx

stopTriggered(o, price) ==
    /\ o.status = "pending_stop"
    /\ IF o.side = "buy" THEN price >= o.stop ELSE price <= o.stop

\* A triggered stop is matched in the database, by the engine.
activateStop(tx, id, price) ==
    IF ~tx.ok \/ ~stopTriggered(tx.row[id], price) THEN tx
    ELSE LET r == MatchLimit([tx.row[id] EXCEPT !.status = "open"],
                     SortSeq(SelectSeq(ListActiveOrdersForUpdate(tx.row),
                                       LAMBDA o : o.side # tx.row[id].side), ahead))
         IN  IF r.err THEN Fail(tx)
             ELSE FoldLeft(settleFill,
                           [saveOrders(tx, Append(r.makers, r.taker)) EXCEPT !.activated = TRUE],
                           r.trades)

activateTriggeredStops(tx, trades) ==
    IF trades = <<>> THEN tx
    ELSE FoldLeft(LAMBDA x, id : activateStop(x, id, Last(trades).price), tx,
                  inOrder(Stops))

PersistBookMatchResult(result) ==
    activateTriggeredStops(
        releaseUnfilled(
            FoldLeft(settleFill,
                     saveOrders([ok |-> TRUE, activated |-> FALSE, row |-> row,
                                 held |-> held, traded |-> traded],
                                Append(result.makers, result.taker)),
                     result.trades),
            result.taker),
        result.trades)

snapshotEnabled(sequence) == SnapshotEvery > 0 /\ sequence % SnapshotEvery = 0

takesSnapshot(sequence) == snapshotEnabled(sequence) /\ sequence >= snap.sequence

captureMatcherSnapshot(sequence, rows) ==
    [sequence |-> sequence,
     items |-> CaptureState(Load(NewMarketBook, ListActiveOrdersForUpdate(rows)))]

-----------------------------------------------------------------------------
(* The cycle of the matcher.                                               *)

goTo(step) == job' = [job EXCEPT !.step = step]

\* A fault costs one of a bounded number.
suffer == faults < MatcherFaults /\ faults' = faults + 1 /\ UNCHANGED reloadFaults

EnsureLoaded ==
    /\ job.step = "idle"
    /\ IF rt.loaded \/ runtime = "book" THEN UNCHANGED <<rt, astray>> ELSE Reload
    /\ goTo(IF runtime = "book" THEN "claim" ELSE "recover")
    /\ UNCHANGED <<dbVars, unreplayable, spoiled, faults, reloadFaults, cancels>>

\* The cycle ends with the error.
EnsureLoadedFails ==
    /\ job.step = "idle"
    /\ runtime = "resident" /\ ~rt.loaded
    /\ ReloadFails
    /\ UNCHANGED <<dbVars, job, unreplayable, spoiled, faults, cancels>>

appliedRow(c) == [c EXCEPT !.status = "applied", !.stale = FALSE]

\* completeRecoveredCommandLogs finishes the commands whose result was persisted.
unappliedThrough(last) ==
    {i \in Ids : i <= last /\ cmd[i].status \in {"pending", "processing"} /\ i \in DOMAIN event}

CompleteRecovered ==
    /\ job.step = "recover"
    /\ \/ /\ unappliedThrough(rt.last) = {}
          /\ goTo("claim")
          /\ UNCHANGED cmd
       \/ /\ unappliedThrough(rt.last) # {}
          /\ cmd' = [cmd EXCEPT ![Min(unappliedThrough(rt.last))] = appliedRow(@)]
          /\ UNCHANGED job
    /\ UNCHANGED <<row, held, traded, event, snap, rt, historyVars, faults, reloadFaults, cancels>>

\* Mutant: only a restart of the database frees a locked command.
claimableUnlocked(id) ==
    /\ cmd[id].status = "pending" /\ cmd[id].due
    /\ rt.last > 0 => id > rt.last

claimable(id) ==
    /\ \/ cmd[id].status = "pending" /\ cmd[id].due
       \/ cmd[id].status = "processing" /\ cmd[id].stale
    /\ rt.last > 0 => id > rt.last

claimBatch ==
    LET all == inOrder({id \in Ids : claimable(id)})
    IN  SubSeq(all, 1, Min({Len(all), ClaimBatch}))

claimedRow(c) ==
    [c EXCEPT !.status = "processing", !.stale = FALSE,
              !.attempts = IF @ < CommandTries THEN @ + 1 ELSE @]

ClaimOrderCommandLogsAfter ==
    /\ job.step = "claim"
    /\ cmd' = [id \in Ids |-> IF id \in Range(claimBatch) THEN claimedRow(cmd[id]) ELSE cmd[id]]
    /\ job' = [job EXCEPT !.step = IF claimBatch = <<>> THEN "idle" ELSE "match",
                          !.todo = claimBatch]
    /\ UNCHANGED <<row, held, traded, event, snap, rt, historyVars, faults, reloadFaults, cancels>>

\* The command has a match event, or its order is over, or rests in the book.
nothingToMatch(id) ==
    \/ id \in DOMAIN event
    \/ ~runtimeMatchable(row[id].status)
    \/ id \in DOMAIN rt.book.orders

\* ProcessCommand up to the transaction: the order is read, and matched in memory.
MatchInMemory(id, r) ==
    IF r.err THEN goTo("fail") /\ UNCHANGED rt
    ELSE /\ rt' = [rt EXCEPT !.book = r.book]
         /\ job' = [job EXCEPT !.step = "persist", !.before = rt.book,
                !.result = [taker |-> r.taker, makers |-> r.makers, trades |-> r.trades]]

incoming(id) == [row[id] EXCEPT !.status = IF @ = "pending_match" THEN "open" ELSE @]

MatchCommand(id) ==
    /\ job.step = "match"
    /\ runtime = "resident"
    /\ id = Head(job.todo)
    /\ IF nothingToMatch(id) THEN goTo("apply") /\ UNCHANGED rt
       ELSE \E r \in {Apply(rt.book, incoming(id))} : MatchInMemory(id, r)
    /\ UNCHANGED <<dbVars, historyVars, faults, reloadFaults, cancels>>

\* The order was canceled since it was read: nothing is written and nothing undone.
PersistSkips ==
    /\ job.step = "persist"
    /\ ~runtimeMatchable(row[job.result.taker.id].status)
    /\ astray' = (astray \/ job.result.makers # <<>>)
    /\ goTo("apply")
    /\ UNCHANGED <<dbVars, rt, unreplayable, spoiled, faults, reloadFaults, cancels>>

\* What a transaction that matched writes, its match event and snapshot included.
commit(id, result, tx) ==
    /\ row' = tx.row /\ held' = tx.held /\ traded' = tx.traded
    /\ event' = (id :> result) @@ event
    /\ snap' = IF takesSnapshot(id) THEN captureMatcherSnapshot(id, tx.row) ELSE snap
    /\ unreplayable' = \/ id < LatestMatchEventSequence
                       \/ ~takesSnapshot(id) /\ (unreplayable \/ tx.activated)
    /\ spoiled' = (spoiled \/ astray)

PersistCommits(id, tx) ==
    /\ id = job.result.taker.id
    /\ runtimeMatchable(row[id].status)
    /\ tx.ok
    /\ commit(id, job.result, tx)
    /\ goTo(IF tx.activated THEN "reload" ELSE "apply")
    /\ UNCHANGED <<cmd, rt, astray, faults, reloadFaults, cancels>>

matchWithBook(id) ==
    Apply(Load(NewMarketBook, SelectSeq(ListActiveOrdersForUpdate(row), LAMBDA o : o.id # id)),
          incoming(id))

\* The match of a matcher without a resident book: one transaction.
MatchOrderWithBook(id) ==
    /\ job.step = "match"
    /\ runtime = "book"
    /\ id = Head(job.todo)
    /\ \/ nothingToMatch(id) /\ goTo("apply") /\ UNCHANGED <<dbVars, unreplayable, spoiled>>
       \/ /\ ~nothingToMatch(id)
          /\ \E r \in {matchWithBook(id)} : \E tx \in {PersistBookMatchResult(r)} :
                IF r.err \/ ~tx.ok
                THEN goTo("fail") /\ UNCHANGED <<dbVars, unreplayable, spoiled>>
                ELSE /\ commit(id, [taker |-> r.taker, makers |-> r.makers, trades |-> r.trades], tx)
                     /\ goTo("apply")
                     /\ UNCHANGED cmd
    /\ UNCHANGED <<rt, astray, faults, reloadFaults, cancels>>

ReloadAfterStops ==
    /\ job.step = "reload"
    /\ Reload
    /\ goTo("apply")
    /\ UNCHANGED <<dbVars, unreplayable, spoiled, faults, reloadFaults, cancels>>

\* The command fails, although its result is persisted.
ReloadAfterStopsFails ==
    /\ job.step = "reload"
    /\ ReloadFails
    /\ goTo("fail")
    /\ UNCHANGED <<dbVars, unreplayable, spoiled, faults, cancels>>

\* Mutant: the copy taken before is not put back.
undoInMemoryNothing == rt

\* The copy of the book taken before the match.
undoInMemory == [rt EXCEPT !.book = RestoreMarketBook(CaptureState(job.before))]

\* Mutant: the error is logged and the command applied.
PersistFailsSilently(tx) ==
    /\ \/ runtimeMatchable(row[job.result.taker.id].status) /\ ~tx.ok /\ UNCHANGED <<faults, reloadFaults>>
       \/ suffer
    /\ rt' = undoInMemory
    /\ goTo("apply")
    /\ UNCHANGED <<dbVars, historyVars, cancels>>

\* The settlement refuses the result, or the database is lost.
PersistFails(tx) ==
    /\ \/ runtimeMatchable(row[job.result.taker.id].status) /\ ~tx.ok /\ UNCHANGED <<faults, reloadFaults>>
       \/ suffer
    /\ rt' = undoInMemory
    /\ goTo("fail")
    /\ UNCHANGED <<dbVars, historyVars, cancels>>

nextCommand ==
    job' = [Waiting EXCEPT !.step = IF Len(job.todo) = 1 THEN "idle" ELSE "match",
                           !.todo = Tail(job.todo)]

ApplyOrderCommandLog(id) ==
    /\ job.step = "apply"
    /\ id = Head(job.todo)
    /\ cmd' = [cmd EXCEPT ![id] = appliedRow(@)]
    /\ rt' = IF runtime = "book" THEN rt ELSE [rt EXCEPT !.last = Max({@, id})]
    /\ nextCommand
    /\ UNCHANGED <<row, held, traded, event, snap, historyVars, faults, reloadFaults, cancels>>

ApplyFails ==
    /\ job.step \in {"apply", "match"}
    /\ suffer
    /\ goTo("fail")
    /\ UNCHANGED <<dbVars, rt, historyVars, cancels>>

failedRow(c) ==
    IF c.attempts >= CommandTries
    THEN [c EXCEPT !.status = "quarantined", !.stale = FALSE, !.due = TRUE]
    ELSE [c EXCEPT !.status = "pending", !.stale = FALSE, !.due = FALSE]

FailOrderCommandLog(id) ==
    /\ job.step = "fail"
    /\ id = Head(job.todo)
    /\ cmd' = [cmd EXCEPT ![id] = failedRow(@)]
    /\ nextCommand
    /\ UNCHANGED <<row, held, traded, event, snap, rt, historyVars, faults, reloadFaults, cancels>>

\* A command that cannot be marked ends the cycle; its batch stays locked.
DropBatch ==
    /\ job.step \in {"recover", "claim", "fail"}
    /\ suffer
    /\ job' = Waiting
    /\ UNCHANGED <<dbVars, rt, historyVars, cancels>>

Crash ==
    /\ job.step # "idle" \/ rt.loaded
    /\ suffer
    /\ rt' = NotLoaded
    /\ job' = Waiting
    /\ astray' = FALSE
    /\ UNCHANGED <<dbVars, unreplayable, spoiled, cancels>>

-----------------------------------------------------------------------------
(* Time.  Nobody but the matcher looks at the locks it holds.              *)

LockExpires(id) ==
    /\ cmd[id].status = "processing"
    /\ ~cmd[id].stale
    /\ id \notin Range(job.todo)
    /\ cmd' = [cmd EXCEPT ![id].stale = TRUE]
    /\ UNCHANGED <<runtime, row, held, traded, event, snap, rt, job, historyVars, faults, reloadFaults, cancels>>

RetryDue(id) ==
    /\ cmd[id].status = "pending"
    /\ ~cmd[id].due
    /\ cmd' = [cmd EXCEPT ![id].due = TRUE]
    /\ UNCHANGED <<runtime, row, held, traded, event, snap, rt, job, historyVars, faults, reloadFaults, cancels>>

Persist ==
    \/ PersistSkips
    \/ /\ job.step = "persist"
       /\ \E tx \in {PersistBookMatchResult(job.result)} :
             PersistCommits(job.result.taker.id, tx) \/ PersistFails(tx)

\* One cycle of runCommandLogOnceWithRuntime.
Cycle ==
    \/ EnsureLoaded \/ CompleteRecovered \/ ClaimOrderCommandLogsAfter
    \/ Persist \/ ReloadAfterStops
    \/ \E id \in Ids : MatchCommand(id) \/ MatchOrderWithBook(id)
    \/ \E id \in Ids : ApplyOrderCommandLog(id) \/ FailOrderCommandLog(id)

Next ==
    /\ UNCHANGED runtime
    /\ \/ \E id \in Ids : Place(id) \/ Cancel(id) \/ LockExpires(id) \/ RetryDue(id)
       \/ Cycle
       \/ EnsureLoadedFails \/ ReloadAfterStopsFails \/ ApplyFails \/ DropBatch \/ Crash

\* The loop runs for ever and its calls return (some step of it is always possible,
\* so this is its weak fairness), and time passes.
Fairness ==
    /\ []<><<Cycle>>_vars
    /\ \A id \in Ids : WF_vars(LockExpires(id)) /\ WF_vars(RetryDue(id))

Spec == Init /\ [][Next]_vars /\ Fairness

-----------------------------------------------------------------------------
(* Properties.                                                             *)

\* The book that was rebuilt or matched in is the one the database has, down to the
\* order in its queues, but for orders that were canceled in the meantime: after any
\* crash, failed transaction, retry and reload that went well.  Except where a cancel came
\* between the match and its transaction, where a rebuild had to miss triggered stops or
\* results that were committed out of their order, or where a read failed in a rebuild:
\* then the book of before, or one without the last events, goes on as if it were loaded.
BookIsActive ==
    rt.loaded /\ ~astray /\ job.step \notin {"persist", "reload"} =>
        FoldLeft(removeOrder, rt.book,
                 inOrder({id \in Ids : row[id].status = "canceled"}))
        = Load(NewMarketBook, ListActiveOrdersForUpdate(row))

\* What an order is said to have filled was traded, once, and what is left of it is
\* still reserved, although its command is repeated after crashes and the rows are
\* written from memory; unless a result of a book gone astray was persisted.
FilledIsTraded ==
    spoiled \/ \A id \in Ids :
        /\ row[id].filled = traded[id]
        /\ runtimeMatchable(row[id].status) => held[id] = row[id].remaining

\* An order that is over stays as it is: a canceled maker the book still has is never
\* filled, because its reservation is gone.
OverIsOver ==
    [][\A id \in Ids : row[id].status \in {"canceled", "filled", "expired"} =>
          row'[id] = row[id]]_vars

\* Every command is applied or quarantined in the end, whatever crashes, except one
\* without a result that the matcher has passed in the log.
CommandsEnd ==
    <>[](\A id \in Ids :
            \/ cmd[id].status \in {"none", "applied", "quarantined"}
            \/ id \notin DOMAIN event /\ id <= rt.last)

\* The command log is a queue that matches each order at least once: a command is
\* applied only when its order was matched or is over.
commandState(c) ==
    IF c.status = "none" THEN "absent"
    ELSE IF c.status = "applied" THEN "finished"
    ELSE IF c.status = "quarantined" THEN "abandoned" ELSE "open"

CommandQueue == INSTANCE WorkQueue WITH
    Items <- Ids \ Stops, MaxTries <- CommandTries,
    state <- [id \in Ids \ Stops |-> commandState(cmd[id])],
    tries <- [id \in Ids \ Stops |-> cmd[id].attempts],
    done <- {id \in Ids \ Stops : row[id].status \notin {"none", "pending_match"}}

CommandsAreAQueue == CommandQueue!QueueSpec
=============================================================================
