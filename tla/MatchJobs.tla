----------------------------- MODULE MatchJobs -----------------------------
(***************************************************************************)
(* The matcher workers of asynchronous matching and their job table.       *)
(*                                                                         *)
(* A placement leaves a job for its order.  Workers claim batches of jobs  *)
(* under a lock that expires, match the orders one after the other and     *)
(* mark each job completed, or failed and due again after a delay, or      *)
(* quarantined.  A worker whose lock has expired is not told: it goes on,  *)
(* beside the worker that claims the job next.                             *)
(*                                                                         *)
(* Matching itself is module Orders.  Here an order is only pending_match, *)
(* resting or filled by its own match, or closed by others (as a maker or  *)
(* by a cancel).                                                           *)
(***************************************************************************)
EXTENDS Naturals, FiniteSets

CONSTANTS
    NumJobs,     \* jobs 1 .. NumJobs, numbered in the order of created_at (bound)
    Workers,     \* matcher processes
    BatchSize,   \* MATCHER_BATCH_SIZE
    MaxAttempts, \* MATCHER_MAX_ATTEMPTS
    MaxFaults    \* crashes and lost connections of the workers (bound)

ASSUME MatchJobsAssumption ==
    /\ NumJobs \in Nat
    /\ BatchSize \in Nat \ {0}
    /\ MaxAttempts \in Nat \ {0}
    /\ MaxFaults \in Nat

Jobs == 1..NumJobs

VARIABLES
    jobs,    \* exchange_match_jobs
    ord,     \* the state of each job's order
    worker,  \* what each worker is doing
    outbox,  \* jobs whose order's update is in exchange_outbox_events
    expired, \* history: jobs whose lock has expired while it was held
    faults   \* crashes so far

vars == <<jobs, ord, worker, outbox, expired, faults>>

-----------------------------------------------------------------------------
(* A row of the job table.  Times are kept as what they are compared for:  *)
(* stale is locked_at <= now - MATCHER_JOB_LOCK_TTL, due is available_at   *)
(* <= now.  Attempts are counted up to MaxAttempts, beyond which no        *)
(* comparison tells them apart.                                            *)

JobRow == [status : {"none", "pending", "processing", "completed", "quarantined"},
        attempts : 0..MaxAttempts, stale : BOOLEAN, due : BOOLEAN]

NoRow == [status |-> "none", attempts |-> 0, stale |-> FALSE, due |-> FALSE]

newRow == [status |-> "pending", attempts |-> 0, stale |-> FALSE, due |-> TRUE]

\* Mutant: a row that is being processed is claimed only by a restart.
claimableOnce(row) == row.status = "pending" /\ row.due

\* Mutant: the age of the lock is not looked at.
claimableHeld(row) ==
    row.status = "processing" \/ (row.status = "pending" /\ row.due)

claimable(row) ==
    \/ row.status = "pending" /\ row.due
    \/ row.status = "processing" /\ row.stale

claimedRow(row) ==
    [status |-> "processing",
     attempts |-> IF row.attempts < MaxAttempts THEN row.attempts + 1 ELSE MaxAttempts,
     stale |-> FALSE, due |-> row.due]

completedRow(row) == [row EXCEPT !.status = "completed", !.stale = FALSE]

failedRow(row) ==
    IF row.attempts >= MaxAttempts
    THEN [row EXCEPT !.status = "quarantined", !.stale = FALSE, !.due = TRUE]
    ELSE [row EXCEPT !.status = "pending", !.stale = FALSE, !.due = FALSE]

-----------------------------------------------------------------------------
(* The workers.                                                            *)

Worker == [todo : SUBSET Jobs,
           step : {"idle", "match", "publish", "complete", "fail"}]

Idle == [todo |-> {}, step |-> "idle"]

\* The job a worker is at: the batch is worked through in the order of creation.
isCurrent(w, j) == j \in worker[w].todo /\ \A k \in worker[w].todo : j <= k

Init ==
    /\ jobs = [j \in Jobs |-> NoRow]
    /\ ord = [j \in Jobs |-> "pending_match"]
    /\ worker = [w \in Workers |-> Idle]
    /\ outbox = {}
    /\ expired = {}
    /\ faults = 0

\* The oldest claimable jobs, at most BatchSize of them.
oldest(S) == {j \in S : Cardinality({k \in S : k < j}) < BatchSize}

ClaimMatchJobs(w) ==
    LET batch == oldest({j \in Jobs : claimable(jobs[j])})
    IN  /\ worker[w].step = "idle"
        /\ batch # {}
        /\ jobs' = [j \in Jobs |-> IF j \in batch THEN claimedRow(jobs[j]) ELSE jobs[j]]
        /\ worker' = [worker EXCEPT ![w] = [todo |-> batch, step |-> "match"]]
        /\ UNCHANGED <<ord, outbox, expired, faults>>

goTo(w, step) == worker' = [worker EXCEPT ![w].step = step]

\* MatchOrder commits: the order rests or is filled, and its update is published
\* after the transaction.
MatchCommits(w, j, result) ==
    /\ worker[w].step = "match"
    /\ isCurrent(w, j)
    /\ ord[j] \in {"pending_match", "resting"}
    /\ ord' = [ord EXCEPT ![j] = result]
    /\ goTo(w, "publish")
    /\ UNCHANGED <<jobs, outbox, expired, faults>>

\* The order is over already: nothing is done and nothing is published.
MatchSkips(w, j) ==
    /\ worker[w].step = "match"
    /\ isCurrent(w, j)
    /\ ord[j] \in {"filled", "closed"}
    /\ goTo(w, "complete")
    /\ UNCHANGED <<jobs, ord, outbox, expired, faults>>

\* Mutant: an error of the matching is logged and forgotten.
MatchFailsSilently(w, j) ==
    /\ worker[w].step = "match"
    /\ isCurrent(w, j)
    /\ goTo(w, "complete")
    /\ UNCHANGED <<jobs, ord, outbox, expired, faults>>

\* An error or a panic: the transaction is rolled back.
MatchFails(w, j) ==
    /\ worker[w].step = "match"
    /\ isCurrent(w, j)
    /\ goTo(w, "fail")
    /\ UNCHANGED <<jobs, ord, outbox, expired, faults>>

\* The publisher of the matcher: an insert of its own, whose error is only logged.
PublishUpdate(w, j) ==
    /\ worker[w].step = "publish"
    /\ isCurrent(w, j)
    /\ outbox' \in {outbox, outbox \cup {j}}
    /\ goTo(w, "complete")
    /\ UNCHANGED <<jobs, ord, expired, faults>>

\* The worker is done with a job and takes the next of its batch.
proceed(w, j) ==
    worker' = [worker EXCEPT ![w] =
        [todo |-> @.todo \ {j}, step |-> IF @.todo = {j} THEN "idle" ELSE "match"]]

CompleteMatchJob(w, j) ==
    /\ worker[w].step = "complete"
    /\ isCurrent(w, j)
    /\ jobs' = [jobs EXCEPT ![j] = completedRow(@)]
    /\ proceed(w, j)
    /\ UNCHANGED <<ord, outbox, expired, faults>>

FailMatchJob(w, j) ==
    /\ worker[w].step = "fail"
    /\ isCurrent(w, j)
    /\ jobs' = [jobs EXCEPT ![j] = failedRow(@)]
    /\ proceed(w, j)
    /\ UNCHANGED <<ord, outbox, expired, faults>>

\* A crash and restart, a shutdown, or a job that cannot be marked: the rest of
\* the batch is dropped and stays locked.
DropBatch(w) ==
    /\ worker[w].step # "idle"
    /\ faults < MaxFaults
    /\ faults' = faults + 1
    /\ worker' = [worker EXCEPT ![w] = Idle]
    /\ UNCHANGED <<jobs, ord, outbox, expired>>

-----------------------------------------------------------------------------
(* The environment: placements, other orders, time.                        *)

CreateMatchJob(j) ==
    /\ jobs[j].status = "none"
    /\ \A i \in Jobs : i < j => jobs[i].status # "none"
    /\ jobs' = [jobs EXCEPT ![j] = newRow]
    /\ UNCHANGED <<ord, worker, outbox, expired, faults>>

\* A cancel, or another order that takes this one as its maker.
CloseOrder(j) ==
    /\ jobs[j].status # "none"
    /\ ord[j] \in {"pending_match", "resting"}
    /\ ord' = [ord EXCEPT ![j] = "closed"]
    /\ UNCHANGED <<jobs, worker, outbox, expired, faults>>

LockExpires(j) ==
    /\ jobs[j].status = "processing"
    /\ ~jobs[j].stale
    /\ jobs' = [jobs EXCEPT ![j].stale = TRUE]
    /\ expired' = expired \cup {j}
    /\ UNCHANGED <<ord, worker, outbox, faults>>

RetryDue(j) ==
    /\ jobs[j].status = "pending"
    /\ ~jobs[j].due
    /\ jobs' = [jobs EXCEPT ![j].due = TRUE]
    /\ UNCHANGED <<ord, worker, outbox, expired, faults>>

\* What a worker does with the job it is at.
Work(w, j) ==
    \/ \E result \in {"resting", "filled"} : MatchCommits(w, j, result)
    \/ MatchSkips(w, j)
    \/ MatchFails(w, j)
    \/ PublishUpdate(w, j)
    \/ CompleteMatchJob(w, j)
    \/ FailMatchJob(w, j)

Next ==
    \/ \E w \in Workers : ClaimMatchJobs(w) \/ DropBatch(w)
    \/ \E w \in Workers, j \in Jobs : Work(w, j)
    \/ \E j \in Jobs : CreateMatchJob(j) \/ CloseOrder(j) \/ LockExpires(j) \/ RetryDue(j)

Spec == Init /\ [][Next]_vars

\* A worker polls forever and every call it makes returns or times out; time
\* passes.  Nothing says that an order is placed, closed or that a worker fails.
Fairness ==
    /\ \A w \in Workers : WF_vars(ClaimMatchJobs(w))
    /\ \A w \in Workers : WF_vars(\E j \in Jobs : Work(w, j))
    /\ \A j \in Jobs : WF_vars(LockExpires(j)) /\ WF_vars(RetryDue(j))

FairSpec == Spec /\ Fairness

-----------------------------------------------------------------------------
(* Properties.                                                             *)

TypeOK ==
    /\ jobs \in [Jobs -> JobRow]
    /\ ord \in [Jobs -> {"pending_match", "resting", "filled", "closed"}]
    /\ worker \in [Workers -> Worker]
    /\ outbox \subseteq Jobs
    /\ expired \subseteq Jobs
    /\ faults \in 0..MaxFaults

\* No job is completed before its order has been matched or is over, although
\* workers that lost their lock complete and fail jobs of others.
CompletedWasMatched ==
    \A j \in Jobs : jobs[j].status = "completed" => ord[j] # "pending_match"

\* SKIP LOCKED and the lock give a job to one worker at a time, until a lock has
\* expired in somebody's hands.
OneWorkerPerJob ==
    \A j \in Jobs \ expired : \A v, w \in Workers :
        j \in worker[v].todo /\ j \in worker[w].todo => v = w

\* A late worker cannot bring a quarantined job back into the queue: at most its
\* success completes it.
QuarantineHolds ==
    [][\A j \in Jobs : jobs[j].status = "quarantined" =>
          jobs'[j].status \in {"quarantined", "completed"}]_vars

\* Every job is completed or quarantined in the end, and stays so, although workers
\* crash in the middle of a batch, locks expire under their owners and late
\* failures reopen completed jobs.
JobsEnd ==
    \A j \in Jobs : jobs[j].status = "pending" ~>
                       [](jobs[j].status \in {"completed", "quarantined"})

\* The job table is a queue that does the work of each job at least once: an order
\* counts as matched once its match has committed or it is over.
queueState(row) ==
    IF row.status = "none" THEN "absent"
    ELSE IF row.status = "completed" THEN "finished"
    ELSE IF row.status = "quarantined" THEN "abandoned" ELSE "open"

JobQueue == INSTANCE WorkQueue WITH
    Items <- Jobs, MaxTries <- MaxAttempts,
    state <- [j \in Jobs |-> queueState(jobs[j])],
    tries <- [j \in Jobs |-> jobs[j].attempts],
    done <- {j \in Jobs : ord[j] # "pending_match"}

JobsAreAQueue == JobQueue!QueueSpec

\* What the documentation says: the "Matcher writes order/trade/book state and emits
\* durable exchange events through outbox".  The update of an order that its
\* match filled gets into the outbox.
FilledIsAnnounced == \A j \in Jobs : ord[j] = "filled" ~> j \in outbox
=============================================================================
