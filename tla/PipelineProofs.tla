--------------------------- MODULE PipelineProofs ---------------------------
(***************************************************************************)
(* The safety of what follows a committed placement, for any number of     *)
(* jobs, events, workers, clients, messages and trades, any batch size and *)
(* any number of faults, whichever backend is deployed: the match jobs,    *)
(* the outbox, the websocket updates, the candles.                         *)
(***************************************************************************)
EXTENDS MatchJobs, Outbox, Updates, Candles, SequenceTheorems, FiniteSetTheorems,
        WellFoundedInduction, NaturalsInduction, TLAPS

-----------------------------------------------------------------------------
(***************************************************************************)
(* The match jobs: a job is matched under a lock, and the table of jobs    *)
(* implements the queue.                                                   *)
(***************************************************************************)

\* A worker that is about to publish or to complete a job has seen its order
\* matched or over.
WorkSeen ==
    \A w \in Workers, j \in Jobs :
        isCurrent(w, j) /\ worker[w].step \in {"publish", "complete"} =>
            ord[j] # "pending_match"

\* A job that a worker has and whose lock never expired is locked.
JobHeldIsLocked ==
    \A w \in Workers : \A j \in worker[w].todo :
        j \notin expired => jobs[j].status = "processing"

\* A lock that is stale is on record.
StaleIsExpired == \A j \in Jobs : jobs[j].stale => j \in expired

\* A quarantined job has used up its attempts.
QuarantinedSpent ==
    \A j \in Jobs : jobs[j].status = "quarantined" => jobs[j].attempts >= MaxAttempts

JobsInv ==
    /\ TypeOK
    /\ WorkSeen
    /\ CompletedWasMatched
    /\ JobHeldIsLocked
    /\ StaleIsExpired
    /\ OneWorkerPerJob
    /\ QuarantinedSpent

USE MatchJobsAssumption

-----------------------------------------------------------------------------
\* Every row of the table is a job.
LEMMA RowsTyped ==
    ASSUME NEW row \in JobRow
    PROVE  claimedRow(row) \in JobRow /\ completedRow(row) \in JobRow
           /\ failedRow(row) \in JobRow /\ newRow \in JobRow
<1>1. claimedRow(row) \in JobRow
  BY DEF JobRow, claimedRow
<1>2. completedRow(row) \in JobRow
  BY DEF JobRow, completedRow
<1>3. failedRow(row) \in JobRow
  BY DEF JobRow, failedRow
<1>4. newRow \in JobRow
  BY DEF JobRow, newRow
<1> QED  BY <1>1, <1>2, <1>3, <1>4

\* A worker works on one job at a time.
LEMMA CurrentUnique ==
    ASSUME TypeOK, NEW w \in Workers, NEW i \in Jobs, NEW j \in Jobs,
           isCurrent(w, i), isCurrent(w, j)
    PROVE  i = j
  BY DEF isCurrent, Jobs

\* The empty table is sound.
LEMMA JobInitInv == Init => JobsInv
  BY DEF Init, JobsInv, TypeOK, WorkSeen, CompletedWasMatched, JobHeldIsLocked,
         StaleIsExpired, OneWorkerPerJob, QuarantinedSpent, NoRow, JobRow, Idle, Worker, isCurrent

\* ClaimMatchJobs takes only what is due or stale, and locks it.
LEMMA JobClaimInv ==
    ASSUME JobsInv, NEW w \in Workers, ClaimMatchJobs(w)
    PROVE  JobsInv'
<1> DEFINE batch == oldest({j \in Jobs : claimable(jobs[j])})
<1>1. /\ batch \subseteq Jobs
      /\ \A j \in batch : claimable(jobs[j])
  BY DEF oldest
<1>2. /\ jobs' = [j \in Jobs |-> IF j \in batch THEN claimedRow(jobs[j]) ELSE jobs[j]]
      /\ worker' = [worker EXCEPT ![w] = [todo |-> batch, step |-> "match"]]
      /\ UNCHANGED <<ord, outbox, expired, faults>>
  BY DEF ClaimMatchJobs
<1>3. jobs \in [Jobs -> JobRow] /\ worker \in [Workers -> Worker]
  BY DEF JobsInv, TypeOK
<1> HIDE DEF batch
<1>4. TypeOK'
  <2>1. jobs' \in [Jobs -> JobRow]
    BY <1>2, <1>3, RowsTyped
  <2>2. worker' \in [Workers -> Worker]
    BY <1>1, <1>2, <1>3 DEF Worker
  <2> QED  BY <1>2, <2>1, <2>2 DEF JobsInv, TypeOK
<1>5. WorkSeen'
  BY <1>2, <1>3 DEF JobsInv, WorkSeen, isCurrent
<1>6. CompletedWasMatched'
  BY <1>2, <1>3 DEF JobsInv, CompletedWasMatched, claimedRow
<1>7. JobHeldIsLocked'
  BY <1>1, <1>2, <1>3 DEF JobsInv, JobHeldIsLocked, claimedRow, Worker
<1>8. StaleIsExpired'
  BY <1>2, <1>3 DEF JobsInv, StaleIsExpired, claimedRow
<1>9. \A j \in batch : j \notin expired => \A v \in Workers : j \notin worker[v].todo
  BY <1>1, <1>3 DEF JobsInv, JobHeldIsLocked, StaleIsExpired, claimable
<1>10. OneWorkerPerJob'
  BY <1>2, <1>3, <1>9 DEF JobsInv, OneWorkerPerJob
<1>11. QuarantinedSpent'
  BY <1>2, <1>3 DEF JobsInv, QuarantinedSpent, claimedRow
<1> QED  BY <1>4, <1>5, <1>6, <1>7, <1>8, <1>10, <1>11 DEF JobsInv

\* The steps of a worker that leave the job table alone.
LEMMA MatchInv ==
    ASSUME JobsInv, NEW w \in Workers, NEW j \in Jobs,
           \/ \E result \in {"resting", "filled"} : MatchCommits(w, j, result)
           \/ MatchSkips(w, j)
           \/ MatchFails(w, j)
           \/ PublishUpdate(w, j)
    PROVE  JobsInv'
<1>1. PICK step \in {"publish", "complete", "fail"} :
          /\ worker' = [worker EXCEPT ![w].step = step]
          /\ step # "fail" => ord'[j] # "pending_match"
  <2>1. isCurrent(w, j) /\ worker[w].step = "publish" => ord[j] # "pending_match"
    BY DEF JobsInv, WorkSeen
  <2> QED  BY <2>1 DEF MatchCommits, MatchSkips, MatchFails, PublishUpdate, goTo,
                       JobsInv, TypeOK
<1>2. /\ jobs' = jobs /\ expired' = expired /\ faults' = faults
      /\ outbox' \subseteq Jobs
      /\ isCurrent(w, j)
  BY DEF MatchCommits, MatchSkips, MatchFails, PublishUpdate, JobsInv, TypeOK
<1>3. /\ ord' \in [Jobs -> {"pending_match", "resting", "filled", "closed"}]
      /\ \A i \in Jobs : ord[i] # "pending_match" => ord'[i] # "pending_match"
  BY DEF MatchCommits, MatchSkips, MatchFails, PublishUpdate, JobsInv, TypeOK
<1>4. worker \in [Workers -> Worker]
  BY DEF JobsInv, TypeOK
<1>5. /\ worker' \in [Workers -> Worker]
      /\ \A v \in Workers : worker'[v].todo = worker[v].todo
      /\ \A v \in Workers : v # w => worker'[v].step = worker[v].step
      /\ worker'[w].step = step
  BY <1>1, <1>4 DEF Worker
<1>6. TypeOK'
  BY <1>2, <1>3, <1>5 DEF JobsInv, TypeOK
<1>7. WorkSeen'
  <2> SUFFICES ASSUME NEW v \in Workers, NEW i \in Jobs,
                      isCurrent(v, i)', worker'[v].step \in {"publish", "complete"}
               PROVE  ord'[i] # "pending_match"
    BY DEF WorkSeen
  <2>1. isCurrent(v, i)
    BY <1>5 DEF isCurrent
  <2>2. CASE v = w
    <3>1. i = j
      BY <1>2, <2>1, <2>2, CurrentUnique DEF JobsInv
    <3> QED  BY <1>1, <1>5, <2>2, <3>1
  <2>3. CASE v # w
    BY <1>3, <1>5, <2>1, <2>3 DEF JobsInv, WorkSeen
  <2> QED  BY <2>2, <2>3
<1>8. CompletedWasMatched'
  BY <1>2, <1>3 DEF JobsInv, CompletedWasMatched
<1>9. JobHeldIsLocked' /\ StaleIsExpired' /\ OneWorkerPerJob' /\ QuarantinedSpent'
  BY <1>2, <1>5 DEF JobsInv, JobHeldIsLocked, StaleIsExpired, OneWorkerPerJob, QuarantinedSpent
<1> QED  BY <1>6, <1>7, <1>8, <1>9 DEF JobsInv

\* A worker marks a job and proceeds; the row may by now be somebody else's.
LEMMA JobMarkInv ==
    ASSUME JobsInv, NEW w \in Workers, NEW j \in Jobs,
           CompleteMatchJob(w, j) \/ FailMatchJob(w, j)
    PROVE  JobsInv'
<1>1. jobs \in [Jobs -> JobRow] /\ worker \in [Workers -> Worker]
  BY DEF JobsInv, TypeOK
<1>2. /\ proceed(w, j) /\ isCurrent(w, j)
      /\ UNCHANGED <<ord, outbox, expired, faults>>
  BY DEF CompleteMatchJob, FailMatchJob
<1>3. PICK row \in JobRow :
          /\ jobs' = [jobs EXCEPT ![j] = row]
          /\ ~row.stale
          /\ row.status = "completed" => ord[j] # "pending_match"
          /\ row.status = "quarantined" => row.attempts >= MaxAttempts
  <2>1. CASE CompleteMatchJob(w, j)
    <3> DEFINE row == completedRow(jobs[j])
    <3>1. row \in JobRow /\ jobs' = [jobs EXCEPT ![j] = row]
      BY <1>1, <2>1, RowsTyped DEF CompleteMatchJob
    <3>2. ~row.stale /\ row.status = "completed"
      BY <1>1 DEF completedRow, JobRow
    <3>3. ord[j] # "pending_match"
      BY <1>2, <2>1 DEF CompleteMatchJob, JobsInv, WorkSeen
    <3> HIDE DEF row
    <3> QED  BY <3>1, <3>2, <3>3
  <2>2. CASE FailMatchJob(w, j)
    <3> DEFINE row == failedRow(jobs[j])
    <3>1. row \in JobRow /\ jobs' = [jobs EXCEPT ![j] = row]
      BY <1>1, <2>2, RowsTyped DEF FailMatchJob
    <3>2. /\ ~row.stale /\ row.status # "completed"
          /\ row.status = "quarantined" => row.attempts >= MaxAttempts
      BY <1>1 DEF failedRow, JobRow
    <3> HIDE DEF row
    <3> QED  BY <3>1, <3>2
  <2> QED  BY <2>1, <2>2
<1>4. /\ worker' \in [Workers -> Worker]
      /\ worker'[w].todo = worker[w].todo \ {j}
      /\ worker'[w].step \in {"idle", "match"}
      /\ \A v \in Workers : v # w => worker'[v] = worker[v]
  BY <1>1, <1>2 DEF proceed, Worker
<1>5. j \in worker[w].todo
  BY <1>2 DEF isCurrent
<1>6. TypeOK'
  BY <1>1, <1>2, <1>3, <1>4 DEF JobsInv, TypeOK
<1>7. WorkSeen'
  BY <1>2, <1>4 DEF JobsInv, WorkSeen, isCurrent
<1>8. CompletedWasMatched'
  BY <1>1, <1>2, <1>3 DEF JobsInv, CompletedWasMatched
<1>9. JobHeldIsLocked'
  BY <1>1, <1>2, <1>3, <1>4, <1>5 DEF JobsInv, JobHeldIsLocked, OneWorkerPerJob, Worker
<1>10. StaleIsExpired'
  BY <1>1, <1>2, <1>3 DEF JobsInv, StaleIsExpired
<1>11. OneWorkerPerJob'
  BY <1>2, <1>4 DEF JobsInv, OneWorkerPerJob
<1>12. QuarantinedSpent'
  BY <1>1, <1>3 DEF JobsInv, QuarantinedSpent
<1> QED  BY <1>6, <1>7, <1>8, <1>9, <1>10, <1>11, <1>12 DEF JobsInv

\* A worker that crashes or gives up loses its batch, not the rows.
LEMMA DropInv ==
    ASSUME JobsInv, NEW w \in Workers, DropBatch(w)
    PROVE  JobsInv'
<1>1. /\ worker' = [worker EXCEPT ![w] = Idle]
      /\ faults' \in 0..MaxFaults
      /\ UNCHANGED <<jobs, ord, outbox, expired>>
  BY DEF DropBatch, JobsInv, TypeOK
<1>2. worker \in [Workers -> Worker] /\ Idle \in Worker
  BY DEF JobsInv, TypeOK, Idle, Worker
<1>3. TypeOK'
  BY <1>1, <1>2 DEF JobsInv, TypeOK
<1>4. WorkSeen' /\ CompletedWasMatched'
  BY <1>1, <1>2 DEF JobsInv, WorkSeen, CompletedWasMatched, isCurrent, Idle
<1>5. JobHeldIsLocked' /\ StaleIsExpired' /\ OneWorkerPerJob' /\ QuarantinedSpent'
  BY <1>1, <1>2 DEF JobsInv, JobHeldIsLocked, StaleIsExpired, OneWorkerPerJob,
                    QuarantinedSpent, Idle
<1> QED  BY <1>3, <1>4, <1>5 DEF JobsInv

\* The environment never touches what a worker holds, but for expiring its lock.
LEMMA JobEnvironmentInv ==
    ASSUME JobsInv, NEW j \in Jobs,
           CreateMatchJob(j) \/ CloseOrder(j) \/ LockExpires(j) \/ RetryDue(j)
    PROVE  JobsInv'
<1>1. /\ jobs \in [Jobs -> JobRow] /\ worker \in [Workers -> Worker]
      /\ ord \in [Jobs -> {"pending_match", "resting", "filled", "closed"}]
  BY DEF JobsInv, TypeOK
<1>2. CASE CreateMatchJob(j)
  <2>1. jobs' = [jobs EXCEPT ![j] = newRow] /\ newRow \in JobRow
    BY <1>1, <1>2, RowsTyped DEF CreateMatchJob
  <2>2. UNCHANGED <<ord, worker, outbox, expired, faults>> /\ jobs[j].status = "none"
    BY <1>2 DEF CreateMatchJob
  <2> QED
    BY <1>1, <2>1, <2>2
       DEF newRow, JobsInv, TypeOK, WorkSeen, CompletedWasMatched, JobHeldIsLocked,
           StaleIsExpired, OneWorkerPerJob, QuarantinedSpent, isCurrent, Worker
<1>3. CASE CloseOrder(j)
  BY <1>1, <1>3
     DEF CloseOrder, JobsInv, TypeOK, WorkSeen, CompletedWasMatched, JobHeldIsLocked,
         StaleIsExpired, OneWorkerPerJob, QuarantinedSpent, isCurrent
<1>4. CASE LockExpires(j)
  <2>1. jobs' \in [Jobs -> JobRow]
    BY <1>1, <1>4 DEF LockExpires, JobRow
  <2>2. \A i \in Jobs : /\ jobs'[i].status = jobs[i].status
                        /\ jobs'[i].attempts = jobs[i].attempts
                        /\ i # j => jobs'[i] = jobs[i]
    BY <1>1, <1>4 DEF LockExpires, JobRow
  <2>3. UNCHANGED <<ord, worker, outbox, faults>> /\ expired' = expired \cup {j}
    BY <1>4 DEF LockExpires
  <2> QED
    BY <1>1, <2>1, <2>2, <2>3
       DEF JobsInv, TypeOK, WorkSeen, CompletedWasMatched, JobHeldIsLocked,
           StaleIsExpired, OneWorkerPerJob, QuarantinedSpent, isCurrent, Worker
<1>5. CASE RetryDue(j)
  <2>1. jobs' \in [Jobs -> JobRow]
    BY <1>1, <1>5 DEF RetryDue, JobRow
  <2>2. \A i \in Jobs : /\ jobs'[i].status = jobs[i].status
                        /\ jobs'[i].attempts = jobs[i].attempts
                        /\ jobs'[i].stale = jobs[i].stale
    BY <1>1, <1>5 DEF RetryDue, JobRow
  <2>3. UNCHANGED <<ord, worker, outbox, expired, faults>>
    BY <1>5 DEF RetryDue
  <2> QED
    BY <1>1, <2>1, <2>2, <2>3
       DEF JobsInv, TypeOK, WorkSeen, CompletedWasMatched, JobHeldIsLocked,
           StaleIsExpired, OneWorkerPerJob, QuarantinedSpent, isCurrent, Worker
<1> QED  BY <1>2, <1>3, <1>4, <1>5

\* Every step keeps the invariant.
LEMMA JobStepInv ==
    ASSUME JobsInv, [Next]_vars
    PROVE  JobsInv'
<1>1. CASE \E w \in Workers : ClaimMatchJobs(w) \/ DropBatch(w)
  BY <1>1, JobClaimInv, DropInv
<1>2. CASE \E w \in Workers, j \in Jobs : Work(w, j)
  <2>1. PICK w \in Workers, j \in Jobs : Work(w, j)
    BY <1>2
  <2> QED  BY <2>1, MatchInv, JobMarkInv DEF Work
<1>3. CASE \E j \in Jobs : CreateMatchJob(j) \/ CloseOrder(j) \/ LockExpires(j) \/ RetryDue(j)
  BY <1>3, JobEnvironmentInv
<1>4. CASE UNCHANGED vars
  BY <1>4 DEF vars, JobsInv, TypeOK, WorkSeen, CompletedWasMatched, JobHeldIsLocked,
              StaleIsExpired, OneWorkerPerJob, QuarantinedSpent, isCurrent
<1> QED  BY <1>1, <1>2, <1>3, <1>4 DEF Next

-----------------------------------------------------------------------------
\* The inductive invariant of the job table holds.
THEOREM JobsInvariant == Spec => []JobsInv
  BY JobInitInv, JobStepInv, PTL DEF Spec

\* No job is marked completed before its order was matched or over, however many
\* workers race for it and however late they are.
THEOREM JobsCompleteAfterMatch == Spec => []CompletedWasMatched
<1>1. JobsInv => CompletedWasMatched
  BY DEF JobsInv
<1> QED  BY <1>1, JobsInvariant, PTL

\* No two workers have a job at the same time unless its lock has expired.
THEOREM JobsAreExclusive == Spec => []OneWorkerPerJob
<1>1. JobsInv => OneWorkerPerJob
  BY DEF JobsInv
<1> QED  BY <1>1, JobsInvariant, PTL

\* A failure reported late never brings a quarantined job back into the queue.
THEOREM QuarantineIsFinal == Spec => QuarantineHolds
<1> DEFINE Held == \A j \in Jobs : jobs[j].status = "quarantined" =>
                       jobs'[j].status \in {"quarantined", "completed"}
<1>1. JobsInv /\ [Next]_vars => Held
  <2> SUFFICES ASSUME JobsInv, [Next]_vars, NEW j \in Jobs,
                      jobs[j].status = "quarantined", jobs'[j] # jobs[j]
               PROVE  jobs'[j].status \in {"quarantined", "completed"}
    OBVIOUS
  <2>1. jobs \in [Jobs -> JobRow] /\ jobs[j].attempts >= MaxAttempts /\ ~claimable(jobs[j])
    BY DEF JobsInv, TypeOK, QuarantinedSpent, claimable
  <2>2. CASE \E w \in Workers : ClaimMatchJobs(w)
    BY <2>1, <2>2 DEF ClaimMatchJobs, oldest
  <2>3. CASE \E w \in Workers, i \in Jobs : CompleteMatchJob(w, i)
    BY <2>1, <2>3 DEF CompleteMatchJob, completedRow, JobRow
  <2>4. CASE \E w \in Workers, i \in Jobs : FailMatchJob(w, i)
    BY <2>1, <2>4 DEF FailMatchJob, failedRow, JobRow
  <2>5. CASE \E i \in Jobs : CreateMatchJob(i) \/ LockExpires(i) \/ RetryDue(i)
    BY <2>1, <2>5 DEF CreateMatchJob, LockExpires, RetryDue
  <2> QED
    BY <2>2, <2>3, <2>4, <2>5
       DEF Next, Work, MatchCommits, MatchSkips, MatchFails, PublishUpdate, DropBatch,
           CloseOrder, vars
<1> QED  BY <1>1, JobsInvariant, PTL DEF Spec, QuarantineHolds

-----------------------------------------------------------------------------
(* The job table implements the abstract queue.                            *)

\* A worker has only jobs that exist.
JobHeldExists == \A w \in Workers : \A j \in worker[w].todo : jobs[j].status # "none"

\* A worker holds only jobs that were created.
LEMMA StepHeldExists ==
    ASSUME JobsInv, JobHeldExists, [Next]_vars
    PROVE  JobHeldExists'
<1>1. jobs \in [Jobs -> JobRow] /\ worker \in [Workers -> Worker]
  BY DEF JobsInv, TypeOK
<1>2. \A j \in Jobs : jobs[j].status # "none" => jobs'[j].status # "none"
  <2>1. CASE \E w \in Workers : ClaimMatchJobs(w)
    BY <1>1, <2>1 DEF ClaimMatchJobs, claimedRow, JobRow
  <2>2. CASE \E w \in Workers, j \in Jobs : CompleteMatchJob(w, j) \/ FailMatchJob(w, j)
    BY <1>1, <2>2 DEF CompleteMatchJob, FailMatchJob, completedRow, failedRow, JobRow
  <2>3. CASE \E j \in Jobs : CreateMatchJob(j) \/ LockExpires(j) \/ RetryDue(j)
    BY <1>1, <2>3 DEF CreateMatchJob, LockExpires, RetryDue, newRow, JobRow
  <2>4. CASE UNCHANGED jobs
    BY <2>4
  <2> QED
    BY <2>1, <2>2, <2>3, <2>4
       DEF Next, Work, MatchCommits, MatchSkips, MatchFails, PublishUpdate, DropBatch,
           CloseOrder, vars
<1>3. CASE \E w \in Workers : ClaimMatchJobs(w)
  <2>1. PICK w \in Workers : ClaimMatchJobs(w)
    BY <1>3
  <2>2. \A j \in oldest({i \in Jobs : claimable(jobs[i])}) : j \in Jobs /\ jobs[j].status # "none"
    BY DEF oldest, claimable
  <2> QED  BY <1>1, <1>2, <2>1, <2>2 DEF ClaimMatchJobs, JobHeldExists, Worker
<1>4. CASE \A w \in Workers : worker'[w].todo \subseteq worker[w].todo
  BY <1>1, <1>2, <1>4 DEF JobHeldExists, Worker
<1>5. CASE \E w \in Workers, j \in Jobs : Work(w, j)
  <2>1. \A w \in Workers : worker'[w].todo \subseteq worker[w].todo
    BY <1>1, <1>5 DEF Work, MatchCommits, MatchSkips, MatchFails, PublishUpdate,
       CompleteMatchJob, FailMatchJob, goTo, proceed, Worker
  <2> QED  BY <1>4, <2>1
<1>6. CASE \E w \in Workers : DropBatch(w)
  <2>1. \A w \in Workers : worker'[w].todo \subseteq worker[w].todo
    BY <1>1, <1>6 DEF DropBatch, Idle, Worker
  <2> QED  BY <1>4, <2>1
<1>7. CASE UNCHANGED worker
  BY <1>4, <1>7
<1> QED
  BY <1>3, <1>5, <1>6, <1>7
     DEF Next, CreateMatchJob, CloseOrder, LockExpires, RetryDue, vars

\* A job that was not created yet has never been tried.
JobAbsentUntouched == \A j \in Jobs : jobs[j].status = "none" => jobs[j] = NoRow

\* A job nobody created has no claim and no outcome.
LEMMA StepAbsentUntouched ==
    ASSUME JobsInv, JobHeldExists, JobAbsentUntouched, [Next]_vars
    PROVE  JobAbsentUntouched'
<1>1. jobs \in [Jobs -> JobRow]
  BY DEF JobsInv, TypeOK
<1> SUFFICES ASSUME NEW j \in Jobs, jobs'[j].status = "none"
             PROVE  jobs'[j] = jobs[j]
  BY DEF JobAbsentUntouched
<1>2. CASE \E w \in Workers : ClaimMatchJobs(w)
  BY <1>1, <1>2 DEF ClaimMatchJobs, claimedRow, JobRow
<1>3. CASE \E w \in Workers, i \in Jobs : CompleteMatchJob(w, i)
  BY <1>1, <1>3 DEF CompleteMatchJob, completedRow, JobRow
<1>4. CASE \E w \in Workers, i \in Jobs : FailMatchJob(w, i)
  BY <1>1, <1>4 DEF FailMatchJob, failedRow, JobRow
<1>5. CASE \E i \in Jobs : CreateMatchJob(i) \/ LockExpires(i) \/ RetryDue(i)
  BY <1>1, <1>5 DEF CreateMatchJob, LockExpires, RetryDue, newRow, JobRow
<1>6. CASE UNCHANGED jobs
  BY <1>6
<1> QED
  BY <1>2, <1>3, <1>4, <1>5, <1>6
     DEF Next, Work, MatchCommits, MatchSkips, MatchFails, PublishUpdate, DropBatch,
         CloseOrder, vars

\* The empty table is the empty queue.
LEMMA JobInitIsQueueInit == Init => JobQueue!QueueInit
  BY DEF Init, JobQueue!QueueInit, queueState, NoRow

\* The queue's view of the table.
jobStateNow == [j \in Jobs |-> queueState(jobs[j])]
jobTriesNow == [j \in Jobs |-> jobs[j].attempts]
jobDoneNow == {j \in Jobs : ord[j] # "pending_match"}

\* A row that changes, with its order as it was, changes the queue at its place only.
LEMMA JobOneRowChanges ==
    ASSUME TypeOK, NEW j \in Jobs, NEW row \in JobRow,
           jobs' = [jobs EXCEPT ![j] = row], row.attempts = jobs[j].attempts,
           UNCHANGED ord
    PROVE  /\ jobStateNow' = [jobStateNow EXCEPT ![j] = queueState(row)]
           /\ UNCHANGED <<jobTriesNow, jobDoneNow>>
<1>1. \A i \in Jobs : jobs'[i] = IF i = j THEN row ELSE jobs[i]
  BY DEF TypeOK
<1>2. jobStateNow' = [jobStateNow EXCEPT ![j] = queueState(row)]
  BY <1>1 DEF jobStateNow, queueState
<1>3. UNCHANGED jobTriesNow
  BY <1>1 DEF jobTriesNow
<1>4. UNCHANGED jobDoneNow
  BY DEF jobDoneNow
<1> QED  BY <1>2, <1>3, <1>4

\* A claim hands out each job of the batch, which was waiting or abandoned.
LEMMA JobClaimHandsOut ==
    ASSUME JobsInv, NEW w \in Workers, ClaimMatchJobs(w)
    PROVE  \E batch \in SUBSET Jobs : JobQueue!HandOut(batch)
<1>1. PICK batch \in SUBSET Jobs : batch = oldest({j \in Jobs : claimable(jobs[j])})
  BY DEF oldest
<1>2. \A j \in batch : claimable(jobs[j])
  BY <1>1 DEF oldest
<1>3. \A j \in Jobs : jobs'[j] = IF j \in batch THEN claimedRow(jobs[j]) ELSE jobs[j]
  BY <1>1 DEF ClaimMatchJobs
<1>4. \A j \in Jobs : /\ queueState(jobs'[j]) = queueState(jobs[j])
                      /\ j \in batch => queueState(jobs[j]) = "open"
  <2> TAKE j \in Jobs
  <2>1. CASE j \in batch
    <3>1. jobs[j].status \in {"pending", "processing"}
      BY <1>2, <2>1 DEF claimable
    <3>2. jobs'[j] = claimedRow(jobs[j])
      BY <1>3, <2>1
    <3> QED  BY <3>1, <3>2 DEF queueState, claimedRow
  <2>2. CASE j \notin batch
    <3>1. jobs'[j] = jobs[j]
      BY <1>3, <2>2
    <3> QED  BY <2>2, <3>1 DEF queueState
  <2> QED  BY <2>1, <2>2
<1>5. \A j \in Jobs : jobs'[j].attempts =
         IF j \in batch THEN JobQueue!oneMore(jobs[j].attempts) ELSE jobs[j].attempts
  <2> TAKE j \in Jobs
  <2>1. jobs'[j] = IF j \in batch THEN claimedRow(jobs[j]) ELSE jobs[j]
    BY <1>3
  <2>2. claimedRow(jobs[j]).attempts = JobQueue!oneMore(jobs[j].attempts)
    BY DEF claimedRow, JobQueue!oneMore
  <2> QED  BY <2>1, <2>2
<1>6. UNCHANGED ord
  BY DEF ClaimMatchJobs
<1>7. JobQueue!HandOut(batch)
  BY <1>4, <1>5, <1>6 DEF JobQueue!HandOut
<1> QED  BY <1>7

\* Marking a job finishes, abandons or reopens it, or leaves it open.
LEMMA JobMarkIsQueueStep ==
    ASSUME JobsInv, JobHeldExists, NEW w \in Workers, NEW j \in Jobs,
           CompleteMatchJob(w, j) \/ FailMatchJob(w, j)
    PROVE  \/ JobQueue!Finish(j) \/ JobQueue!Abandon(j) \/ JobQueue!Reopen(j)
           \/ UNCHANGED JobQueue!queueVars
<1>1. TypeOK /\ jobs[j] \in JobRow /\ jobs[j].status # "none" /\ UNCHANGED ord
  BY DEF JobsInv, TypeOK, JobHeldExists, CompleteMatchJob, FailMatchJob, isCurrent
<1>2. CASE CompleteMatchJob(w, j)
  <2>1. jobs' = [jobs EXCEPT ![j] = completedRow(jobs[j])] /\ ord[j] # "pending_match"
    BY <1>2 DEF CompleteMatchJob, JobsInv, WorkSeen
  <2>2. completedRow(jobs[j]) \in JobRow /\ completedRow(jobs[j]).attempts = jobs[j].attempts
    BY <1>1, RowsTyped DEF completedRow, JobRow
  <2>3. /\ jobStateNow' = [jobStateNow EXCEPT ![j] = queueState(completedRow(jobs[j]))]
        /\ UNCHANGED <<jobTriesNow, jobDoneNow>>
    BY <1>1, <2>1, <2>2, JobOneRowChanges
  <2>4. queueState(completedRow(jobs[j])) = "finished"
    BY <1>1 DEF queueState, completedRow, JobRow
  <2>5. jobStateNow[j] # "absent" /\ j \in jobDoneNow
    BY <1>1, <2>1 DEF jobStateNow, jobDoneNow, queueState
  <2> QED  BY <2>3, <2>4, <2>5 DEF JobQueue!Finish, jobStateNow, jobTriesNow, jobDoneNow
<1>3. CASE FailMatchJob(w, j)
  <2>1. jobs' = [jobs EXCEPT ![j] = failedRow(jobs[j])]
    BY <1>3 DEF FailMatchJob
  <2>2. failedRow(jobs[j]) \in JobRow /\ failedRow(jobs[j]).attempts = jobs[j].attempts
    BY <1>1, RowsTyped DEF failedRow, JobRow
  <2>3. /\ jobStateNow' = [jobStateNow EXCEPT ![j] = queueState(failedRow(jobs[j]))]
        /\ UNCHANGED <<jobTriesNow, jobDoneNow>>
    BY <1>1, <2>1, <2>2, JobOneRowChanges
  <2>4. jobStateNow[j] = queueState(jobs[j]) /\ jobTriesNow[j] = jobs[j].attempts
    BY DEF jobStateNow, jobTriesNow
  <2>5. CASE jobs[j].attempts >= MaxAttempts
    <3>1. queueState(failedRow(jobs[j])) = "abandoned" /\ jobStateNow[j] # "absent"
      BY <1>1, <2>4, <2>5 DEF queueState, failedRow, JobRow
    <3> QED  BY <2>3, <2>4, <2>5, <3>1 DEF JobQueue!Abandon, jobStateNow, jobTriesNow, jobDoneNow
  <2>6. CASE ~(jobs[j].attempts >= MaxAttempts)
    <3>1. queueState(failedRow(jobs[j])) = "open" /\ jobs[j].attempts < MaxAttempts
      BY <1>1, <2>6 DEF queueState, failedRow, JobRow
    <3>2. jobs[j].status # "quarantined"
      BY <2>6 DEF JobsInv, QuarantinedSpent
    <3>3. CASE jobs[j].status = "completed"
      <4>1. jobStateNow[j] = "finished"
        BY <2>4, <3>3 DEF queueState
      <4> QED  BY <2>3, <2>4, <3>1, <4>1 DEF JobQueue!Reopen, jobStateNow, jobTriesNow, jobDoneNow
    <3>4. CASE jobs[j].status # "completed"
      <4>1. jobStateNow[j] = "open"
        BY <1>1, <2>4, <3>2, <3>4 DEF queueState
      <4>2. jobStateNow' = jobStateNow
        BY <2>3, <3>1, <4>1 DEF jobStateNow
      <4> QED  BY <2>3, <4>2 DEF JobQueue!queueVars, jobStateNow, jobTriesNow, jobDoneNow
    <3> QED  BY <3>3, <3>4
  <2> QED  BY <2>5, <2>6
<1> QED  BY <1>2, <1>3

\* A match, or another order, does the work of a job.
LEMMA OrderIsQueueStep ==
    ASSUME JobsInv, NEW j \in Jobs, NEW result \in {"resting", "filled", "closed"},
           jobs[j].status # "none", UNCHANGED jobs, ord' = [ord EXCEPT ![j] = result]
    PROVE  JobQueue!Process(j)
<1>1. ord \in [Jobs -> {"pending_match", "resting", "filled", "closed"}]
  BY DEF JobsInv, TypeOK
<1>2. jobDoneNow' = jobDoneNow \cup {j}
  BY <1>1 DEF jobDoneNow
<1>3. jobStateNow[j] # "absent" /\ UNCHANGED <<jobStateNow, jobTriesNow>>
  BY DEF jobStateNow, jobTriesNow, queueState
<1> QED  BY <1>2, <1>3 DEF JobQueue!Process, jobStateNow, jobTriesNow, jobDoneNow

\* An upsert creates the job or leaves the queue as it is.
LEMMA JobCreateIsQueueStep ==
    ASSUME JobsInv, JobAbsentUntouched, NEW j \in Jobs, CreateMatchJob(j)
    PROVE  JobQueue!Enqueue(j)
<1>1. /\ TypeOK /\ jobs[j].status = "none" /\ UNCHANGED ord
      /\ jobs' = [jobs EXCEPT ![j] = newRow]
  BY DEF JobsInv, CreateMatchJob
<1>2. jobs[j] \in JobRow /\ newRow \in JobRow /\ newRow.attempts = jobs[j].attempts
  BY <1>1 DEF TypeOK, JobAbsentUntouched, newRow, NoRow, JobRow
<1>3. /\ jobStateNow' = [jobStateNow EXCEPT ![j] = queueState(newRow)]
      /\ UNCHANGED <<jobTriesNow, jobDoneNow>>
  BY <1>1, <1>2, JobOneRowChanges
<1>4. queueState(newRow) = "open" /\ jobStateNow[j] = "absent"
  BY <1>1 DEF queueState, newRow, jobStateNow
<1> QED  BY <1>3, <1>4 DEF JobQueue!Enqueue, jobStateNow, jobTriesNow, jobDoneNow

\* A clock changes nothing the queue sees.
LEMMA JobClockIsStutter ==
    ASSUME JobsInv, NEW j \in Jobs, LockExpires(j) \/ RetryDue(j)
    PROVE  UNCHANGED JobQueue!queueVars
<1>1. PICK row \in JobRow : /\ jobs' = [jobs EXCEPT ![j] = row]
                         /\ row.attempts = jobs[j].attempts
                         /\ row.status = jobs[j].status
  <2>1. jobs[j] \in JobRow
    BY DEF JobsInv, TypeOK
  <2>2. CASE LockExpires(j)
    <3>1. /\ [jobs[j] EXCEPT !.stale = TRUE] \in JobRow
          /\ jobs' = [jobs EXCEPT ![j] = [jobs[j] EXCEPT !.stale = TRUE]]
      BY <2>1, <2>2 DEF LockExpires, JobRow
    <3> QED  BY <2>1, <3>1 DEF JobRow
  <2>3. CASE RetryDue(j)
    <3>1. /\ [jobs[j] EXCEPT !.due = TRUE] \in JobRow
          /\ jobs' = [jobs EXCEPT ![j] = [jobs[j] EXCEPT !.due = TRUE]]
      BY <2>1, <2>3 DEF RetryDue, JobRow
    <3> QED  BY <2>1, <3>1 DEF JobRow
  <2> QED  BY <2>2, <2>3
<1>2. TypeOK /\ UNCHANGED ord
  BY DEF JobsInv, LockExpires, RetryDue
<1>3. /\ jobStateNow' = [jobStateNow EXCEPT ![j] = queueState(row)]
      /\ UNCHANGED <<jobTriesNow, jobDoneNow>>
  BY <1>1, <1>2, JobOneRowChanges
<1>4. jobStateNow[j] = queueState(row)
  BY <1>1 DEF jobStateNow, queueState
<1>5. jobStateNow' = jobStateNow
  BY <1>3, <1>4 DEF jobStateNow
<1> QED  BY <1>3, <1>5 DEF JobQueue!queueVars, jobStateNow, jobTriesNow, jobDoneNow

\* Every step is a step of the queue or leaves it as it is.
LEMMA JobStepIsQueueStep ==
    ASSUME JobsInv, JobHeldExists, JobAbsentUntouched, [Next]_vars
    PROVE  JobQueue!QueueNext \/ UNCHANGED JobQueue!queueVars
<1> USE DEF JobQueue!QueueNext
<1>1. CASE \E w \in Workers : ClaimMatchJobs(w)
  BY <1>1, JobClaimHandsOut
<1>2. CASE \E w \in Workers, j \in Jobs : CompleteMatchJob(w, j) \/ FailMatchJob(w, j)
  BY <1>2, JobMarkIsQueueStep
<1>3. CASE \E w \in Workers, j \in Jobs, result \in {"resting", "filled"} :
              MatchCommits(w, j, result)
  <2>1. PICK w \in Workers, j \in Jobs, result \in {"resting", "filled"} :
              MatchCommits(w, j, result)
    BY <1>3
  <2>2. jobs[j].status # "none" /\ UNCHANGED jobs /\ ord' = [ord EXCEPT ![j] = result]
    BY <2>1 DEF MatchCommits, JobHeldExists, isCurrent
  <2> QED  BY <2>2, OrderIsQueueStep
<1>4. CASE \E j \in Jobs : CloseOrder(j)
  <2>1. PICK j \in Jobs : CloseOrder(j)
    BY <1>4
  <2>2. jobs[j].status # "none" /\ UNCHANGED jobs /\ ord' = [ord EXCEPT ![j] = "closed"]
    BY <2>1 DEF CloseOrder
  <2> QED  BY <2>2, OrderIsQueueStep
<1>5. CASE \E j \in Jobs : CreateMatchJob(j)
  BY <1>5, JobCreateIsQueueStep
<1>6. CASE \E j \in Jobs : LockExpires(j) \/ RetryDue(j)
  BY <1>6, JobClockIsStutter
<1>7. CASE UNCHANGED <<jobs, ord>>
  BY <1>7 DEF JobQueue!queueVars, queueState
<1> QED
  BY <1>1, <1>2, <1>3, <1>4, <1>5, <1>6, <1>7
     DEF Next, Work, MatchSkips, MatchFails, PublishUpdate, DropBatch, vars

\* The table of match jobs, with its workers, locks, retries and crashes, implements
\* the abstract queue that does every job at least once and gives none up before its
\* last try.
THEOREM JobsImplementQueue == Spec => JobsAreAQueue
<1> DEFINE Inv == JobsInv /\ JobHeldExists /\ JobAbsentUntouched
<1>1. Init => JobHeldExists /\ JobAbsentUntouched
  BY DEF Init, JobHeldExists, JobAbsentUntouched, Idle
<1>2. Inv /\ [Next]_vars => JobHeldExists' /\ JobAbsentUntouched'
  BY StepHeldExists, StepAbsentUntouched
<1>3. Inv /\ [Next]_vars => [JobQueue!QueueNext]_(JobQueue!queueVars)
  BY JobStepIsQueueStep
<1> QED
  BY <1>1, <1>2, <1>3, JobInitIsQueueInit, JobsInvariant, PTL
     DEF Spec, JobsAreAQueue, JobQueue!QueueSpec


-----------------------------------------------------------------------------
(***************************************************************************)
(* The outbox: an event is published once unless something disturbs it,    *)
(* and the outbox implements the queue.                                    *)
(***************************************************************************)

HIDE MatchJobsAssumption

OutboxSpec == OutboxInit /\ [][OutboxNext]_outboxVars

OutboxTypeOK ==
    /\ backend \in {"postgres", "redis", "nats", "kafka"}
    /\ event \in [Events -> EventRow]
    /\ publisher \in [Publishers -> Publisher]
    /\ copies \in [Events -> 0..2]
    /\ disturbed \subseteq Events
    /\ crashes \in 0..OutboxFaults

\* An event that a worker has and that nothing disturbed is locked.
HeldIsLocked ==
    \A w \in Publishers : \A e \in publisher[w].todo :
        e \notin disturbed => event[e].status = "processing"

\* A lock that is stale is on record.
StaleIsDisturbed == \A e \in Events : event[e].stale => e \in disturbed

\* Two workers have the same event only after it was disturbed.
OnePublisher ==
    \A v, w \in Publishers : v # w =>
        publisher[v].todo \cap publisher[w].todo \subseteq disturbed

\* A worker that is about to mark an event published has seen the backend take it.
MarkedWasTaken ==
    \A w \in Publishers, e \in Events :
        isNext(w, e) /\ publisher[w].step = "published" => copies[e] > 0

\* The backend has no copy of an undisturbed event that a worker has yet to publish.
HeldIsUntaken ==
    \A w \in Publishers : \A e \in publisher[w].todo :
        e \notin disturbed =>
            copies[e] = 0 \/ (copies[e] = 1 /\ isNext(w, e) /\ publisher[w].step = "published")

\* Nor of one that waits for a worker or was given up.
WaitingIsUntaken ==
    \A e \in Events \ disturbed :
        event[e].status \in {"none", "pending", "failed"} => copies[e] = 0

\* An event that was given up has used up its attempts.
FailedSpent ==
    \A e \in Events : event[e].status = "failed" => event[e].attempts >= OutboxAttempts

\* A worker has only events that exist, and a row that does not exist is blank.
HeldExists ==
    \A w \in Publishers : \A e \in publisher[w].todo : event[e].status # "none"

AbsentUntouched ==
    \A e \in Events : event[e].status = "none" => event[e] = NoEvent

OutboxInv ==
    /\ OutboxTypeOK
    /\ HeldIsLocked
    /\ StaleIsDisturbed
    /\ OnePublisher
    /\ MarkedWasTaken
    /\ HeldIsUntaken
    /\ WaitingIsUntaken
    /\ OnceUnlessDisturbed
    /\ FailedSpent
    /\ HeldExists
    /\ AbsentUntouched

USE OutboxAssumption

-----------------------------------------------------------------------------
\* Every row of the table is an event.
LEMMA EventRowsTyped ==
    ASSUME NEW row \in EventRow
    PROVE  /\ claimedEvent(row) \in EventRow
           /\ publishedRow(row) \in EventRow
           /\ failedEvent(row) \in EventRow
<1>0. /\ row.attempts \in 0..OutboxAttempts
      /\ row.stale \in BOOLEAN /\ row.due \in BOOLEAN
  BY DEF EventRow
<1>1. claimedEvent(row) \in EventRow
  <2> DEFINE n == IF row.attempts < OutboxAttempts THEN row.attempts + 1 ELSE row.attempts
  <2>1. n \in 0..OutboxAttempts
    BY <1>0
  <2>2. claimedEvent(row) = [row EXCEPT !.status = "processing", !.stale = FALSE, !.attempts = n]
    BY DEF claimedEvent
  <2> HIDE DEF n
  <2> QED  BY <1>0, <2>1, <2>2 DEF EventRow
<1>2. publishedRow(row) \in EventRow
  BY DEF EventRow, publishedRow
<1>3. failedEvent(row) \in EventRow
  <2> DEFINE spent == row.attempts >= OutboxAttempts
             status == IF spent THEN "failed" ELSE "pending"
  <2>1. spent \in BOOLEAN /\ status \in {"failed", "pending"}
    BY <1>0
  <2>2. failedEvent(row) = [row EXCEPT !.status = status, !.stale = FALSE, !.due = spent]
    BY DEF failedEvent
  <2> HIDE DEF spent, status
  <2> QED  BY <1>0, <2>1, <2>2 DEF EventRow
<1> QED  BY <1>1, <1>2, <1>3

\* A worker is at one event at a time.
LEMMA NextUnique ==
    ASSUME OutboxTypeOK, NEW w \in Publishers, NEW d \in Events, NEW e \in Events,
           isNext(w, d), isNext(w, e)
    PROVE  d = e
  BY DEF isNext, Events

\* Whatever the backend, a call that returns nil has handed its message over.
LEMMA NilMeansTaken ==
    ASSUME OutboxTypeOK, NEW a \in Publish
    PROVE  a.taken \in BOOLEAN /\ a.ok \in BOOLEAN /\ (a.ok => a.taken)
<1> DEFINE Answers == {answer(TRUE, TRUE), answer(FALSE, FALSE), answer(TRUE, FALSE)}
<1>1. Publish \in {PostgresPublish, RedisPublish, NATSPublish, KafkaPublish}
  <2>1. CASE backend = "postgres"
    BY <2>1 DEF Publish
  <2>2. CASE backend = "redis"
    BY <2>2 DEF Publish
  <2>3. CASE backend = "nats"
    BY <2>3 DEF Publish
  <2>4. CASE backend = "kafka"
    BY <2>4 DEF Publish
  <2> QED  BY <2>1, <2>2, <2>3, <2>4 DEF OutboxTypeOK
<1>2. \A x, y : answer(x, y).taken = x /\ answer(x, y).ok = y
  BY DEF answer
<1>3. a \in Answers
  BY <1>1 DEF PostgresPublish, RedisPublish, NATSPublish, KafkaPublish
<1>4. CASE a = answer(TRUE, TRUE)
  BY <1>2, <1>4, Zenon
<1>5. CASE a = answer(FALSE, FALSE)
  BY <1>2, <1>5, Zenon
<1>6. CASE a = answer(TRUE, FALSE)
  BY <1>2, <1>6, Zenon
<1> QED  BY <1>3, <1>4, <1>5, <1>6, Zenon

\* The empty table is sound.
LEMMA InitInv == OutboxInit => OutboxInv
<1> SUFFICES ASSUME OutboxInit PROVE OutboxInv
  OBVIOUS
<1> USE DEF OutboxInit, NoEvent, NoBatch
<1>1. OutboxTypeOK
  BY DEF OutboxTypeOK, NewFromEnv, EventRow, Publisher
<1>2. HeldIsLocked /\ StaleIsDisturbed /\ OnePublisher /\ HeldIsUntaken /\ HeldExists
  BY DEF HeldIsLocked, StaleIsDisturbed, OnePublisher, HeldIsUntaken, HeldExists
<1>3. MarkedWasTaken
  BY DEF MarkedWasTaken, isNext
<1>4. WaitingIsUntaken /\ OnceUnlessDisturbed /\ FailedSpent /\ AbsentUntouched
  BY DEF WaitingIsUntaken, OnceUnlessDisturbed, FailedSpent, AbsentUntouched
<1> QED  BY <1>1, <1>2, <1>3, <1>4 DEF OutboxInv

\* ClaimPendingEvents takes only what is due or stale, and locks it.
LEMMA ClaimInv ==
    ASSUME OutboxInv, NEW w \in Publishers, Claim(w)
    PROVE  OutboxInv'
<1> DEFINE batch == claimedBatch(claimableEvents)
<1>1. /\ batch \subseteq Events
      /\ \A e \in batch : claimableEvent(event[e])
  BY DEF claimedBatch, claimableEvents
<1>2. /\ event' = [e \in Events |-> IF e \in batch THEN claimedEvent(event[e]) ELSE event[e]]
      /\ publisher' = [publisher EXCEPT ![w] = [todo |-> batch, step |-> "publish"]]
      /\ UNCHANGED <<backend, copies, disturbed, crashes>>
      /\ publisher[w].step = "idle"
  BY DEF Claim
<1>3. /\ event \in [Events -> EventRow] /\ publisher \in [Publishers -> Publisher]
      /\ disturbed \subseteq Events
  BY DEF OutboxInv, OutboxTypeOK
<1> HIDE DEF batch
<1>4. /\ \A e \in batch : /\ event'[e].status = "processing" /\ ~event'[e].stale
                          /\ event[e].status \in {"pending", "processing"}
      /\ \A e \in Events \ batch : event'[e] = event[e]
  BY <1>1, <1>2, <1>3 DEF claimedEvent, claimableEvent, EventRow
<1>5. /\ publisher'[w] = [todo |-> batch, step |-> "publish"]
      /\ \A v \in Publishers \ {w} : publisher'[v] = publisher[v]
  BY <1>2, <1>3
<1>6. \A e \in batch : e \notin disturbed =>
          /\ event[e].status = "pending"
          /\ copies[e] = 0
          /\ \A v \in Publishers : e \notin publisher[v].todo
  BY <1>1, <1>3 DEF OutboxInv, StaleIsDisturbed, HeldIsLocked, WaitingIsUntaken, claimableEvent
<1>7. OutboxTypeOK'
  <2>1. event' \in [Events -> EventRow]
    BY <1>2, <1>3, EventRowsTyped
  <2>2. publisher' \in [Publishers -> Publisher]
    BY <1>1, <1>2, <1>3 DEF Publisher
  <2> QED  BY <1>2, <2>1, <2>2 DEF OutboxInv, OutboxTypeOK
<1>8. HeldIsLocked'
  <2> SUFFICES ASSUME NEW v \in Publishers, NEW e \in publisher'[v].todo, e \notin disturbed
               PROVE  event'[e].status = "processing"
    BY <1>2 DEF HeldIsLocked
  <2>1. CASE e \in batch
    BY <1>4, <2>1
  <2>2. CASE e \notin batch
    BY <1>3, <1>4, <1>5, <2>2 DEF OutboxInv, HeldIsLocked, Publisher
  <2> QED  BY <2>1, <2>2
<1>9. StaleIsDisturbed'
  BY <1>1, <1>2, <1>4 DEF OutboxInv, StaleIsDisturbed
<1>10. OnePublisher'
  BY <1>2, <1>5, <1>6 DEF OutboxInv, OnePublisher
<1>11. MarkedWasTaken'
  BY <1>2, <1>5 DEF OutboxInv, MarkedWasTaken, isNext
<1>12. HeldIsUntaken'
  BY <1>2, <1>5, <1>6 DEF OutboxInv, HeldIsUntaken, isNext
<1>13. WaitingIsUntaken' /\ OnceUnlessDisturbed'
  BY <1>1, <1>2, <1>4 DEF OutboxInv, WaitingIsUntaken, OnceUnlessDisturbed
<1>14. FailedSpent' /\ AbsentUntouched'
  BY <1>1, <1>4 DEF OutboxInv, FailedSpent, AbsentUntouched
<1>15. HeldExists'
  <2> SUFFICES ASSUME NEW v \in Publishers, NEW e \in publisher'[v].todo
               PROVE  event'[e].status # "none"
    BY DEF HeldExists
  <2>1. CASE e \in batch
    BY <1>4, <2>1
  <2>2. CASE e \notin batch
    BY <1>3, <1>4, <1>5, <2>2 DEF OutboxInv, HeldExists, Publisher
  <2> QED  BY <2>1, <2>2
<1> QED
  BY <1>7, <1>8, <1>9, <1>10, <1>11, <1>12, <1>13, <1>14, <1>15 DEF OutboxInv

\* The backend answers: whatever it says, only the event the worker is at is touched.
LEMMA PublishInv ==
    ASSUME OutboxInv, NEW w \in Publishers, NEW e \in Events, PublishEvent(w, e)
    PROVE  OutboxInv'
<1>1. /\ publisher[w].step = "publish" /\ isNext(w, e)
      /\ UNCHANGED <<backend, event, crashes>>
  BY DEF PublishEvent
<1>2. /\ event \in [Events -> EventRow] /\ publisher \in [Publishers -> Publisher]
      /\ copies \in [Events -> 0..2] /\ disturbed \subseteq Events
  BY DEF OutboxInv, OutboxTypeOK
<1>3. PICK a \in Publish :
         /\ copies' = IF a.taken /\ copies[e] < 2
                      THEN [copies EXCEPT ![e] = @ + 1] ELSE copies
         /\ disturbed' = IF a.taken /\ ~a.ok THEN disturbed \cup {e} ELSE disturbed
         /\ publisher' = [publisher EXCEPT ![w].step = IF a.ok THEN "published" ELSE "failed"]
  BY DEF PublishEvent
<1>4. a.taken \in BOOLEAN /\ a.ok \in BOOLEAN /\ (a.ok => a.taken)
  BY NilMeansTaken DEF OutboxInv
<1>5. /\ \A v \in Publishers : publisher'[v].todo = publisher[v].todo
      /\ \A v \in Publishers \ {w} : publisher'[v] = publisher[v]
      /\ publisher'[w].step = IF a.ok THEN "published" ELSE "failed"
      /\ publisher' \in [Publishers -> Publisher]
  BY <1>2, <1>3 DEF Publisher
<1>6. /\ copies' \in [Events -> 0..2]
      /\ \A d \in Events \ {e} : copies'[d] = copies[d]
      /\ copies'[e] = IF a.taken /\ copies[e] < 2 THEN copies[e] + 1 ELSE copies[e]
  BY <1>2, <1>3
<1>7. disturbed \subseteq disturbed' /\ disturbed' \subseteq Events
      /\ (e \notin disturbed' => e \notin disturbed /\ (a.taken => a.ok))
  BY <1>2, <1>3, <1>4
<1>8. \A v \in Publishers, d \in Events : isNext(v, d)' <=> isNext(v, d)
  BY <1>5 DEF isNext
<1>9. e \in publisher[w].todo
  BY <1>1 DEF isNext
<1>10. e \notin disturbed => event[e].status = "processing" /\ copies[e] = 0
  BY <1>1, <1>9 DEF OutboxInv, HeldIsLocked, HeldIsUntaken
<1>11. OutboxTypeOK'
  BY <1>1, <1>5, <1>6, <1>7 DEF OutboxInv, OutboxTypeOK
<1>12. HeldIsLocked' /\ HeldExists'
  BY <1>1, <1>5, <1>7 DEF OutboxInv, HeldIsLocked, HeldExists
<1>13. StaleIsDisturbed' /\ FailedSpent' /\ AbsentUntouched'
  BY <1>1, <1>7 DEF OutboxInv, StaleIsDisturbed, FailedSpent, AbsentUntouched
<1>14. OnePublisher'
  BY <1>5, <1>7 DEF OutboxInv, OnePublisher
<1>15. MarkedWasTaken'
  <2> SUFFICES ASSUME NEW v \in Publishers, NEW d \in Events,
                      isNext(v, d), publisher'[v].step = "published"
               PROVE  copies'[d] > 0
    BY <1>8 DEF MarkedWasTaken
  <2>1. CASE v = w
    <3>1. d = e
      BY <1>1, <2>1, NextUnique DEF OutboxInv
    <3>2. a.taken
      BY <1>4, <1>5, <2>1
    <3> QED  BY <1>2, <1>6, <3>1, <3>2
  <2>2. CASE v # w
    <3>1. copies[d] > 0
      BY <1>5, <2>2 DEF OutboxInv, MarkedWasTaken
    <3> QED  BY <1>2, <1>6, <3>1
  <2> QED  BY <2>1, <2>2
<1>16. HeldIsUntaken'
  <2> SUFFICES ASSUME NEW v \in Publishers, NEW d \in publisher[v].todo, d \notin disturbed'
               PROVE  \/ copies'[d] = 0
                      \/ copies'[d] = 1 /\ isNext(v, d) /\ publisher'[v].step = "published"
    BY <1>2, <1>5, <1>8 DEF HeldIsUntaken, Publisher
  <2>1. d \in Events /\ d \notin disturbed
    BY <1>2, <1>7 DEF Publisher
  <2>2. CASE d = e
    <3>1. v = w
      BY <1>9, <2>1, <2>2 DEF OutboxInv, OnePublisher
    <3>2. CASE a.ok
      BY <1>1, <1>4, <1>5, <1>6, <1>10, <2>1, <2>2, <3>1, <3>2
    <3>3. CASE ~a.ok
      BY <1>3, <1>4, <1>6, <1>7, <1>10, <2>1, <2>2, <3>3
    <3> QED  BY <3>2, <3>3
  <2>3. CASE d # e
    <3>1. copies'[d] = copies[d]
      BY <1>6, <2>1, <2>3
    <3>2. CASE v = w
      <4>1. ~isNext(v, d)
        BY <1>1, <2>1, <2>3, <3>2, NextUnique DEF OutboxInv
      <4> QED  BY <2>1, <3>1, <4>1 DEF OutboxInv, HeldIsUntaken
    <3>3. CASE v # w
      BY <1>5, <2>1, <3>1, <3>3 DEF OutboxInv, HeldIsUntaken
    <3> QED  BY <3>2, <3>3
  <2> QED  BY <2>2, <2>3
<1>17. WaitingIsUntaken'
  BY <1>1, <1>6, <1>7, <1>10 DEF OutboxInv, WaitingIsUntaken
<1>18. OnceUnlessDisturbed'
  BY <1>2, <1>6, <1>7, <1>10 DEF OutboxInv, OnceUnlessDisturbed
<1> QED
  BY <1>11, <1>12, <1>13, <1>14, <1>15, <1>16, <1>17, <1>18 DEF OutboxInv

\* A worker marks a row and goes on; the row may by now be somebody else's.
LEMMA MarkInv ==
    ASSUME OutboxInv, NEW w \in Publishers, NEW e \in Events,
           MarkPublished(w, e) \/ MarkFailed(w, e)
    PROVE  OutboxInv'
<1>1. /\ nextOfBatch(w, e) /\ isNext(w, e)
      /\ UNCHANGED <<backend, copies, disturbed, crashes>>
  BY DEF MarkPublished, MarkFailed
<1>2. /\ event \in [Events -> EventRow] /\ publisher \in [Publishers -> Publisher]
      /\ copies \in [Events -> 0..2] /\ disturbed \subseteq Events
  BY DEF OutboxInv, OutboxTypeOK
<1>3. e \in publisher[w].todo /\ event[e].status # "none"
  BY <1>1 DEF isNext, OutboxInv, HeldExists
<1>4. PICK row \in EventRow :
          /\ event' = [event EXCEPT ![e] = row]
          /\ ~row.stale
          /\ row.status # "none"
          /\ row.status = "failed" => row.attempts >= OutboxAttempts
          /\ e \notin disturbed /\ row.status \in {"none", "pending", "failed"} => copies[e] = 0
  <2>1. CASE MarkPublished(w, e)
    <3> DEFINE row == publishedRow(event[e])
    <3>1. row \in EventRow /\ event' = [event EXCEPT ![e] = row]
      BY <1>2, <2>1, EventRowsTyped DEF MarkPublished
    <3>2. ~row.stale /\ row.status = "published"
      BY <1>2 DEF publishedRow, EventRow
    <3> HIDE DEF row
    <3> QED  BY <3>1, <3>2
  <2>2. CASE MarkFailed(w, e)
    <3> DEFINE row == failedEvent(event[e])
    <3>1. row \in EventRow /\ event' = [event EXCEPT ![e] = row]
      BY <1>2, <2>2, EventRowsTyped DEF MarkFailed
    <3>2. /\ ~row.stale
          /\ row.status \in {"pending", "failed"}
          /\ row.status = "failed" => row.attempts >= OutboxAttempts
      BY <1>2 DEF failedEvent, EventRow
    <3>3. e \notin disturbed => copies[e] = 0
      BY <1>3, <2>2 DEF MarkFailed, OutboxInv, HeldIsUntaken
    <3> HIDE DEF row
    <3> QED  BY <3>1, <3>2, <3>3
  <2> QED  BY <2>1, <2>2
<1>5. /\ publisher' \in [Publishers -> Publisher]
      /\ publisher'[w].todo = publisher[w].todo \ {e}
      /\ publisher'[w].step \in {"idle", "publish"}
      /\ \A v \in Publishers : v # w => publisher'[v] = publisher[v]
  BY <1>1, <1>2 DEF nextOfBatch, Publisher
<1>6. /\ event'[e] = row
      /\ \A d \in Events : d # e => event'[d] = event[d]
  BY <1>2, <1>4
<1>7. OutboxTypeOK'
  BY <1>1, <1>2, <1>4, <1>5 DEF OutboxInv, OutboxTypeOK
<1>8. HeldIsLocked'
  BY <1>1, <1>2, <1>3, <1>5, <1>6 DEF OutboxInv, HeldIsLocked, OnePublisher, Publisher
<1>9. StaleIsDisturbed' /\ FailedSpent' /\ AbsentUntouched' /\ WaitingIsUntaken'
  BY <1>1, <1>4, <1>6
     DEF OutboxInv, StaleIsDisturbed, FailedSpent, AbsentUntouched, WaitingIsUntaken
<1>10. OnePublisher'
  BY <1>1, <1>5 DEF OutboxInv, OnePublisher
<1>11. MarkedWasTaken'
  BY <1>1, <1>5 DEF OutboxInv, MarkedWasTaken, isNext
<1>12. HeldIsUntaken'
  <2> SUFFICES ASSUME NEW v \in Publishers, NEW d \in publisher'[v].todo, d \notin disturbed
               PROVE  \/ copies[d] = 0
                      \/ copies[d] = 1 /\ isNext(v, d)' /\ publisher'[v].step = "published"
    BY <1>1 DEF HeldIsUntaken
  <2>1. d \in Events
    BY <1>5 DEF Publisher
  <2>2. CASE v = w
    <3>1. d # e /\ d \in publisher[w].todo
      BY <1>5, <2>2
    <3>2. ~isNext(w, d)
      BY <1>1, <2>1, <3>1, NextUnique DEF OutboxInv
    <3> QED  BY <3>1, <3>2 DEF OutboxInv, HeldIsUntaken
  <2>3. CASE v # w
    <3>1. publisher'[v] = publisher[v]
      BY <1>5, <2>3
    <3> QED  BY <3>1 DEF OutboxInv, HeldIsUntaken, isNext
  <2> QED  BY <2>2, <2>3
<1>13. OnceUnlessDisturbed'
  BY <1>1 DEF OutboxInv, OnceUnlessDisturbed
<1>14. HeldExists'
  BY <1>2, <1>4, <1>5, <1>6 DEF OutboxInv, HeldExists, Publisher
<1> QED
  BY <1>7, <1>8, <1>9, <1>10, <1>11, <1>12, <1>13, <1>14 DEF OutboxInv

\* A worker that crashes or gives up loses its batch, not the rows.
LEMMA AbandonInv ==
    ASSUME OutboxInv, NEW w \in Publishers, AbandonBatch(w)
    PROVE  OutboxInv'
<1>1. /\ publisher' = [publisher EXCEPT ![w] = NoBatch]
      /\ disturbed' = disturbed \cup publisher[w].todo
      /\ crashes' \in 0..OutboxFaults
      /\ UNCHANGED <<backend, event, copies>>
  BY DEF AbandonBatch, OutboxInv, OutboxTypeOK
<1>2. publisher \in [Publishers -> Publisher] /\ NoBatch \in Publisher
  BY DEF OutboxInv, OutboxTypeOK, NoBatch, Publisher
<1>3. /\ publisher'[w].todo = {}
      /\ \A v \in Publishers : v # w => publisher'[v] = publisher[v]
  BY <1>1, <1>2 DEF NoBatch
<1>4. OutboxTypeOK'
  BY <1>1, <1>2 DEF OutboxInv, OutboxTypeOK, Publisher
<1>5. HeldIsLocked' /\ StaleIsDisturbed' /\ OnePublisher' /\ HeldExists'
  BY <1>1, <1>3 DEF OutboxInv, HeldIsLocked, StaleIsDisturbed, OnePublisher, HeldExists
<1>6. MarkedWasTaken' /\ HeldIsUntaken'
  BY <1>1, <1>3 DEF OutboxInv, MarkedWasTaken, HeldIsUntaken, isNext
<1>7. WaitingIsUntaken' /\ OnceUnlessDisturbed' /\ FailedSpent' /\ AbsentUntouched'
  BY <1>1 DEF OutboxInv, WaitingIsUntaken, OnceUnlessDisturbed, FailedSpent, AbsentUntouched
<1> QED  BY <1>4, <1>5, <1>6, <1>7 DEF OutboxInv

\* Creating an event and the passing of time leave the workers alone.
LEMMA EnvironmentInv ==
    ASSUME OutboxInv, NEW e \in Events,
           CreateEvent(e) \/ EventLockExpires(e) \/ EventRetryDue(e)
    PROVE  OutboxInv'
<1>1. /\ event \in [Events -> EventRow] /\ publisher \in [Publishers -> Publisher]
      /\ UNCHANGED <<backend, publisher, copies, crashes>>
  BY DEF OutboxInv, OutboxTypeOK, CreateEvent, EventLockExpires, EventRetryDue
<1>2. PICK row \in EventRow :
          /\ event' = [event EXCEPT ![e] = row]
          /\ row.stale => e \in disturbed'
          /\ row.status # "none"
          /\ \/ row.status = event[e].status /\ row.attempts = event[e].attempts
             \/ event[e].status = "none" /\ row.status = "pending"
  <2>1. CASE CreateEvent(e)
    <3>1. /\ createdEvent \in EventRow
          /\ ~createdEvent.stale /\ createdEvent.status = "pending"
      BY DEF createdEvent, EventRow
    <3>2. event' = [event EXCEPT ![e] = createdEvent] /\ event[e].status = "none"
      BY <2>1 DEF CreateEvent
    <3> QED  BY <3>1, <3>2
  <2>2. CASE EventLockExpires(e)
    <3> DEFINE row == [event[e] EXCEPT !.stale = TRUE]
    <3>1. event[e] \in EventRow /\ event[e].status = "processing"
      BY <1>1, <2>2 DEF EventLockExpires
    <3>2. /\ row \in EventRow
          /\ row.status = event[e].status /\ row.attempts = event[e].attempts
      BY <3>1 DEF EventRow
    <3>3. event' = [event EXCEPT ![e] = row] /\ e \in disturbed'
      BY <2>2 DEF EventLockExpires
    <3> HIDE DEF row
    <3> QED  BY <3>1, <3>2, <3>3
  <2>3. CASE EventRetryDue(e)
    <3> DEFINE row == [event[e] EXCEPT !.due = TRUE]
    <3>1. event[e] \in EventRow /\ event[e].status = "pending" /\ disturbed' = disturbed
      BY <1>1, <2>3 DEF EventRetryDue
    <3>2. /\ row \in EventRow
          /\ row.status = event[e].status /\ row.attempts = event[e].attempts
          /\ row.stale = event[e].stale
      BY <3>1 DEF EventRow
    <3>3. event' = [event EXCEPT ![e] = row]
      BY <2>3 DEF EventRetryDue
    <3> HIDE DEF row
    <3> QED  BY <3>1, <3>2, <3>3 DEF OutboxInv, StaleIsDisturbed
  <2> QED  BY <2>1, <2>2, <2>3
<1>3. /\ event'[e] = row
      /\ \A d \in Events : d # e => event'[d] = event[d]
  BY <1>1, <1>2
<1>4. disturbed \subseteq disturbed' /\ disturbed' \subseteq Events
  BY DEF OutboxInv, OutboxTypeOK, CreateEvent, EventLockExpires, EventRetryDue
<1>5. OutboxTypeOK'
  BY <1>1, <1>2, <1>4 DEF OutboxInv, OutboxTypeOK
<1>6. HeldIsLocked' /\ HeldExists'
  BY <1>1, <1>2, <1>3, <1>4 DEF OutboxInv, HeldIsLocked, HeldExists, Publisher
<1>7. StaleIsDisturbed' /\ OnePublisher'
  BY <1>1, <1>2, <1>3, <1>4 DEF OutboxInv, StaleIsDisturbed, OnePublisher
<1>8. MarkedWasTaken' /\ HeldIsUntaken'
  BY <1>1, <1>4 DEF OutboxInv, MarkedWasTaken, HeldIsUntaken, isNext
<1>9. WaitingIsUntaken' /\ OnceUnlessDisturbed'
  BY <1>1, <1>2, <1>3, <1>4 DEF OutboxInv, WaitingIsUntaken, OnceUnlessDisturbed
<1>10. FailedSpent' /\ AbsentUntouched'
  BY <1>2, <1>3 DEF OutboxInv, FailedSpent, AbsentUntouched
<1> QED  BY <1>5, <1>6, <1>7, <1>8, <1>9, <1>10 DEF OutboxInv

\* Every step keeps the invariant.
LEMMA StepInv ==
    ASSUME OutboxInv, [OutboxNext]_outboxVars
    PROVE  OutboxInv'
<1>1. CASE \E w \in Publishers : Claim(w) \/ AbandonBatch(w)
  BY <1>1, ClaimInv, AbandonInv
<1>2. CASE \E w \in Publishers, e \in Events : PublishNext(w, e)
  BY <1>2, PublishInv, MarkInv DEF PublishNext
<1>3. CASE \E e \in Events : CreateEvent(e) \/ EventLockExpires(e) \/ EventRetryDue(e)
  BY <1>3, EnvironmentInv
<1>4. CASE UNCHANGED outboxVars
  <2>1. UNCHANGED <<backend, event, publisher, copies, disturbed, crashes>>
    BY <1>4 DEF outboxVars
  <2> QED
    BY <2>1 DEF OutboxInv, OutboxTypeOK, HeldIsLocked, StaleIsDisturbed, OnePublisher,
                MarkedWasTaken, HeldIsUntaken, WaitingIsUntaken, OnceUnlessDisturbed,
                FailedSpent, HeldExists, AbsentUntouched, isNext
<1> QED  BY <1>1, <1>2, <1>3, <1>4 DEF OutboxNext

-----------------------------------------------------------------------------
\* The inductive invariant of the outbox holds.
THEOREM OutboxInvariant == OutboxSpec => []OutboxInv
  BY InitInv, StepInv, PTL DEF OutboxSpec

\* Although claiming, publishing and marking an event are three transactions of a worker
\* and nothing checks that it still owns the row, an event goes out once unless its lock
\* expired, its worker died or the backend's answer was lost.
THEOREM EventsGoOutOnce == OutboxSpec => []OnceUnlessDisturbed
<1>1. OutboxInv => OnceUnlessDisturbed
  BY DEF OutboxInv
<1> QED  BY <1>1, OutboxInvariant, PTL

-----------------------------------------------------------------------------
(* The outbox implements the abstract queue.                               *)

\* The queue's view of the table and of the backend.
stateNow == [e \in Events |-> eventState(event[e])]
triesNow == [e \in Events |-> event[e].attempts]
doneNow == {e \in Events : copies[e] > 0}

\* The empty table is the empty queue.
LEMMA InitIsQueueInit == OutboxInit => OutboxQueue!QueueInit
  BY DEF OutboxInit, OutboxQueue!QueueInit, eventState, NoEvent

\* A row that changes, with the backend as it was, changes the queue at its place only.
LEMMA OneRowChanges ==
    ASSUME OutboxInv, NEW e \in Events, NEW row \in EventRow,
           event' = [event EXCEPT ![e] = row], row.attempts = event[e].attempts,
           UNCHANGED copies
    PROVE  /\ stateNow' = [stateNow EXCEPT ![e] = eventState(row)]
           /\ UNCHANGED <<triesNow, doneNow>>
<1>1. \A d \in Events : event'[d] = IF d = e THEN row ELSE event[d]
  BY DEF OutboxInv, OutboxTypeOK
<1>2. stateNow' = [stateNow EXCEPT ![e] = eventState(row)]
  BY <1>1 DEF stateNow, eventState
<1>3. UNCHANGED triesNow
  BY <1>1 DEF triesNow
<1>4. UNCHANGED doneNow
  BY DEF doneNow
<1> QED  BY <1>2, <1>3, <1>4

\* A claim hands out each event of the batch, which was waiting or abandoned.
LEMMA ClaimHandsOut ==
    ASSUME OutboxInv, NEW w \in Publishers, Claim(w)
    PROVE  \E batch \in SUBSET Events : OutboxQueue!HandOut(batch)
<1>1. PICK batch \in SUBSET Events : batch = claimedBatch(claimableEvents)
  BY DEF claimedBatch, claimableEvents
<1>2. \A e \in batch : claimableEvent(event[e])
  BY <1>1 DEF claimedBatch, claimableEvents
<1>3. \A e \in Events :
         event'[e] = IF e \in batch THEN claimedEvent(event[e]) ELSE event[e]
  BY <1>1 DEF Claim
<1>4. event \in [Events -> EventRow] /\ UNCHANGED copies
  BY DEF OutboxInv, OutboxTypeOK, Claim
<1>5. \A e \in Events : /\ eventState(event'[e]) = eventState(event[e])
                        /\ e \in batch => eventState(event[e]) = "open"
  <2> TAKE e \in Events
  <2>1. CASE e \in batch
    <3>1. event[e].status \in {"pending", "processing"}
      BY <1>2, <2>1 DEF claimableEvent
    <3>2. event'[e] = claimedEvent(event[e]) /\ event[e] \in EventRow
      BY <1>3, <1>4, <2>1
    <3>3. event'[e].status = "processing"
      BY <3>2 DEF claimedEvent, EventRow
    <3> QED  BY <3>1, <3>3 DEF eventState
  <2>2. CASE e \notin batch
    <3>1. event'[e] = event[e]
      BY <1>3, <2>2
    <3> QED  BY <2>2, <3>1 DEF eventState
  <2> QED  BY <2>1, <2>2
<1>6. \A e \in Events : event'[e].attempts =
         IF e \in batch THEN OutboxQueue!oneMore(event[e].attempts) ELSE event[e].attempts
  <2> TAKE e \in Events
  <2>1. event'[e] = IF e \in batch THEN claimedEvent(event[e]) ELSE event[e]
    BY <1>3
  <2>2. claimedEvent(event[e]).attempts = OutboxQueue!oneMore(event[e].attempts)
    <3>1. event[e] \in EventRow /\ event[e].attempts \in 0..OutboxAttempts
      BY <1>4 DEF EventRow
    <3>2. claimedEvent(event[e]).attempts =
            IF event[e].attempts < OutboxAttempts
            THEN event[e].attempts + 1 ELSE event[e].attempts
      BY <3>1 DEF claimedEvent, EventRow
    <3> QED  BY <3>1, <3>2 DEF OutboxQueue!oneMore
  <2> QED  BY <2>1, <2>2
<1>7. OutboxQueue!HandOut(batch)
  BY <1>4, <1>5, <1>6 DEF OutboxQueue!HandOut
<1> QED  BY <1>7

\* The backend takes an event that exists; a worker has no other.
LEMMA PublishIsQueueStep ==
    ASSUME OutboxInv, NEW w \in Publishers, NEW e \in Events, PublishEvent(w, e)
    PROVE  OutboxQueue!Process(e) \/ UNCHANGED OutboxQueue!queueVars
<1>1. copies \in [Events -> 0..2] /\ UNCHANGED event
  BY DEF OutboxInv, OutboxTypeOK, PublishEvent
<1>2. UNCHANGED <<stateNow, triesNow>>
  BY <1>1 DEF stateNow, triesNow
<1>3. stateNow[e] # "absent"
  BY DEF OutboxInv, HeldExists, PublishEvent, isNext, stateNow, eventState
<1>4. CASE copies' = copies
  <2>1. UNCHANGED doneNow
    BY <1>4 DEF doneNow
  <2> QED  BY <1>2, <2>1 DEF OutboxQueue!queueVars, stateNow, triesNow, doneNow
<1>5. CASE copies' = [copies EXCEPT ![e] = @ + 1]
  <2>1. doneNow' = doneNow \cup {e}
    BY <1>1, <1>5 DEF doneNow
  <2> QED  BY <1>2, <1>3, <2>1 DEF OutboxQueue!Process, stateNow, triesNow, doneNow
<1> QED  BY <1>4, <1>5 DEF PublishEvent

\* Marking an event finishes, abandons or reopens it, or leaves it open.
LEMMA MarkIsQueueStep ==
    ASSUME OutboxInv, NEW w \in Publishers, NEW e \in Events,
           MarkPublished(w, e) \/ MarkFailed(w, e)
    PROVE  \/ OutboxQueue!Finish(e) \/ OutboxQueue!Abandon(e) \/ OutboxQueue!Reopen(e)
           \/ UNCHANGED OutboxQueue!queueVars
<1>1. event[e] \in EventRow /\ event[e].status # "none" /\ UNCHANGED copies
  BY DEF OutboxInv, OutboxTypeOK, HeldExists, MarkPublished, MarkFailed, isNext
<1>2. stateNow[e] = eventState(event[e]) /\ triesNow[e] = event[e].attempts
  BY DEF stateNow, triesNow
<1>3. stateNow[e] # "absent"
  BY <1>1, <1>2 DEF eventState
<1>4. CASE MarkPublished(w, e)
  <2>1. event' = [event EXCEPT ![e] = publishedRow(event[e])] /\ copies[e] > 0
    BY <1>4 DEF MarkPublished, OutboxInv, MarkedWasTaken
  <2>2. /\ publishedRow(event[e]) \in EventRow
        /\ publishedRow(event[e]).attempts = event[e].attempts
        /\ publishedRow(event[e]).status = "published"
    BY <1>1, EventRowsTyped DEF publishedRow, EventRow
  <2>3. /\ stateNow' = [stateNow EXCEPT ![e] = eventState(publishedRow(event[e]))]
        /\ UNCHANGED <<triesNow, doneNow>>
    BY <1>1, <2>1, <2>2, OneRowChanges
  <2>4. eventState(publishedRow(event[e])) = "finished" /\ e \in doneNow
    BY <2>1, <2>2 DEF eventState, doneNow
  <2> QED  BY <1>3, <2>3, <2>4 DEF OutboxQueue!Finish, stateNow, triesNow, doneNow
<1>5. CASE MarkFailed(w, e)
  <2> DEFINE row == failedEvent(event[e])
             spent == event[e].attempts >= OutboxAttempts
  <2>1. event' = [event EXCEPT ![e] = row]
    BY <1>5 DEF MarkFailed
  <2>2. /\ row \in EventRow /\ row.attempts = event[e].attempts
        /\ row.status = IF spent THEN "failed" ELSE "pending"
    BY <1>1, EventRowsTyped DEF failedEvent, EventRow
  <2>3. /\ stateNow' = [stateNow EXCEPT ![e] = eventState(row)]
        /\ UNCHANGED <<triesNow, doneNow>>
    BY <1>1, <2>1, <2>2, OneRowChanges
  <2> HIDE DEF row
  <2>4. CASE spent
    <3>1. eventState(row) = "abandoned"
      BY <2>2, <2>4 DEF eventState
    <3> QED  BY <1>2, <1>3, <2>3, <2>4, <3>1
             DEF OutboxQueue!Abandon, stateNow, triesNow, doneNow
  <2>5. CASE ~spent
    <3>1. eventState(row) = "open" /\ event[e].attempts < OutboxAttempts
      BY <1>1, <2>2, <2>5 DEF eventState, EventRow
    <3>2. event[e].status # "failed"
      BY <2>5 DEF OutboxInv, FailedSpent
    <3>3. CASE event[e].status = "published"
      <4>1. stateNow[e] = "finished"
        BY <1>2, <3>3 DEF eventState
      <4> QED  BY <1>2, <2>3, <3>1, <4>1
               DEF OutboxQueue!Reopen, stateNow, triesNow, doneNow
    <3>4. CASE event[e].status # "published"
      <4>1. stateNow[e] = "open"
        BY <1>1, <1>2, <3>2, <3>4 DEF eventState
      <4>2. stateNow' = stateNow
        BY <2>3, <3>1, <4>1 DEF stateNow
      <4> QED  BY <2>3, <4>2 DEF OutboxQueue!queueVars, stateNow, triesNow, doneNow
    <3> QED  BY <3>3, <3>4
  <2> QED  BY <2>4, <2>5
<1> QED  BY <1>4, <1>5

\* An event that is written with its change enters the queue.
LEMMA CreateIsQueueStep ==
    ASSUME OutboxInv, NEW e \in Events, CreateEvent(e)
    PROVE  OutboxQueue!Enqueue(e)
<1>1. /\ event[e].status = "none" /\ UNCHANGED copies
      /\ event' = [event EXCEPT ![e] = createdEvent]
  BY DEF CreateEvent
<1>2. createdEvent \in EventRow /\ createdEvent.attempts = event[e].attempts
  BY <1>1 DEF OutboxInv, AbsentUntouched, createdEvent, NoEvent, EventRow
<1>3. /\ stateNow' = [stateNow EXCEPT ![e] = eventState(createdEvent)]
      /\ UNCHANGED <<triesNow, doneNow>>
  BY <1>1, <1>2, OneRowChanges
<1>4. eventState(createdEvent) = "open" /\ stateNow[e] = "absent"
  BY <1>1 DEF eventState, createdEvent, stateNow
<1> QED  BY <1>3, <1>4 DEF OutboxQueue!Enqueue, stateNow, triesNow, doneNow

\* A clock changes nothing the queue sees.
LEMMA ClockIsStutter ==
    ASSUME OutboxInv, NEW e \in Events, EventLockExpires(e) \/ EventRetryDue(e)
    PROVE  UNCHANGED OutboxQueue!queueVars
<1>1. event \in [Events -> EventRow] /\ UNCHANGED copies
  BY DEF OutboxInv, OutboxTypeOK, EventLockExpires, EventRetryDue
<1>2. \A d \in Events : /\ event'[d].status = event[d].status
                        /\ event'[d].attempts = event[d].attempts
  BY <1>1 DEF EventLockExpires, EventRetryDue, EventRow
<1>3. UNCHANGED <<stateNow, triesNow, doneNow>>
  BY <1>1, <1>2 DEF stateNow, triesNow, doneNow, eventState
<1> QED  BY <1>3 DEF OutboxQueue!queueVars, stateNow, triesNow, doneNow

\* Every step is a step of the queue or leaves it as it is.
LEMMA StepIsQueueStep ==
    ASSUME OutboxInv, [OutboxNext]_outboxVars
    PROVE  OutboxQueue!QueueNext \/ UNCHANGED OutboxQueue!queueVars
<1> USE DEF OutboxQueue!QueueNext
<1>1. CASE \E w \in Publishers : Claim(w)
  BY <1>1, ClaimHandsOut
<1>2. CASE \E w \in Publishers, e \in Events : PublishNext(w, e)
  BY <1>2, PublishIsQueueStep, MarkIsQueueStep DEF PublishNext
<1>3. CASE \E e \in Events : CreateEvent(e)
  BY <1>3, CreateIsQueueStep
<1>4. CASE \E e \in Events : EventLockExpires(e) \/ EventRetryDue(e)
  BY <1>4, ClockIsStutter
<1>5. CASE UNCHANGED <<event, copies>>
  <2>1. UNCHANGED <<stateNow, triesNow, doneNow>>
    BY <1>5 DEF stateNow, triesNow, doneNow
  <2> QED  BY <2>1 DEF OutboxQueue!queueVars, stateNow, triesNow, doneNow
<1> QED
  BY <1>1, <1>2, <1>3, <1>4, <1>5 DEF OutboxNext, AbandonBatch, outboxVars

\* The outbox, with its workers, locks, retries, crashes and unclear answers, implements
\* the abstract queue: an event counts as published only after the backend took it, and
\* it is given up only after its last attempt.
THEOREM OutboxImplementsQueue == OutboxSpec => ImplementsQueue
<1>1. OutboxInv /\ [OutboxNext]_outboxVars
        => [OutboxQueue!QueueNext]_(OutboxQueue!queueVars)
  BY StepIsQueueStep
<1> QED
  BY <1>1, InitIsQueueInit, OutboxInvariant, PTL
     DEF OutboxSpec, ImplementsQueue, OutboxQueue!QueueSpec

-----------------------------------------------------------------------------
(***************************************************************************)
(* The updates: what the handler of the subscription is called for, and    *)
(* what each browser gets of it.                                           *)
(***************************************************************************)

HIDE OutboxAssumption

UpdatesSpec == UpdatesInit /\ [][UpdatesNext]_updatesVars

Message == [topic : Topics, id : Nat, prices : Nat]
Task == [step : {"idle", "waiting", "writing"}, msg : Message, left : SUBSET Clients]

UpdatesTypeOK ==
    /\ backend \in {"postgres", "redis", "nats", "kafka"}
    /\ stream \in [Topics -> Nat]
    /\ taken \in [Topics -> Nat]
    /\ subscribed \in BOOLEAN
    /\ away \in {"up", "down", "back"}
    /\ conn \in [Clients -> {"none", "open", "broken", "closed"}]
    /\ listed \in SUBSET Clients
    /\ task \in [Goroutines -> Task]
    /\ writeMu \in Goroutines \cup {{}}
    /\ got \in [Clients -> Seq(Message)]
    /\ handled \in [Topics -> Seq(Message)]

\* The lock is held by the goroutine that writes, and by no other.
LockIsWriter == \A g \in Goroutines : task[g].step = "writing" <=> writeMu = g

\* What is being broadcast is the latest update of its topic.
TaskIsLatest ==
    \A g \in Goroutines : task[g].step # "idle" =>
        LET h == handled[task[g].msg.topic]
        IN  task[g].msg.topic \in g /\ h # << >> /\ task[g].msg = h[Len(h)]

\* The updates of a topic are handled in the order of their numbers, with prices that
\* are never older than those of the update before.
HandledInOrder ==
    \A t \in Topics :
        /\ \A k \in DOMAIN handled[t] :
              /\ handled[t][k].topic = t /\ handled[t][k].id <= taken[t]
              /\ handled[t][k].prices <= stream[PriceTopic]
              /\ t # PriceTopic => handled[t][k].prices = 0
        /\ \A k, l \in DOMAIN handled[t] : k < l =>
              /\ handled[t][k].id < handled[t][l].id
              /\ handled[t][k].prices > 0 /\ handled[t][l].prices > 0 =>
                    handled[t][k].prices <= handled[t][l].prices

\* The latest update of the topic is on its way to the client.
pending(c, t) ==
    \E g \in Goroutines : task[g].step # "idle" /\ task[g].msg.topic = t /\ c \in task[g].left

\* A client has a stretch of the updates of a topic, up to the latest that is not pending.
Stretch(c, t) ==
    /\ \A i, j \in DOMAIN got[c] :
          i < j /\ got[c][i].topic = t /\ got[c][j].topic = t => got[c][i].id < got[c][j].id
    /\ \A i \in DOMAIN got[c] :
          got[c][i].topic = t => \E k \in seen(c, t) : got[c][i] = handled[t][k]
    /\ \A k, l \in seen(c, t) : k..l \subseteq seen(c, t)
    /\ pending(c, t) => Len(handled[t]) \notin seen(c, t)
    /\ conn[c] = "open" /\ seen(c, t) # {} =>
          IF pending(c, t) THEN Len(handled[t]) - 1 \in seen(c, t)
          ELSE Len(handled[t]) \in seen(c, t)

GotStretch == \A c \in Clients, t \in Topics : Stretch(c, t)

\* Nobody has an update whose broadcast waits for the lock, and nobody has anything newer
\* than the one that is being written.
WrittenLast ==
    \A g \in Goroutines, c \in Clients : \A i \in DOMAIN got[c] :
        /\ task[g].step = "waiting" => got[c][i] # task[g].msg
        /\ task[g].step = "writing" /\ got[c][i] = task[g].msg => i = Len(got[c])

\* A connection that is open is listed, and one that was not yet made has no updates.
ListedIsMade ==
    /\ \A c \in Clients : conn[c] = "open" => c \in listed
    /\ \A c \in Clients : conn[c] = "none" =>
          got[c] = << >> /\ c \notin listed /\ \A g \in Goroutines : c \notin task[g].left

UpdatesInv ==
    /\ UpdatesTypeOK
    /\ LockIsWriter
    /\ TaskIsLatest
    /\ HandledInOrder
    /\ GotStretch
    /\ WrittenLast
    /\ ListedIsMade
    /\ SameOrderForAll

USE UpdatesAssumption

-----------------------------------------------------------------------------
(* Goroutines.                                                             *)

\* Every topic has one goroutine, whatever the backend.
LEMMA OneGoroutine ==
    ASSUME backend \in {"postgres", "redis", "nats", "kafka"}
    PROVE  /\ {} \notin Goroutines
           /\ \A g, h \in Goroutines : \A t : t \in g /\ t \in h => g = h
           /\ backend' = backend => Goroutines' = Goroutines
<1>1. Goroutines = {{t} : t \in Topics} \/ Goroutines = {Topics}
  BY DEF Goroutines, PostgresSubscribe, RedisSubscribe, NATSSubscribe, KafkaSubscribe
<1>2. {} \notin Goroutines
  BY <1>1
<1>3. ASSUME NEW g \in Goroutines, NEW h \in Goroutines, NEW t, t \in g, t \in h
      PROVE  g = h
  <2>1. CASE Goroutines = {Topics}
    BY <2>1
  <2>2. CASE Goroutines = {{u} : u \in Topics}
    <3>1. PICK u \in Topics, v \in Topics : g = {u} /\ h = {v}
      BY <2>2
    <3>2. t = u /\ t = v
      BY <1>3, <3>1
    <3> QED  BY <3>1, <3>2
  <2> QED  BY <1>1, <2>1, <2>2
<1>4. ASSUME backend' = backend PROVE Goroutines' = Goroutines
  BY <1>4 DEF Goroutines, PostgresSubscribe, RedisSubscribe, NATSSubscribe, KafkaSubscribe
<1> QED  BY <1>2, <1>3, <1>4

\* At most one broadcast of a topic is under way.
LEMMA OneBroadcast ==
    ASSUME UpdatesInv, NEW g \in Goroutines, NEW h \in Goroutines, NEW t \in g,
           task[h].step # "idle", task[h].msg.topic = t
    PROVE  g = h
  BY OneGoroutine DEF UpdatesInv, UpdatesTypeOK, TaskIsLatest

\* Nothing is under way at the start.
LEMMA UpdatesInitInv == UpdatesInit => UpdatesInv
<1> SUFFICES ASSUME UpdatesInit PROVE UpdatesInv
  OBVIOUS
<1> USE DEF UpdatesInit
<1>0. backend \in {"postgres", "redis", "nats", "kafka"}
  BY DEF NewFromEnv
<1>1. NoMessage \in Message /\ NoTask \in Task
  BY DEF NoMessage, NoTask, Message, Task
<1>2. UpdatesTypeOK
  <2>1. task \in [Goroutines -> Task]
    BY <1>1
  <2>2. got \in [Clients -> Seq(Message)] /\ handled \in [Topics -> Seq(Message)]
    OBVIOUS
  <2> QED  BY <1>0, <2>1, <2>2 DEF UpdatesTypeOK
<1>3. \A g \in Goroutines : task[g].step = "idle" /\ task[g].left = {}
  BY DEF NoTask
<1>4. LockIsWriter
  BY <1>0, <1>3, OneGoroutine DEF LockIsWriter
<1>5. TaskIsLatest
  BY <1>3 DEF TaskIsLatest
<1>6. HandledInOrder /\ WrittenLast
  BY DEF HandledInOrder, WrittenLast
<1>7. \A c \in Clients, t \in Topics : seen(c, t) = {}
  BY DEF seen
<1>8. GotStretch
  BY <1>7 DEF GotStretch, Stretch
<1>9. ListedIsMade
  BY <1>3 DEF ListedIsMade
<1>10. SameOrderForAll
  BY DEF SameOrderForAll
<1> QED  BY <1>2, <1>4, <1>5, <1>6, <1>8, <1>9, <1>10 DEF UpdatesInv

-----------------------------------------------------------------------------
(* The stream.                                                             *)

\* What is published or lost concerns no message that is on its way.
LEMMA StreamInv ==
    ASSUME UpdatesInv, UNCHANGED <<backend, handled>>, UNCHANGED hubVars,
           stream' \in [Topics -> Nat], taken' \in [Topics -> Nat],
           stream[PriceTopic] <= stream'[PriceTopic],
           \A t \in Topics : taken[t] <= taken'[t],
           subscribed' \in BOOLEAN, away' \in {"up", "down", "back"}
    PROVE  UpdatesInv'
<1> USE DEF UpdatesInv, hubVars
<1>1. Goroutines' = Goroutines
  BY OneGoroutine DEF UpdatesTypeOK
<1>2. UpdatesTypeOK'
  BY <1>1 DEF UpdatesTypeOK
<1>3. LockIsWriter' /\ TaskIsLatest' /\ WrittenLast' /\ ListedIsMade' /\ SameOrderForAll'
  BY <1>1 DEF LockIsWriter, TaskIsLatest, WrittenLast, ListedIsMade, SameOrderForAll, positions
<1>4. \A c \in Clients, t \in Topics : seen(c, t)' = seen(c, t) /\ (pending(c, t)' <=> pending(c, t))
  BY <1>1 DEF seen, pending
<1>5. GotStretch'
  BY <1>4 DEF GotStretch, Stretch
<1>6. HandledInOrder'
  <2> SUFFICES ASSUME NEW t \in Topics, NEW k \in DOMAIN handled[t]
               PROVE  handled[t][k].id <= taken'[t] /\ handled[t][k].prices <= stream'[PriceTopic]
    BY DEF HandledInOrder
  <2>1. handled[t][k] \in Message
    BY DEF UpdatesTypeOK
  <2>2. handled[t][k].id \in Nat /\ handled[t][k].prices \in Nat
    BY <2>1 DEF Message
  <2>3. handled[t][k].id <= taken[t] /\ handled[t][k].prices <= stream[PriceTopic]
    BY DEF HandledInOrder
  <2>4. /\ taken[t] \in Nat /\ taken'[t] \in Nat /\ taken[t] <= taken'[t]
        /\ stream[PriceTopic] \in Nat /\ stream'[PriceTopic] \in Nat
    BY DEF UpdatesTypeOK
  <2>5. PICK id \in Nat, prices \in Nat : id = handled[t][k].id /\ prices = handled[t][k].prices
    BY <2>2
  <2>6. id <= taken'[t]
    BY <2>3, <2>4, <2>5
  <2>7. prices <= stream'[PriceTopic]
    BY <2>3, <2>4, <2>5
  <2> QED  BY <2>5, <2>6, <2>7
<1> QED  BY <1>2, <1>3, <1>5, <1>6

\* A publication, a lost connection and a new one.
LEMMA StreamStepsInv ==
    ASSUME UpdatesInv, (\E t \in Topics : Announce(t)) \/ ConnectionLost \/ Reconnect
    PROVE  UpdatesInv'
<1>1. CASE \E t \in Topics : Announce(t)
  <2>1. PICK t \in Topics : Announce(t)
    BY <1>1
  <2>2. /\ stream \in [Topics -> Nat] /\ taken \in [Topics -> Nat]
        /\ subscribed \in BOOLEAN /\ away \in {"up", "down", "back"}
    BY DEF UpdatesInv, UpdatesTypeOK
  <2>3. /\ stream' = [stream EXCEPT ![t] = @ + 1]
        /\ taken' \in {[taken EXCEPT ![t] = @ + 1], taken}
        /\ UNCHANGED <<backend, subscribed, away, handled>> /\ UNCHANGED hubVars
    BY <2>1 DEF Announce
  <2>4. stream' \in [Topics -> Nat] /\ taken' \in [Topics -> Nat]
    BY <2>2, <2>3
  <2>5. stream[PriceTopic] <= stream'[PriceTopic] /\ \A u \in Topics : taken[u] <= taken'[u]
    BY <2>2, <2>3
  <2> QED  BY <2>2, <2>3, <2>4, <2>5, StreamInv
<1>2. CASE ConnectionLost \/ Reconnect
  <2>1. /\ stream \in [Topics -> Nat] /\ taken \in [Topics -> Nat]
        /\ subscribed \in BOOLEAN /\ away \in {"up", "down", "back"}
    BY DEF UpdatesInv, UpdatesTypeOK
  <2>2. UNCHANGED <<backend, stream, taken, handled>> /\ UNCHANGED hubVars
    BY <1>2 DEF ConnectionLost, Reconnect
  <2>3. subscribed' \in BOOLEAN /\ away' \in {"up", "down", "back"}
    <3>1. errorEndsSubscribe \in BOOLEAN
      BY DEF errorEndsSubscribe
    <3> QED  BY <1>2, <2>1, <3>1 DEF ConnectionLost, Reconnect
  <2>4. stream[PriceTopic] <= stream'[PriceTopic] /\ \A u \in Topics : taken[u] <= taken'[u]
    BY <2>1, <2>2
  <2> QED  BY <2>1, <2>2, <2>3, <2>4, StreamInv
<1> QED  BY <1>1, <1>2

-----------------------------------------------------------------------------
(* The hub.                                                                *)

\* A client that joins, closes, or is taken off the list has what it had.
LEMMA ClientInv ==
    ASSUME UpdatesInv, UNCHANGED <<backend, task, writeMu, got>>, UNCHANGED streamVars,
           NEW c \in Clients, NEW status \in {"none", "open", "broken", "closed"},
           conn' = [conn EXCEPT ![c] = status],
           status = "open" => conn[c] \in {"open", "none"} /\ c \in listed',
           status = "none" => conn[c] = "none",
           listed' \in {listed, listed \ {c}, listed \cup {c}},
           status = "none" => listed' # listed \cup {c}
    PROVE  UpdatesInv'
<1> USE DEF UpdatesInv, streamVars
<1>1. Goroutines' = Goroutines
  BY OneGoroutine DEF UpdatesTypeOK
<1>2. \A d \in Clients : conn'[d] = IF d = c THEN status ELSE conn[d]
  BY DEF UpdatesTypeOK
<1>3. UpdatesTypeOK'
  BY <1>1 DEF UpdatesTypeOK
<1>4. LockIsWriter' /\ TaskIsLatest' /\ WrittenLast' /\ HandledInOrder' /\ SameOrderForAll'
  BY <1>1 DEF LockIsWriter, TaskIsLatest, WrittenLast, HandledInOrder, SameOrderForAll, positions
<1>5. \A d \in Clients, t \in Topics : seen(d, t)' = seen(d, t) /\ (pending(d, t)' <=> pending(d, t))
  BY <1>1 DEF seen, pending
<1>6. ASSUME NEW d \in Clients, NEW t \in Topics PROVE Stretch(d, t)'
  <2>1. Stretch(d, t)
    BY DEF GotStretch
  <2>2. conn'[d] = "open" => conn[d] = "open" \/ seen(d, t) = {}
    <3>1. conn[d] = "none" => seen(d, t) = {}
      BY DEF ListedIsMade, seen
    <3> QED  BY <1>2, <3>1
  <2> QED  BY <1>5, <2>1, <2>2 DEF Stretch
<1>7. ListedIsMade'
  BY <1>1, <1>2 DEF ListedIsMade
<1> QED  BY <1>3, <1>4, <1>6, <1>7 DEF GotStretch

\* The steps of the connections themselves.
LEMMA ClientStepsInv ==
    ASSUME UpdatesInv, NEW c \in Clients, Join(c) \/ Ping(c) \/ Leave(c) \/ remove(c)
    PROVE  UpdatesInv'
<1>1. conn \in [Clients -> {"none", "open", "broken", "closed"}]
  BY DEF UpdatesInv, UpdatesTypeOK
<1>2. CASE Join(c)
  BY <1>2, ClientInv DEF Join
<1>3. CASE Ping(c)
  BY <1>3, ClientInv DEF Ping
<1>4. CASE Leave(c)
  BY <1>4, ClientInv DEF Leave
<1>5. CASE remove(c)
  <2>1. conn' = [conn EXCEPT ![c] = "closed"]
    BY <1>1, <1>5 DEF remove
  <2> QED  BY <1>5, <2>1, ClientInv DEF remove
<1> QED  BY <1>2, <1>3, <1>4, <1>5

-----------------------------------------------------------------------------
(* The handler.                                                            *)

\* The update of a topic and its number determine each other.
LEMMA SameUpdate ==
    ASSUME UpdatesTypeOK, HandledInOrder, NEW t \in Topics,
           NEW k \in DOMAIN handled[t], NEW l \in DOMAIN handled[t], handled[t][k].id = handled[t][l].id
    PROVE  k = l
<1>1. handled[t] \in Seq(Message)
  BY DEF UpdatesTypeOK
<1>2. k \in Nat /\ l \in Nat /\ handled[t][k] \in Message /\ handled[t][l] \in Message
  BY <1>1
<1>3. PICK id \in Nat : id = handled[t][k].id /\ id = handled[t][l].id
  BY <1>2 DEF Message
<1>4. ~(k < l) /\ ~(l < k)
  BY <1>3 DEF HandledInOrder
<1> QED  BY <1>2, <1>4

\* The broadcast of a new update begins when that of the update before has ended.
LEMMA HandleInv ==
    ASSUME UpdatesInv, NEW g \in Goroutines, NEW t \in Topics, Handle(g, t)
    PROVE  UpdatesInv'
<1> USE DEF UpdatesInv
<1>1. Goroutines' = Goroutines
  BY OneGoroutine DEF UpdatesTypeOK, Handle
<1>2. PICK m \in socketPayload(t, [topic |-> t, id |-> taken[t] + 1, prices |-> 0]) :
         /\ task' = [task EXCEPT ![g] = [step |-> "waiting", msg |-> m, left |-> listed]]
         /\ handled' = [handled EXCEPT ![t] = Append(@, m)]
  BY DEF Handle
<1>3. m \in Message /\ m.topic = t /\ m.id = taken[t] + 1
      /\ m.prices \in {0, stream[PriceTopic]} /\ (t # PriceTopic => m.prices = 0)
  <2>1. taken[t] + 1 \in Nat /\ stream[PriceTopic] \in Nat
    BY DEF UpdatesTypeOK
  <2>2. \/ m = [topic |-> t, id |-> taken[t] + 1, prices |-> 0]
        \/ t = PriceTopic /\ m = [topic |-> t, id |-> taken[t] + 1, prices |-> stream[PriceTopic]]
    <3>1. PICK asked : asked = [topic |-> t, id |-> taken[t] + 1, prices |-> 0]
      OBVIOUS
    <3>2. [asked EXCEPT !.prices = stream[PriceTopic]]
             = [topic |-> t, id |-> taken[t] + 1, prices |-> stream[PriceTopic]]
      BY <3>1
    <3>3. m \in socketPayload(t, asked)
      BY <1>2, <3>1
    <3>4. m = asked \/ (t = PriceTopic /\ m = [asked EXCEPT !.prices = stream[PriceTopic]])
      BY <3>3 DEF socketPayload, priceUpdateSocketPayload
    <3> QED  BY <3>1, <3>2, <3>4
  <2> QED  BY <2>1, <2>2 DEF Message
<1>4. handled[t] \in Seq(Message) /\ Len(handled[t]) \in Nat /\ DOMAIN handled[t] = 1..Len(handled[t])
  BY DEF UpdatesTypeOK
<1> DEFINE n == Len(handled[t])
<1>5. /\ handled'[t] = Append(handled[t], m)
      /\ DOMAIN handled'[t] = 1..(n + 1) /\ Len(handled'[t]) = n + 1
      /\ handled'[t][n + 1] = m
      /\ \A k \in 1..n : handled'[t][k] = handled[t][k]
      /\ \A u \in Topics \ {t} : handled'[u] = handled[u]
  BY <1>2, <1>3, <1>4 DEF UpdatesTypeOK
<1>6. \A f \in Goroutines : f # g => task'[f] = task[f]
  BY <1>2 DEF UpdatesTypeOK
<1>7. task'[g] = [step |-> "waiting", msg |-> m, left |-> listed]
  BY <1>2 DEF UpdatesTypeOK
<1>8. UpdatesTypeOK'
  <2>1. [step |-> "waiting", msg |-> m, left |-> listed] \in Task
    BY <1>3 DEF Task, UpdatesTypeOK
  <2>2. task' \in [Goroutines -> Task]
    BY <1>2, <2>1 DEF UpdatesTypeOK
  <2>3. handled' \in [Topics -> Seq(Message)]
    BY <1>2, <1>3, <1>4 DEF UpdatesTypeOK
  <2>4. taken' \in [Topics -> Nat]
    BY DEF Handle, UpdatesTypeOK
  <2> QED  BY <1>1, <2>2, <2>3, <2>4 DEF UpdatesTypeOK, Handle
<1>9. LockIsWriter'
  <2>1. writeMu' = writeMu /\ task[g].step = "idle"
    BY DEF Handle
  <2> QED  BY <1>1, <1>6, <1>7, <2>1 DEF LockIsWriter
<1>10. \A f \in Goroutines : f # g /\ task[f].step # "idle" => task[f].msg.topic \in Topics \ {t}
  <2>1. t \in g
    BY DEF Handle
  <2>2. \A f \in Goroutines : task[f].step # "idle" => task[f].msg.topic \in Topics
    BY DEF UpdatesTypeOK, Task, Message
  <2> QED  BY <2>1, <2>2, OneBroadcast
<1>11. TaskIsLatest'
  <2> SUFFICES ASSUME NEW f \in Goroutines, task'[f].step # "idle"
               PROVE  /\ task'[f].msg.topic \in f /\ handled'[task'[f].msg.topic] # << >>
                      /\ task'[f].msg = handled'[task'[f].msg.topic][Len(handled'[task'[f].msg.topic])]
    BY <1>1 DEF TaskIsLatest
  <2>1. CASE f = g
    BY <1>3, <1>4, <1>5, <1>7, <2>1 DEF Handle
  <2>2. CASE f # g
    BY <1>5, <1>6, <1>10, <2>2 DEF TaskIsLatest
  <2> QED  BY <2>1, <2>2
<1>12. \A k \in DOMAIN handled[t] : handled[t][k] \in Message /\ handled[t][k].id < m.id /\ handled[t][k].id <= taken[t]
  <2> SUFFICES ASSUME NEW k \in DOMAIN handled[t] PROVE handled[t][k] \in Message /\ handled[t][k].id < m.id /\ handled[t][k].id <= taken[t]
    OBVIOUS
  <2>1. handled[t][k] \in Message
    BY <1>4
  <2>2. PICK id \in Nat : id = handled[t][k].id
    BY <2>1 DEF Message
  <2>3. id <= taken[t] /\ taken[t] \in Nat
    BY <2>2 DEF HandledInOrder, UpdatesTypeOK
  <2>4. id < m.id
    BY <1>3, <2>3
  <2> QED  BY <2>1, <2>2, <2>3, <2>4
<1>13. HandledInOrder'
  <2> SUFFICES ASSUME NEW u \in Topics
               PROVE  /\ \A k \in DOMAIN handled'[u] :
                            /\ handled'[u][k].topic = u /\ handled'[u][k].id <= taken'[u]
                            /\ handled'[u][k].prices <= stream[PriceTopic]
                            /\ u # PriceTopic => handled'[u][k].prices = 0
                      /\ \A k, l \in DOMAIN handled'[u] : k < l =>
                            /\ handled'[u][k].id < handled'[u][l].id
                            /\ handled'[u][k].prices > 0 /\ handled'[u][l].prices > 0 =>
                                  handled'[u][k].prices <= handled'[u][l].prices
    BY DEF HandledInOrder, Handle
  <2>1. CASE u # t
    <3>1. taken'[u] = taken[u] /\ handled'[u] = handled[u]
      BY <1>5, <2>1 DEF Handle, UpdatesTypeOK
    <3> QED  BY <3>1 DEF HandledInOrder
  <2>2. CASE u = t
    <3>1. taken'[t] = taken[t] + 1 /\ taken[t] \in Nat /\ stream[PriceTopic] \in Nat
      BY DEF Handle, UpdatesTypeOK
    <3>2. \A k \in 1..n : /\ handled[t][k].topic = t /\ handled[t][k].id <= taken'[t]
                          /\ handled[t][k].prices <= stream[PriceTopic]
                          /\ t # PriceTopic => handled[t][k].prices = 0
      <4> SUFFICES ASSUME NEW k \in 1..n PROVE handled[t][k].id <= taken'[t]
        BY <1>4 DEF HandledInOrder
      <4>1. PICK id \in Nat : id = handled[t][k].id
        BY <1>4, <1>12 DEF Message
      <4>2. id < m.id
        BY <1>4, <1>12, <4>1
      <4>3. id <= taken'[t]
        BY <1>3, <3>1, <4>2
      <4> QED  BY <4>1, <4>3
    <3>3. /\ m.topic = t /\ m.id <= taken'[t] /\ m.prices <= stream[PriceTopic]
          /\ t # PriceTopic => m.prices = 0
      BY <1>3, <3>1
    <3>4. ASSUME NEW k \in DOMAIN handled'[t]
          PROVE  /\ handled'[t][k].topic = t /\ handled'[t][k].id <= taken'[t]
                 /\ handled'[t][k].prices <= stream[PriceTopic]
                 /\ t # PriceTopic => handled'[t][k].prices = 0
      <4>1. k = n + 1 \/ k \in 1..n
        BY <1>4, <1>5
      <4> QED  BY <1>5, <3>2, <3>3, <4>1
    <3>5. ASSUME NEW k \in DOMAIN handled'[t], NEW l \in DOMAIN handled'[t], k < l
          PROVE  /\ handled'[t][k].id < handled'[t][l].id
                 /\ handled'[t][k].prices > 0 /\ handled'[t][l].prices > 0 =>
                       handled'[t][k].prices <= handled'[t][l].prices
      <4>1. k \in 1..n /\ (l = n + 1 \/ l \in 1..n)
        BY <1>4, <1>5, <3>5
      <4>2. CASE l \in 1..n
        BY <1>4, <1>5, <3>5, <4>1, <4>2 DEF HandledInOrder
      <4>3. CASE l = n + 1
        <5>1. handled'[t][l] = m /\ handled'[t][k] = handled[t][k]
          BY <1>5, <4>1, <4>3
        <5>2. handled[t][k].id < m.id /\ handled[t][k].prices <= stream[PriceTopic]
          BY <1>4, <1>12, <3>2, <4>1
        <5>3. m.prices > 0 => m.prices = stream[PriceTopic]
          BY <1>3
        <5> QED  BY <5>1, <5>2, <5>3
      <4> QED  BY <4>1, <4>2, <4>3
    <3> QED  BY <2>2, <3>4, <3>5
  <2> QED  BY <2>1, <2>2
<1>14. got' = got /\ conn' = conn /\ listed' = listed
  BY DEF Handle
<1>15. \A c \in Clients : \A i \in DOMAIN got[c] : got[c][i] # m
  <2> SUFFICES ASSUME NEW c \in Clients, NEW i \in DOMAIN got[c], got[c][i] = m PROVE FALSE
    OBVIOUS
  <2>1. got[c][i].topic = t
    BY <1>3
  <2>2. PICK k \in seen(c, t) : got[c][i] = handled[t][k]
    BY <2>1 DEF GotStretch, Stretch
  <2>3. k \in DOMAIN handled[t]
    BY DEF seen
  <2>4. PICK id \in Nat : id = handled[t][k].id
    BY <1>12, <2>3 DEF Message
  <2>5. id < m.id
    BY <1>12, <2>3, <2>4
  <2>6. m.id = id
    BY <2>2, <2>4
  <2> QED  BY <2>5, <2>6
<1>16. WrittenLast'
  <2> SUFFICES ASSUME NEW f \in Goroutines, NEW c \in Clients, NEW i \in DOMAIN got[c]
               PROVE  /\ task'[f].step = "waiting" => got[c][i] # task'[f].msg
                      /\ task'[f].step = "writing" /\ got[c][i] = task'[f].msg => i = Len(got[c])
    BY <1>1, <1>14 DEF WrittenLast
  <2>1. CASE f = g
    BY <1>7, <1>15, <2>1
  <2>2. CASE f # g
    BY <1>6, <2>2 DEF WrittenLast
  <2> QED  BY <2>1, <2>2
<1>17. \A c \in Clients, u \in Topics : seen(c, u)' = seen(c, u)
  <2> SUFFICES ASSUME NEW c \in Clients, NEW u \in Topics PROVE seen(c, u)' = seen(c, u)
    OBVIOUS
  <2>1. CASE u # t
    BY <1>5, <1>14, <2>1 DEF seen
  <2>2. CASE u = t
    <3>1. \A k : k \in DOMAIN handled'[t] <=> k \in DOMAIN handled[t] \/ k = n + 1
      BY <1>4, <1>5
    <3>2. \A k \in DOMAIN handled[t] : handled'[t][k] = handled[t][k]
      BY <1>4, <1>5
    <3>3. \A i \in DOMAIN got[c] : got[c][i] # handled'[t][n + 1]
      BY <1>5, <1>15
    <3> HIDE DEF n
    <3> QED  BY <1>14, <2>2, <3>1, <3>2, <3>3 DEF seen
  <2> QED  BY <2>1, <2>2
<1>18. \A c \in Clients : pending(c, t)' <=> c \in listed
  BY <1>1, <1>3, <1>6, <1>7, <1>10 DEF pending
<1>19. \A c \in Clients : ~pending(c, t)
  <2>1. task[g].step = "idle"
    BY DEF Handle
  <2> QED  BY <1>10, <2>1 DEF pending
<1>20. \A c \in Clients, u \in Topics \ {t} : pending(c, u)' <=> pending(c, u)
  <2>1. task[g].step = "idle"
    BY DEF Handle
  <2> QED  BY <1>1, <1>3, <1>6, <1>7, <2>1 DEF pending
<1>21. GotStretch'
  <2> SUFFICES ASSUME NEW c \in Clients, NEW u \in Topics PROVE Stretch(c, u)'
    BY DEF GotStretch
  <2>0. Stretch(c, u)
    BY DEF GotStretch
  <2>1. CASE u # t
    BY <1>5, <1>14, <1>17, <1>20, <2>0, <2>1 DEF Stretch
  <2>2. CASE u = t
    <3>1. \A k \in seen(c, t) : k \in 1..n
      BY <1>4 DEF seen
    <3>2. \A k \in seen(c, t) : handled'[t][k] = handled[t][k]
      BY <1>5, <3>1
    <3>3. n + 1 \notin seen(c, t) /\ (n + 1) - 1 = n
      BY <1>4, <3>1
    <3>4. conn[c] = "open" => c \in listed
      BY DEF ListedIsMade
    <3>5. conn[c] = "open" /\ seen(c, t) # {} => n \in seen(c, t)
      BY <1>19, <2>0, <2>2 DEF Stretch
    <3>6. \A i \in DOMAIN got[c] : got[c][i].topic = t => \E k \in seen(c, t) : got[c][i] = handled'[t][k]
      BY <2>0, <2>2, <3>2 DEF Stretch
    <3>7. Len(handled'[t]) = n + 1 /\ seen(c, t)' = seen(c, t) /\ (pending(c, t)' <=> c \in listed)
      BY <1>5, <1>17, <1>18
    <3>8. /\ \A i, j \in DOMAIN got[c] :
                i < j /\ got[c][i].topic = t /\ got[c][j].topic = t => got[c][i].id < got[c][j].id
          /\ \A k, l \in seen(c, t) : k..l \subseteq seen(c, t)
      BY <2>0, <2>2 DEF Stretch
    <3>9. conn'[c] = "open" /\ seen(c, t)' # {} =>
             IF pending(c, t)' THEN Len(handled'[t]) - 1 \in seen(c, t)' ELSE Len(handled'[t]) \in seen(c, t)'
      BY <1>14, <3>3, <3>4, <3>5, <3>7
    <3>10. pending(c, t)' => Len(handled'[t]) \notin seen(c, t)'
      BY <3>3, <3>7
    <3> HIDE DEF n
    <3> QED  BY <1>14, <2>2, <3>6, <3>7, <3>8, <3>9, <3>10 DEF Stretch
  <2> QED  BY <2>1, <2>2
<1>22. ListedIsMade'
  BY <1>1, <1>6, <1>7, <1>14 DEF ListedIsMade
<1>23. SameOrderForAll'
  BY <1>14 DEF SameOrderForAll, positions
<1> QED  BY <1>8, <1>9, <1>11, <1>13, <1>16, <1>21, <1>22, <1>23

-----------------------------------------------------------------------------
(* The broadcast.                                                          *)

\* While a goroutine broadcasts the latest update of a topic, no other goroutine writes and
\* none has an update of that topic.
LEMMA BroadcastFacts ==
    ASSUME UpdatesInv, NEW g \in Goroutines, task[g].step = "writing"
    PROVE  /\ task[g] \in Task /\ task[g].msg.topic \in Topics
           /\ handled[task[g].msg.topic] \in Seq(Message)
           /\ Len(handled[task[g].msg.topic]) \in DOMAIN handled[task[g].msg.topic]
           /\ task[g].msg = handled[task[g].msg.topic][Len(handled[task[g].msg.topic])]
           /\ \A f \in Goroutines : f # g => task[f].step # "writing"
           /\ \A f \in Goroutines : f # g /\ task[f].step # "idle" => task[f].msg.topic # task[g].msg.topic
<1>1. task[g] \in Task /\ task[g].msg.topic \in Topics
  BY DEF UpdatesInv, UpdatesTypeOK, Task, Message
<1>2. handled[task[g].msg.topic] \in Seq(Message)
  BY <1>1 DEF UpdatesInv, UpdatesTypeOK
<1>3. /\ task[g].msg.topic \in g /\ handled[task[g].msg.topic] # << >>
      /\ task[g].msg = handled[task[g].msg.topic][Len(handled[task[g].msg.topic])]
  BY DEF UpdatesInv, TaskIsLatest
<1>4. Len(handled[task[g].msg.topic]) \in DOMAIN handled[task[g].msg.topic]
  BY <1>2, <1>3
<1>5. \A f \in Goroutines : f # g => task[f].step # "writing"
  BY DEF UpdatesInv, LockIsWriter
<1>6. \A f \in Goroutines : f # g /\ task[f].step # "idle" => task[f].msg.topic # task[g].msg.topic
  BY <1>3, OneBroadcast
<1> QED  BY <1>1, <1>2, <1>3, <1>4, <1>5, <1>6

\* A broadcast begins when nobody writes.
LEMMA BeginBroadcastInv ==
    ASSUME UpdatesInv, NEW g \in Goroutines, BeginBroadcast(g)
    PROVE  UpdatesInv'
<1> USE DEF UpdatesInv, streamVars
<1>1. Goroutines' = Goroutines /\ {} \notin Goroutines
  <2>1. backend \in {"postgres", "redis", "nats", "kafka"} /\ backend' = backend
    BY DEF UpdatesTypeOK, BeginBroadcast
  <2> QED  BY <2>1, OneGoroutine
<1>2. UNCHANGED <<backend, stream, taken, subscribed, away, handled, conn, listed, got>>
  BY DEF BeginBroadcast
<1>3. task[g] \in Task /\ task' = [task EXCEPT ![g] = [task[g] EXCEPT !.step = "writing"]]
  BY DEF UpdatesTypeOK, BeginBroadcast
<1>4. task'[g] \in Task /\ task'[g].step = "writing" /\ task'[g].msg = task[g].msg /\ task'[g].left = task[g].left
  BY <1>3 DEF UpdatesTypeOK, Task
<1>5. \A f \in Goroutines : f # g => task'[f] = task[f]
  BY <1>3 DEF UpdatesTypeOK
<1>6. task[g].step = "waiting" /\ writeMu = {} /\ writeMu' = g
  BY DEF BeginBroadcast
<1>7. UpdatesTypeOK'
  BY <1>1, <1>2, <1>3, <1>4, <1>6 DEF UpdatesTypeOK
<1>8. LockIsWriter'
  <2>1. \A f \in Goroutines : task[f].step # "writing"
    BY <1>1, <1>6 DEF LockIsWriter
  <2> QED  BY <1>1, <1>4, <1>5, <1>6, <2>1 DEF LockIsWriter
<1>9. TaskIsLatest'
  BY <1>1, <1>2, <1>4, <1>5, <1>6 DEF TaskIsLatest
<1>10. HandledInOrder' /\ SameOrderForAll'
  BY <1>2 DEF HandledInOrder, SameOrderForAll, positions
<1>11. \A c \in Clients, t \in Topics : seen(c, t)' = seen(c, t) /\ (pending(c, t)' <=> pending(c, t))
  BY <1>1, <1>2, <1>4, <1>5, <1>6 DEF seen, pending
<1>12. GotStretch'
  BY <1>2, <1>11 DEF GotStretch, Stretch
<1>13. WrittenLast'
  <2> SUFFICES ASSUME NEW f \in Goroutines, NEW c \in Clients, NEW i \in DOMAIN got[c]
               PROVE  /\ task'[f].step = "waiting" => got[c][i] # task'[f].msg
                      /\ task'[f].step = "writing" /\ got[c][i] = task'[f].msg => i = Len(got[c])
    BY <1>1, <1>2 DEF WrittenLast
  <2>1. CASE f = g
    BY <1>4, <1>6, <2>1 DEF WrittenLast
  <2>2. CASE f # g
    BY <1>5, <2>2 DEF WrittenLast
  <2> QED  BY <2>1, <2>2
<1>14. ListedIsMade'
  BY <1>1, <1>2, <1>4, <1>5 DEF ListedIsMade
<1> QED  BY <1>7, <1>8, <1>9, <1>10, <1>12, <1>13, <1>14

\* A broadcast ends when it has come to every client of its list.
LEMMA EndBroadcastInv ==
    ASSUME UpdatesInv, NEW g \in Goroutines, EndBroadcast(g)
    PROVE  UpdatesInv'
<1> USE DEF UpdatesInv, streamVars
<1>1. Goroutines' = Goroutines /\ {} \notin Goroutines
  BY OneGoroutine DEF UpdatesTypeOK, EndBroadcast
<1>2. UNCHANGED <<backend, stream, taken, subscribed, away, handled, conn, listed, got>>
  BY DEF EndBroadcast
<1>3. NoTask \in Task /\ NoTask.step = "idle" /\ NoTask.left = {}
  BY DEF NoTask, NoMessage, Task, Message
<1>4. task'[g] = NoTask /\ \A f \in Goroutines : f # g => task'[f] = task[f]
  BY DEF UpdatesTypeOK, EndBroadcast
<1>5. task[g].step = "writing" /\ task[g].left = {} /\ writeMu' = {}
  BY DEF EndBroadcast
<1>6. UpdatesTypeOK'
  <2>1. task' \in [Goroutines -> Task]
    BY <1>3 DEF UpdatesTypeOK, EndBroadcast
  <2> QED  BY <1>1, <1>2, <1>5, <2>1 DEF UpdatesTypeOK
<1>7. LockIsWriter'
  BY <1>1, <1>3, <1>4, <1>5, BroadcastFacts DEF LockIsWriter
<1>8. TaskIsLatest'
  BY <1>1, <1>2, <1>3, <1>4 DEF TaskIsLatest
<1>9. HandledInOrder' /\ SameOrderForAll'
  BY <1>2 DEF HandledInOrder, SameOrderForAll, positions
<1>10. \A c \in Clients, t \in Topics : seen(c, t)' = seen(c, t) /\ (pending(c, t)' <=> pending(c, t))
  BY <1>1, <1>2, <1>3, <1>4, <1>5 DEF seen, pending
<1>11. GotStretch'
  BY <1>2, <1>10 DEF GotStretch, Stretch
<1>12. WrittenLast'
  BY <1>1, <1>2, <1>3, <1>4 DEF WrittenLast
<1>13. ListedIsMade'
  BY <1>1, <1>2, <1>3, <1>4 DEF ListedIsMade
<1> QED  BY <1>6, <1>7, <1>8, <1>9, <1>11, <1>12, <1>13

\* A write that fails takes a client off the list: it need not have the latest update.
LEMMA WriteFailsInv ==
    ASSUME UpdatesInv, NEW g \in Goroutines, NEW c \in Clients,
           task[g].step = "writing", c \in task[g].left,
           conn' = [conn EXCEPT ![c] = IF @ = "open" THEN "broken" ELSE @],
           listed' = listed \ {c},
           task' = [task EXCEPT ![g] = [task[g] EXCEPT !.left = @ \ {c}]],
           UNCHANGED <<backend, writeMu, got>>, UNCHANGED streamVars
    PROVE  UpdatesInv'
<1> USE DEF UpdatesInv, streamVars
<1>1. Goroutines' = Goroutines
  BY OneGoroutine DEF UpdatesTypeOK
<1>2. task[g] \in Task
  BY DEF UpdatesTypeOK
<1>3. /\ task'[g] \in Task /\ task'[g].step = "writing" /\ task'[g].msg = task[g].msg
      /\ task'[g].left = task[g].left \ {c}
  BY <1>2 DEF UpdatesTypeOK, Task
<1>4. \A f \in Goroutines : f # g => task'[f] = task[f]
  BY DEF UpdatesTypeOK
<1>5. /\ conn' \in [Clients -> {"none", "open", "broken", "closed"}]
      /\ conn'[c] # "open" /\ (conn'[c] = "none" <=> conn[c] = "none")
      /\ \A d \in Clients : d # c => conn'[d] = conn[d]
  BY DEF UpdatesTypeOK
<1>6. UpdatesTypeOK'
  BY <1>1, <1>3, <1>5 DEF UpdatesTypeOK
<1>7. LockIsWriter' /\ TaskIsLatest' /\ HandledInOrder' /\ SameOrderForAll' /\ WrittenLast'
  BY <1>1, <1>3, <1>4 DEF LockIsWriter, TaskIsLatest, HandledInOrder, SameOrderForAll, positions, WrittenLast
<1>8. \A d \in Clients, t \in Topics : seen(d, t)' = seen(d, t)
  BY DEF seen
<1>9. \A d \in Clients, t \in Topics : /\ pending(d, t)' => pending(d, t)
                                       /\ d # c /\ pending(d, t) => pending(d, t)'
  BY <1>1, <1>3, <1>4 DEF pending
<1>10. GotStretch'
  <2> SUFFICES ASSUME NEW d \in Clients, NEW t \in Topics PROVE Stretch(d, t)'
    BY DEF GotStretch
  <2>1. Stretch(d, t)
    BY DEF GotStretch
  <2>2. CASE d = c
    BY <1>5, <1>8, <1>9, <2>1, <2>2 DEF Stretch
  <2>3. CASE d # c
    BY <1>5, <1>8, <1>9, <2>1, <2>3 DEF Stretch
  <2> QED  BY <2>2, <2>3
<1>11. ListedIsMade'
  BY <1>1, <1>3, <1>4, <1>5 DEF ListedIsMade
<1> QED  BY <1>6, <1>7, <1>10, <1>11

\* A write that succeeds gives a client the update after those that it has.
LEMMA WriteSucceedsInv ==
    ASSUME UpdatesInv, NEW g \in Goroutines, NEW c \in Clients,
           task[g].step = "writing", c \in task[g].left, conn[c] = "open",
           got' = [got EXCEPT ![c] = Append(@, task[g].msg)],
           task' = [task EXCEPT ![g] = [task[g] EXCEPT !.left = @ \ {c}]],
           UNCHANGED <<backend, writeMu, conn, listed>>, UNCHANGED streamVars
    PROVE  UpdatesInv'
<1> USE DEF UpdatesInv, streamVars
<1>1. Goroutines' = Goroutines
  BY OneGoroutine DEF UpdatesTypeOK
<1>2. task[g] \in Task
  BY DEF UpdatesTypeOK
<1>3. /\ task'[g] \in Task /\ task'[g].step = "writing" /\ task'[g].msg = task[g].msg
      /\ task'[g].left = task[g].left \ {c}
  BY <1>2 DEF UpdatesTypeOK, Task
<1>4. \A f \in Goroutines : f # g => task'[f] = task[f]
  BY DEF UpdatesTypeOK
<1>5. PICK m \in Message, t \in Topics, n \in Nat :
         m = task[g].msg /\ t = m.topic /\ n = Len(handled[t])
  <2>1. task[g].msg \in Message /\ task[g].msg.topic \in Topics
    BY <1>2 DEF Task, Message
  <2>2. handled[task[g].msg.topic] \in Seq(Message)
    BY <2>1 DEF UpdatesTypeOK
  <2>3. Len(handled[task[g].msg.topic]) \in Nat
    BY <2>2
  <2> QED  BY <2>1, <2>3
<1>6. /\ handled[t] \in Seq(Message) /\ n \in DOMAIN handled[t] /\ m = handled[t][n]
      /\ DOMAIN handled[t] = 1..n
      /\ \A f \in Goroutines : f # g => task[f].step # "writing"
      /\ \A f \in Goroutines : f # g /\ task[f].step # "idle" => task[f].msg.topic # t
  <2>1. /\ handled[t] \in Seq(Message) /\ n \in DOMAIN handled[t] /\ m = handled[t][n]
        /\ \A f \in Goroutines : f # g => task[f].step # "writing"
        /\ \A f \in Goroutines : f # g /\ task[f].step # "idle" => task[f].msg.topic # t
    <3>1. /\ handled[task[g].msg.topic] \in Seq(Message)
          /\ Len(handled[task[g].msg.topic]) \in DOMAIN handled[task[g].msg.topic]
          /\ task[g].msg = handled[task[g].msg.topic][Len(handled[task[g].msg.topic])]
          /\ \A f \in Goroutines : f # g => task[f].step # "writing"
          /\ \A f \in Goroutines : f # g /\ task[f].step # "idle" => task[f].msg.topic # task[g].msg.topic
      BY BroadcastFacts
    <3> QED  BY <1>5, <3>1
  <2>2. DOMAIN handled[t] = 1..Len(handled[t])
    BY <2>1
  <2>3. DOMAIN handled[t] = 1..n
    BY <1>5, <2>2
  <2> QED  BY <2>1, <2>3
<1>7. PICK s \in Seq(Message), len \in Nat : s = got[c] /\ len = Len(got[c])
  <2>1. got[c] \in Seq(Message)
    BY DEF UpdatesTypeOK
  <2>2. Len(got[c]) \in Nat
    BY <2>1
  <2> QED  BY <2>1, <2>2
<1>8. /\ got'[c] \in Seq(Message) /\ Len(got'[c]) = len + 1 /\ DOMAIN got'[c] = 1..(len + 1)
      /\ DOMAIN got[c] = 1..len
      /\ got'[c][len + 1] = m
      /\ \A i \in 1..len : got'[c][i] = got[c][i]
  BY <1>5, <1>7 DEF UpdatesTypeOK
<1>9. \A d \in Clients : d # c => got'[d] = got[d]
  BY DEF UpdatesTypeOK
<1>10. UpdatesTypeOK'
  BY <1>1, <1>3, <1>8 DEF UpdatesTypeOK
<1>11. LockIsWriter' /\ TaskIsLatest' /\ HandledInOrder'
  BY <1>1, <1>3, <1>4 DEF LockIsWriter, TaskIsLatest, HandledInOrder
<1>12. pending(c, t) /\ n \notin seen(c, t)
  <2>1. pending(c, t)
    BY <1>5 DEF pending
  <2> QED  BY <1>5, <2>1 DEF GotStretch, Stretch
<1>13. ASSUME NEW d \in Clients, NEW i \in DOMAIN got[d], got[d][i].topic = t, got[d][i].id = m.id
       PROVE  got[d][i] = m
  <2>1. PICK k \in seen(d, t) : got[d][i] = handled[t][k]
    BY <1>13 DEF GotStretch, Stretch
  <2>2. k \in DOMAIN handled[t]
    BY DEF seen
  <2>3. k = n
    BY <1>6, <1>13, <2>1, <2>2, SameUpdate
  <2> QED  BY <1>6, <2>1, <2>3
<1>14. \A i \in DOMAIN got[c] : ~(got[c][i].topic = t /\ got[c][i].id = m.id)
  <2> SUFFICES ASSUME NEW i \in DOMAIN got[c], got[c][i].topic = t, got[c][i].id = m.id PROVE FALSE
    OBVIOUS
  <2>1. got[c][i] = handled[t][n]
    BY <1>6, <1>13
  <2>2. n \in seen(c, t)
    BY <1>6, <2>1 DEF seen
  <2> QED  BY <1>12, <2>2
<1>15. \A d \in Clients : \A i \in DOMAIN got[d] :
          got[d][i].topic = t /\ got[d][i].id = m.id => i = Len(got[d])
  BY <1>5, <1>13 DEF WrittenLast
<1>16. WrittenLast'
  <2> SUFFICES ASSUME NEW f \in Goroutines, NEW d \in Clients, NEW i \in DOMAIN got'[d]
               PROVE  /\ task'[f].step = "waiting" => got'[d][i] # task'[f].msg
                      /\ task'[f].step = "writing" /\ got'[d][i] = task'[f].msg => i = Len(got'[d])
    BY <1>1 DEF WrittenLast
  <2>1. CASE d # c
    BY <1>3, <1>4, <1>9, <2>1 DEF WrittenLast
  <2>2. CASE d = c /\ i \in 1..len
    <3>1. got'[c][i] = got[c][i] /\ i \in DOMAIN got[c]
      BY <1>8, <2>2
    <3>2. got[c][i] # m
      BY <1>5, <1>14, <3>1
    <3>3. task'[f].msg = task[f].msg /\ task'[f].step = task[f].step
      BY <1>3, <1>4
    <3>4. CASE f = g
      BY <1>3, <1>5, <2>2, <3>1, <3>2, <3>4
    <3>5. CASE f # g
      BY <1>6, <2>2, <3>1, <3>3, <3>5 DEF WrittenLast
    <3> QED  BY <3>4, <3>5
  <2>3. CASE d = c /\ i = len + 1
    <3>1. got'[c][i] = m /\ i = Len(got'[c])
      BY <1>8, <2>3
    <3>2. f # g => (task'[f].step = "waiting" => m # task'[f].msg) /\ task'[f].step # "writing"
      BY <1>4, <1>5, <1>6
    <3> QED  BY <1>3, <2>3, <3>1, <3>2
  <2> QED  BY <1>8, <2>1, <2>2, <2>3
<1>17. \A d \in Clients, u \in Topics : d # c \/ u # t => seen(d, u)' = seen(d, u)
  <2> SUFFICES ASSUME NEW d \in Clients, NEW u \in Topics, d # c \/ u # t PROVE seen(d, u)' = seen(d, u)
    OBVIOUS
  <2>1. CASE d # c
    BY <1>9, <2>1 DEF seen
  <2>2. CASE d = c /\ u # t
    <3>1. \A k \in DOMAIN handled[u] : handled[u][k] # m
      BY <1>5, <2>2 DEF HandledInOrder
    <3>2. ASSUME NEW k \in DOMAIN handled[u]
          PROVE  (\E i \in DOMAIN got'[c] : got'[c][i] = handled[u][k])
                    <=> (\E i \in DOMAIN got[c] : got[c][i] = handled[u][k])
      <4>1. \A i \in DOMAIN got'[c] : i \in 1..len \/ i = len + 1
        BY <1>8
      <4>2. \A i \in DOMAIN got[c] : i \in DOMAIN got'[c]
        BY <1>8
      <4> QED  BY <1>8, <3>1, <4>1, <4>2
    <3> QED  BY <2>2, <3>2 DEF seen
  <2> QED  BY <2>1, <2>2
<1>18. seen(c, t)' = seen(c, t) \cup {n}
  <2>1. ASSUME NEW k \in DOMAIN handled[t]
        PROVE  (\E i \in DOMAIN got'[c] : got'[c][i] = handled[t][k])
                  <=> (\E i \in DOMAIN got[c] : got[c][i] = handled[t][k]) \/ k = n
    <3>1. \A i \in DOMAIN got'[c] : i \in 1..len \/ i = len + 1
      BY <1>8
    <3>2. \A i \in DOMAIN got[c] : i \in DOMAIN got'[c]
      BY <1>8
    <3>3. len + 1 \in DOMAIN got'[c]
      BY <1>8
    <3>4. handled[t][k] = m => k = n
      BY <1>6, SameUpdate
    <3> QED  BY <1>6, <1>8, <3>1, <3>2, <3>3, <3>4
  <2> QED  BY <1>6, <2>1 DEF seen
<1>19. \A d \in Clients, u \in Topics : d # c \/ u # t => (pending(d, u)' <=> pending(d, u))
  BY <1>1, <1>3, <1>4, <1>5 DEF pending
<1>20. ~pending(c, t)'
  BY <1>1, <1>3, <1>4, <1>6 DEF pending
<1>21. ASSUME NEW d \in Clients, NEW u \in Topics, d # c \/ u # t PROVE Stretch(d, u)'
  <2>1. Stretch(d, u) /\ seen(d, u)' = seen(d, u) /\ (pending(d, u)' <=> pending(d, u))
    BY <1>17, <1>19, <1>21 DEF GotStretch
  <2>2. CASE d # c
    BY <1>9, <2>1, <2>2 DEF Stretch
  <2>3. CASE d = c /\ u # t
    <3>1. \A i \in DOMAIN got'[c] : got'[c][i].topic = u => i \in DOMAIN got[c] /\ got'[c][i] = got[c][i]
      <4>1. \A i \in DOMAIN got'[c] : i \in 1..len \/ i = len + 1
        BY <1>8
      <4> QED  BY <1>5, <1>8, <2>3, <4>1
    <3> QED  BY <2>1, <2>3, <3>1 DEF Stretch
  <2> QED  BY <1>21, <2>2, <2>3
<1>22. Stretch(c, t)'
  <2>1. Stretch(c, t)
    BY DEF GotStretch
  <2>2. \A k \in seen(c, t) : k \in 1..n /\ k # n
    BY <1>6, <1>12 DEF seen
  <2>3. \A i \in DOMAIN got[c] : got[c][i].topic = t => got[c][i].id < m.id
    <3> SUFFICES ASSUME NEW i \in DOMAIN got[c], got[c][i].topic = t PROVE got[c][i].id < m.id
      OBVIOUS
    <3>1. PICK k \in seen(c, t) : got[c][i] = handled[t][k]
      BY <2>1 DEF Stretch
    <3>2. k \in DOMAIN handled[t] /\ k < n
      BY <1>6, <2>2
    <3> QED  BY <1>6, <3>1, <3>2 DEF HandledInOrder
  <2>4. ASSUME NEW i \in DOMAIN got'[c], NEW j \in DOMAIN got'[c], i < j,
               got'[c][i].topic = t, got'[c][j].topic = t
        PROVE  got'[c][i].id < got'[c][j].id
    <3>1. i \in 1..len /\ (j \in 1..len \/ j = len + 1)
      BY <1>8, <2>4
    <3>2. CASE j = len + 1
      BY <1>8, <2>3, <2>4, <3>1, <3>2
    <3>3. CASE j \in 1..len
      <4>1. got'[c][i] = got[c][i] /\ got'[c][j] = got[c][j] /\ i \in DOMAIN got[c] /\ j \in DOMAIN got[c]
        BY <1>8, <3>1, <3>3
      <4> QED  BY <2>1, <2>4, <4>1 DEF Stretch
    <3> QED  BY <3>1, <3>2, <3>3
  <2>5. ASSUME NEW i \in DOMAIN got'[c], got'[c][i].topic = t
        PROVE  \E k \in seen(c, t)' : got'[c][i] = handled[t][k]
    <3>1. i \in 1..len \/ i = len + 1
      BY <1>8
    <3>2. CASE i = len + 1
      BY <1>6, <1>8, <1>18, <3>2
    <3>3. CASE i \in 1..len
      <4>1. got'[c][i] = got[c][i] /\ i \in DOMAIN got[c]
        BY <1>8, <3>3
      <4> QED  BY <1>18, <2>1, <2>5, <4>1 DEF Stretch
    <3> QED  BY <3>1, <3>2, <3>3
  <2>6. ASSUME NEW k \in seen(c, t)', NEW l \in seen(c, t)' PROVE k..l \subseteq seen(c, t)'
    <3>1. CASE k = n
      <4>1. l \in 1..n
        BY <1>6, <1>18, <2>2
      <4>2. \A x \in n..l : x = n
        BY <4>1
      <4> QED  BY <1>18, <3>1, <4>2
    <3>2. CASE k \in seen(c, t) /\ l \in seen(c, t)
      BY <1>18, <2>1, <3>2 DEF Stretch
    <3>3. CASE k \in seen(c, t) /\ l = n
      <4>1. n - 1 \in seen(c, t)
        BY <1>5, <1>12, <2>1, <3>3 DEF Stretch
      <4>2. k..(n - 1) \subseteq seen(c, t)
        BY <2>1, <3>3, <4>1 DEF Stretch
      <4>3. k \in 1..n
        BY <2>2, <3>3
      <4>4. \A x \in k..n : x \in k..(n - 1) \/ x = n
        BY <4>3
      <4> QED  BY <1>18, <3>3, <4>2, <4>4
    <3> QED  BY <1>18, <3>1, <3>2, <3>3
  <2>7. Len(handled[t]) \in seen(c, t)'
    BY <1>5, <1>18
  <2> QED  BY <1>20, <2>4, <2>5, <2>6, <2>7 DEF Stretch
<1>23. GotStretch'
  BY <1>21, <1>22 DEF GotStretch
<1>24. ListedIsMade'
  BY <1>1, <1>3, <1>4, <1>9 DEF ListedIsMade
<1>25. SameOrderForAll'
  <2> SUFFICES ASSUME NEW a \in Clients, NEW b \in Clients, NEW i \in DOMAIN got'[a], NEW j \in DOMAIN got'[a],
                      i < j, NEW k \in positions(got'[b], got'[a][i]), NEW l \in positions(got'[b], got'[a][j])
               PROVE  k < l
    BY DEF SameOrderForAll, positions
  <2>0. /\ k \in DOMAIN got'[b] /\ got'[b][k].topic = got'[a][i].topic /\ got'[b][k].id = got'[a][i].id
        /\ l \in DOMAIN got'[b] /\ got'[b][l].topic = got'[a][j].topic /\ got'[b][l].id = got'[a][j].id
    BY DEF positions
  <2> DEFINE last(x) == x.topic = t /\ x.id = m.id
             old(d, x) == x \in DOMAIN got[d] /\ got'[d][x] = got[d][x]
             new(d, x) == d = c /\ x = len + 1 /\ got'[d][x] = m
  <2>1. ASSUME NEW d \in Clients, NEW x \in DOMAIN got'[d] PROVE old(d, x) \/ new(d, x)
    BY <1>8, <1>9
  <2>2. ASSUME NEW d \in Clients, NEW x, old(d, x), last(got[d][x])
        PROVE  d # c /\ x = Len(got[d])
    BY <1>14, <1>15, <2>2
  <2>3. old(a, i) /\ i \in Nat /\ j \in Nat /\ k \in Nat /\ l \in Nat
    <3>0. got'[a] \in Seq(Message) /\ got'[b] \in Seq(Message)
      BY <1>10 DEF UpdatesTypeOK
    <3>3. DOMAIN got'[a] = 1..Len(got'[a]) /\ DOMAIN got'[b] = 1..Len(got'[b])
      BY <3>0
    <3>1. i \in 1..Len(got'[a]) /\ j \in 1..Len(got'[a]) /\ k \in 1..Len(got'[b]) /\ l \in 1..Len(got'[b])
      BY <2>0, <3>3
    <3>2. i # len + 1 \/ a # c
      BY <1>8, <3>1
    <3> QED  BY <2>1, <3>1, <3>2
  <2>4. ~last(got'[a][i])
    <3> SUFFICES ASSUME last(got'[a][i]) PROVE FALSE
      OBVIOUS
    <3>1. a # c /\ i = Len(got[a])
      BY <2>2, <2>3
    <3>2. j \in 1..Len(got[a]) /\ Len(got[a]) \in Nat
      BY <1>9, <3>1 DEF UpdatesTypeOK
    <3> QED  BY <3>1, <3>2
  <2>5. old(b, k) /\ ~last(got'[b][k])
    <3>1. ~last(got'[b][k])
      BY <2>0, <2>4
    <3>2. last(m)
      BY <1>5
    <3> QED  BY <2>0, <2>1, <3>1, <3>2
  <2>6. CASE old(a, j) /\ old(b, l)
    <3>1. /\ got[b][k].topic = got[a][i].topic /\ got[b][k].id = got[a][i].id
          /\ got[b][l].topic = got[a][j].topic /\ got[b][l].id = got[a][j].id
      BY <2>0, <2>3, <2>5, <2>6
    <3>2. /\ i \in DOMAIN got[a] /\ j \in DOMAIN got[a] /\ k \in DOMAIN got[b] /\ l \in DOMAIN got[b]
      BY <2>3, <2>5, <2>6
    <3>3. k \in positions(got[b], got[a][i]) /\ l \in positions(got[b], got[a][j])
      BY <3>1, <3>2 DEF positions
    <3> QED  BY <3>2, <3>3 DEF SameOrderForAll
  <2>7. CASE new(b, l)
    <3>1. b = c /\ l = len + 1
      BY <2>7
    <3>2. k \in 1..len
      BY <1>8, <2>5, <3>1
    <3> QED  BY <3>1, <3>2
  <2>8. CASE new(a, j) /\ old(b, l)
    <3>1. last(got'[a][j])
      BY <1>5, <2>8
    <3>2. last(got[b][l])
      BY <2>0, <2>8, <3>1
    <3>3. b # c /\ l = Len(got[b])
      BY <2>2, <2>8, <3>2
    <3>4. k \in 1..Len(got[b]) /\ Len(got[b]) \in Nat
      <4>1. got[b] \in Seq(Message) /\ k \in DOMAIN got[b]
        BY <2>5 DEF UpdatesTypeOK
      <4> QED  BY <4>1
    <3>5. k # l
      BY <2>5, <2>8, <3>2
    <3> QED  BY <3>3, <3>4, <3>5
  <2> QED  BY <2>0, <2>1, <2>6, <2>7, <2>8
<1> QED  BY <1>10, <1>11, <1>16, <1>23, <1>24, <1>25

\* One write of a broadcast.
LEMMA WriteClientInv ==
    ASSUME UpdatesInv, NEW g \in Goroutines, NEW c \in Clients, WriteClient(g, c)
    PROVE  UpdatesInv'
<1>1. task[g] \in Task /\ task' = [task EXCEPT ![g] = [task[g] EXCEPT !.left = @ \ {c}]]
  BY DEF WriteClient, UpdatesInv, UpdatesTypeOK
<1>2. task[g].step = "writing" /\ c \in task[g].left /\ UNCHANGED <<backend, writeMu>> /\ UNCHANGED streamVars
  BY DEF WriteClient
<1>3. writeTo(c, task[g].msg)
  BY DEF WriteClient
<1>4. CASE conn[c] = "open" /\ got' = [got EXCEPT ![c] = Append(@, task[g].msg)] /\ UNCHANGED <<conn, listed>>
  BY <1>1, <1>2, <1>4, WriteSucceedsInv
<1>5. CASE /\ conn' = [conn EXCEPT ![c] = IF @ = "open" THEN "broken" ELSE @]
           /\ listed' = listed \ {c} /\ UNCHANGED got
  BY <1>1, <1>2, <1>5, WriteFailsInv
<1> QED  BY <1>3, <1>4, <1>5 DEF writeTo

-----------------------------------------------------------------------------
(* The theorem.                                                            *)

\* Every step.
LEMMA UpdatesNextInv == UpdatesInv /\ [UpdatesNext]_updatesVars => UpdatesInv'
<1> SUFFICES ASSUME UpdatesInv, [UpdatesNext]_updatesVars PROVE UpdatesInv'
  OBVIOUS
<1>1. CASE (\E t \in Topics : Announce(t)) \/ ConnectionLost \/ Reconnect
  BY <1>1, StreamStepsInv
<1>2. CASE \E g \in Goroutines : Broadcast(g) \/ \E t \in Topics : Handle(g, t)
  <2>1. PICK g \in Goroutines : Broadcast(g) \/ \E t \in Topics : Handle(g, t)
    BY <1>2
  <2>2. CASE \E t \in Topics : Handle(g, t)
    BY <2>2, HandleInv
  <2>3. CASE Broadcast(g)
    BY <2>3, BeginBroadcastInv, WriteClientInv, EndBroadcastInv DEF Broadcast
  <2> QED  BY <2>1, <2>2, <2>3
<1>3. CASE \E c \in Clients : Join(c) \/ Ping(c) \/ Leave(c) \/ remove(c)
  BY <1>3, ClientStepsInv
<1>4. CASE UNCHANGED updatesVars
  <2>1. UNCHANGED <<backend, handled>> /\ UNCHANGED hubVars /\ UNCHANGED <<stream, taken, subscribed, away>>
    BY <1>4 DEF updatesVars, hubVars
  <2>2. /\ stream \in [Topics -> Nat] /\ taken \in [Topics -> Nat]
        /\ subscribed \in BOOLEAN /\ away \in {"up", "down", "back"}
    BY DEF UpdatesInv, UpdatesTypeOK
  <2>3. stream[PriceTopic] <= stream'[PriceTopic] /\ \A u \in Topics : taken[u] <= taken'[u]
    BY <2>1, <2>2
  <2> QED  BY <2>1, <2>2, <2>3, StreamInv
<1> QED  BY <1>1, <1>2, <1>3, <1>4 DEF UpdatesNext

\* The invariant gives the three promises to the browsers.
LEMMA InvGivesOneStream == UpdatesInv => ClientsSeeOneStream
<1> SUFFICES ASSUME UpdatesInv PROVE ClientsSeeOneStream
  OBVIOUS
<1> USE DEF UpdatesInv
<1>1. NoGaps
  <2> SUFFICES ASSUME NEW c \in Clients, NEW t \in Topics,
                      seen(c, t) # {}, conn[c] = "open", \A r \in Goroutines : task[r].step = "idle"
               PROVE  Len(handled[t]) \in seen(c, t)
    BY DEF NoGaps, GotStretch, Stretch
  <2>1. ~pending(c, t)
    BY DEF pending
  <2> QED  BY <2>1 DEF GotStretch, Stretch
<1>2. PricesNeverGoBack
  <2> SUFFICES ASSUME NEW c \in Clients, NEW i \in DOMAIN got[c], NEW j \in DOMAIN got[c], i < j,
                      got[c][i].prices > 0, got[c][j].prices > 0
               PROVE  got[c][i].prices <= got[c][j].prices
    BY DEF PricesNeverGoBack
  <2>1. got[c][i] \in Message /\ got[c][j] \in Message
    BY DEF UpdatesTypeOK
  <2>2. got[c][i].topic \in Topics /\ got[c][j].topic \in Topics
    BY <2>1 DEF Message
  <2>3. PICK k \in seen(c, got[c][i].topic) : got[c][i] = handled[got[c][i].topic][k]
    BY <2>2 DEF GotStretch, Stretch
  <2>4. PICK l \in seen(c, got[c][j].topic) : got[c][j] = handled[got[c][j].topic][l]
    BY <2>2 DEF GotStretch, Stretch
  <2>5. k \in DOMAIN handled[got[c][i].topic] /\ l \in DOMAIN handled[got[c][j].topic]
    BY DEF seen
  <2>6. got[c][i].topic = PriceTopic /\ got[c][j].topic = PriceTopic
    <3>1. ~(0 > 0)
      OBVIOUS
    <3> QED  BY <2>2, <2>3, <2>4, <2>5, <3>1 DEF HandledInOrder
  <2>7. got[c][i].id < got[c][j].id
    BY <2>6 DEF GotStretch, Stretch
  <2>8. PICK h \in Seq(Message) : h = handled[PriceTopic]
    BY DEF UpdatesTypeOK
  <2>9. /\ k \in DOMAIN h /\ l \in DOMAIN h /\ k \in Nat /\ l \in Nat
        /\ got[c][i] = h[k] /\ got[c][j] = h[l]
    BY <2>3, <2>4, <2>5, <2>6, <2>8
  <2>10. PICK a \in Nat, b \in Nat : a = h[k].id /\ b = h[l].id
    BY <2>1, <2>9 DEF Message
  <2>11. a < b
    BY <2>7, <2>9, <2>10
  <2>12. k < l
    <3>1. l < k => b < a
      BY <2>8, <2>9, <2>10 DEF HandledInOrder
    <3>2. k = l => a = b
      BY <2>10
    <3> QED  BY <2>9, <2>10, <2>11, <3>1, <3>2
  <2> QED  BY <2>8, <2>9, <2>12 DEF HandledInOrder
<1> QED  BY <1>1, <1>2 DEF ClientsSeeOneStream

\* The invariant that the proof rests on: what each client has is a stretch of the updates
\* of each topic, and only the broadcast that holds the lock adds to it, one update at a time.
THEOREM UpdatesInvariant == UpdatesSpec => []UpdatesInv
  BY UpdatesInitInv, UpdatesNextInv, PTL DEF UpdatesSpec

\* Whatever the backend and however broadcasts, failed writes, joining and leaving clients
\* interleave, all clients see parts of one stream of updates in one order, each without a
\* gap or repetition and with prices that never go back.
THEOREM ClientsShareOneStream == UpdatesSpec => []ClientsSeeOneStream
  BY UpdatesInvariant, InvGivesOneStream, PTL

-----------------------------------------------------------------------------
(***************************************************************************)
(* The candles: what the projectors of all processes make of the trades.   *)
(***************************************************************************)

HIDE UpdatesAssumption
USE CandlesAssumption

-----------------------------------------------------------------------------
(* Sorted lists.                                                           *)

\* A list of the elements of a set in ascending order.
Ascends(q, S) ==
    /\ q \in [1..Cardinality(S) -> S]
    /\ \A x \in S : \E i \in 1..Cardinality(S) : q[i] = x
    /\ \A i, j \in 1..Cardinality(S) : i < j => q[i] < q[j]

\* A counterexample to a claim about finite sets of numbers has a smallest one.
LEMMA SmallestSet ==
    ASSUME NEW Bad \in SUBSET (SUBSET Nat), Bad # {}, \A S \in Bad : IsFiniteSet(S)
    PROVE  \E S \in Bad : \A T \in Bad : Cardinality(S) <= Cardinality(T)
<1> DEFINE Sizes == {Cardinality(S) : S \in Bad}
<1>1. Sizes \in SUBSET Nat /\ Sizes # {}
  BY FS_CardinalityType
<1> HIDE DEF Sizes
<1>2. PICK n \in Sizes : \A k \in Sizes : n <= k
  <2>1. PICK R : R = OpToRel(<, Nat)
    OBVIOUS
  <2>2. PICK n \in Sizes : \A k \in Sizes : <<k, n>> \notin R
    BY <1>1, <2>1, NatLessThanWellFounded, WFMin
  <2>3. \A x, y \in Nat : x < y => <<x, y>> \in R
    BY <2>1 DEF OpToRel
  <2>4. ASSUME NEW k \in Sizes PROVE n <= k
    <3>1. k \in Nat /\ n \in Nat /\ ~(k < n)
      BY <1>1, <2>2, <2>3
    <3> QED  BY <3>1
  <2> QED  BY <2>4
<1> QED  BY <1>2 DEF Sizes

\* A finite set of numbers has a largest element.
LEMMA LargestOf ==
    ASSUME NEW S \in SUBSET Nat, IsFiniteSet(S), S # {}
    PROVE  \E m \in S : \A k \in S : k <= m
<1> DEFINE Bad == {T \in SUBSET Nat : /\ IsFiniteSet(T) /\ T # {}
                                      /\ ~ \E m \in T : \A k \in T : k <= m}
<1>1. SUFFICES ASSUME Bad # {} PROVE FALSE
  OBVIOUS
<1>2. PICK T \in Bad : \A U \in Bad : Cardinality(T) <= Cardinality(U)
  BY <1>1, SmallestSet
<1>3. PICK x \in T : TRUE
  BY <1>2
<1>4. PICK U : U = T \ {x}
  OBVIOUS
<1>5. IsFiniteSet(U) /\ Cardinality(U) = Cardinality(T) - 1 /\ Cardinality(T) \in Nat
  BY <1>2, <1>3, <1>4, FS_RemoveElement, FS_CardinalityType
<1>6. U \notin Bad
  <2>1. ~(Cardinality(T) <= Cardinality(U))
    BY <1>5
  <2> QED  BY <1>2, <2>1
<1>7. CASE U = {}
  <2>1. \A k \in T : k = x
    BY <1>4, <1>7
  <2>2. x \in Nat
    BY <1>2, <1>3
  <2>3. x <= x
    BY <2>2
  <2> QED  BY <1>2, <1>3, <2>1, <2>3
<1>8. CASE U # {}
  <2>1. PICK m \in U : \A k \in U : k <= m
    BY <1>2, <1>4, <1>5, <1>6, <1>8
  <2>2. T \in SUBSET Nat /\ m \in T /\ x \in T
    BY <1>2, <1>3, <1>4, <2>1
  <2>3. CASE x <= m
    <3>1. \A k \in T : k <= m
      BY <1>4, <2>1, <2>3
    <3> QED  BY <1>2, <2>2, <3>1
  <2>4. CASE ~(x <= m)
    <3>1. \A k \in T : k <= x
      BY <1>4, <2>1, <2>2, <2>4
    <3> QED  BY <1>2, <2>2, <3>1
  <2> QED  BY <2>3, <2>4
<1> QED  BY <1>7, <1>8

\* A finite set of numbers can be sorted.
LEMMA SortedExists ==
    ASSUME NEW S \in SUBSET Nat, IsFiniteSet(S)
    PROVE  \E q : Ascends(q, S)
<1> DEFINE Bad == {T \in SUBSET Nat : IsFiniteSet(T) /\ ~ \E q : Ascends(q, T)}
<1>1. SUFFICES ASSUME Bad # {} PROVE FALSE
  OBVIOUS
<1>2. PICK T \in Bad : \A U \in Bad : Cardinality(T) <= Cardinality(U)
  BY <1>1, SmallestSet
<1>3. T # {}
  <2>1. SUFFICES ASSUME T = {} PROVE FALSE
    OBVIOUS
  <2>2. Cardinality(T) = 0
    BY <2>1, FS_EmptySet
  <2>3. 1..0 = {}
    OBVIOUS
  <2>4. Ascends([i \in 1..0 |-> i], T)
    BY <2>1, <2>2, <2>3 DEF Ascends
  <2> QED  BY <1>2, <2>4
<1>4. PICK m \in T : \A k \in T : k <= m
  BY <1>2, <1>3, LargestOf
<1>5. PICK U : U = T \ {m}
  OBVIOUS
<1>6. PICK n \in Nat : n = Cardinality(T)
  BY <1>2, FS_CardinalityType
<1>7. IsFiniteSet(U) /\ Cardinality(U) = n - 1 /\ n # 0
  BY <1>2, <1>3, <1>4, <1>5, <1>6, FS_RemoveElement, FS_EmptySet
<1>8. PICK q : Ascends(q, U)
  <2>1. ~(Cardinality(T) <= Cardinality(U))
    BY <1>6, <1>7
  <2>2. U \notin Bad /\ U \in SUBSET Nat
    BY <1>2, <1>5, <2>1
  <2> QED  BY <1>7, <2>2
<1> DEFINE r == [i \in 1..n |-> IF i = n THEN m ELSE q[i]]
<1>9. \A i \in 1..n : i # n => i \in 1..(n - 1)
  OBVIOUS
<1>10. /\ \A i \in 1..(n - 1) : q[i] \in U
       /\ \A x \in U : \E i \in 1..(n - 1) : q[i] = x
       /\ \A i, j \in 1..(n - 1) : i < j => q[i] < q[j]
  BY <1>7, <1>8 DEF Ascends
<1>11. r \in [1..n -> T]
  BY <1>4, <1>5, <1>9, <1>10
<1>12. ASSUME NEW x \in T PROVE \E i \in 1..n : r[i] = x
  <2>1. CASE x = m
    <3>1. n \in 1..n
      BY <1>7
    <3> QED  BY <2>1, <3>1
  <2>2. CASE x # m
    <3>1. PICK i \in 1..(n - 1) : q[i] = x
      BY <1>5, <1>10, <2>2
    <3>2. i \in 1..n /\ i # n
      OBVIOUS
    <3> QED  BY <3>1, <3>2
  <2> QED  BY <2>1, <2>2
<1>13. ASSUME NEW i \in 1..n, NEW j \in 1..n, i < j PROVE r[i] < r[j]
  <2>1. i # n /\ i \in 1..(n - 1)
    BY <1>13
  <2>2. q[i] \in T /\ q[i] # m /\ r[i] = q[i]
    BY <1>5, <1>10, <2>1
  <2>3. CASE j = n
    <3>1. r[j] = m
      BY <2>3
    <3>2. q[i] <= m /\ q[i] \in Nat /\ m \in Nat
      BY <1>2, <1>4, <2>2
    <3> QED  BY <2>2, <3>1, <3>2
  <2>4. CASE j # n
    <3>1. j \in 1..(n - 1)
      BY <2>4
    <3>2. r[j] = q[j] /\ q[i] < q[j]
      BY <1>10, <1>13, <2>1, <2>4, <3>1
    <3> QED  BY <2>2, <3>2
  <2> QED  BY <2>3, <2>4
<1> HIDE DEF r
<1>14. Ascends(r, T)
  BY <1>6, <1>11, <1>12, <1>13 DEF Ascends
<1> QED  BY <1>2, <1>14

\* The first elements of a set, in order, without a gap.
LEMMA FirstOf ==
    ASSUME NEW S \in SUBSET Nat, IsFiniteSet(S), S # {}, NEW k \in Nat \ {0}
    PROVE  \E n \in Nat \ {0} :
             /\ firstOf(S, k) \in [1..n -> S]
             /\ \A i, j \in 1..n : i < j => firstOf(S, k)[i] < firstOf(S, k)[j]
             /\ \A t \in S : \/ \E i \in 1..n : firstOf(S, k)[i] = t
                            \/ \A i \in 1..n : firstOf(S, k)[i] < t
<1>1. PICK m \in Nat : m = Cardinality(S)
  BY FS_CardinalityType
<1>2. m # 0
  BY <1>1, FS_EmptySet
<1>3. PICK n \in Nat \ {0} : n = smaller(k, m) /\ n <= m
  BY <1>2 DEF smaller
<1>4. PICK q : Ascends(q, S)
  BY SortedExists
<1>5. /\ q \in [1..m -> S]
      /\ \A x \in S : \E i \in 1..m : q[i] = x
      /\ \A i, j \in 1..m : i < j => q[i] < q[j]
  BY <1>1, <1>4 DEF Ascends
<1> DEFINE r == [i \in 1..n |-> q[i]]
<1>6. \A i \in 1..n : i \in 1..m
  BY <1>3
<1>7. r \in [1..n -> S]
  BY <1>5, <1>6
<1>8. \A i \in 1..n : r[i] = q[i]
  OBVIOUS
<1> HIDE DEF r
<1>9. \A i, j \in DOMAIN r : i < j => r[i] < r[j]
  BY <1>5, <1>6, <1>7, <1>8
<1>10. ASSUME NEW t \in S \ Range(r), NEW i \in DOMAIN r PROVE r[i] < t
  <2>1. PICK j \in 1..m : q[j] = t
    BY <1>5
  <2>2. j \notin 1..n
    <3>1. ASSUME j \in 1..n PROVE FALSE
      <4>1. r[j] = t /\ j \in DOMAIN r
        BY <1>7, <1>8, <2>1, <3>1
      <4> QED  BY <4>1 DEF Range
    <3> QED  BY <3>1
  <2>3. i \in 1..n /\ i < j
    BY <1>7, <2>2
  <2> QED  BY <1>5, <1>6, <1>8, <2>1, <2>3
<1> DEFINE Firsts(f) == /\ \A i, j \in DOMAIN f : i < j => f[i] < f[j]
                        /\ \A t \in S \ Range(f) : \A i \in DOMAIN f : f[i] < t
<1>11. firstOf(S, k) = CHOOSE f \in [1..n -> S] : Firsts(f)
  BY <1>1, <1>3 DEF firstOf
<1>12. Firsts(r)
  BY <1>9, <1>10
<1> HIDE DEF Firsts
<1>13. firstOf(S, k) \in [1..n -> S] /\ Firsts(firstOf(S, k))
  BY <1>7, <1>11, <1>12
<1> QED  BY <1>13 DEF Firsts, Range

-----------------------------------------------------------------------------
(* The invariant.                                                          *)

CandlesSpec == CandlesInit /\ [][CandlesNext]_candleVars

CandleRow == [open : Nat, high : Nat, low : Nat, close : Nat, last : Nat, count : Nat]
Position == [sequence : Nat, last : Trades \cup {0}]
BatchRead == [step : {"idle", "list", "project"}, from : Position, trades : Seq(Trades)]

CandlesTypeOK ==
    /\ committed \subseteq Trades
    /\ candle \in [Minutes -> CandleRow]
    /\ position \in Position
    /\ projector \in [Projectors -> BatchRead]
    /\ counted \in [Trades -> 0..2]
    /\ late \subseteq Trades
    /\ raced \in BOOLEAN
    /\ mishaps \in 0..CandleFaults

\* All trades up to a position that anybody has seen are counted, unless they came late.
CountedUpTo(last) ==
    /\ last \in committed \cup {0}
    /\ \A t \in committed \ late : t > last \/ counted[t] > 0

\* A batch is a stretch of the trades behind the position it was read from.
IsNextBatch(b) ==
    IF b.step = "project"
    THEN /\ b.trades # << >>
         /\ \A i, j \in DOMAIN b.trades : i < j => b.trades[i] < b.trades[j]
         /\ \A i \in DOMAIN b.trades : b.trades[i] \in committed /\ b.trades[i] > b.from.last
         /\ \A t \in committed \ late :
               \/ t <= b.from.last \/ t > b.trades[Len(b.trades)]
               \/ \E i \in DOMAIN b.trades : b.trades[i] = t
    ELSE b.trades = << >>

BatchesAreNext ==
    \A p \in Projectors : CountedUpTo(projector[p].from.last) /\ IsNextBatch(projector[p])

OnlyCommitted == \A t \in Trades : counted[t] > 0 => t \in committed

\* As long as no batch overtook another, trades are counted once, and in order.
CountedInOrder ==
    raced \/ \A t \in Trades : counted[t] > 0 => counted[t] = 1 /\ t <= position.last

\* The trades in the candle of a minute.
CountedIn(m) == {t \in Trades : counted[t] > 0 /\ TradeMinutes[t] = m}

\* What every candle says of its trades.
Shows(c, S) ==
    IF S = {} THEN c = NoCandle
    ELSE /\ c.count > 0
         /\ \E t \in S : c.high = TradePrices[t]
         /\ \E t \in S : c.low = TradePrices[t]
         /\ \A t \in S : TradePrices[t] <= c.high /\ TradePrices[t] >= c.low
         /\ c.last \in S /\ c.close = TradePrices[c.last]
         /\ \A t \in S : t <= c.last

\* And what it says if they came in order.
Opens(c, S) ==
    /\ c.count = Cardinality(S)
    /\ S # {} => \E t \in S : c.open = TradePrices[t] /\ \A u \in S : t <= u

CandlesShow ==
    \A m \in Minutes : /\ Shows(candle[m], CountedIn(m))
                       /\ raced \/ Opens(candle[m], CountedIn(m))

CandlesInv ==
    /\ CandlesTypeOK
    /\ CountedUpTo(position.last)
    /\ BatchesAreNext
    /\ OnlyCommitted
    /\ CountedInOrder
    /\ CandlesShow

-----------------------------------------------------------------------------
(* Candles.                                                                *)

\* Trades are numbered from 1.
LEMMA TradesAreNumbers ==
    /\ Trades = 1..Len(TradePrices) /\ Len(TradePrices) \in Nat
    /\ Trades \in SUBSET (Nat \ {0})
    /\ IsFiniteSet(Trades)
    /\ \A t \in Trades : TradePrices[t] \in Nat /\ TradeMinutes[t] \in Minutes
<1>1. PICK n \in Nat : n = Len(TradePrices) /\ Trades = 1..n
  BY DEF Trades
<1>2. IsFiniteSet(1..n)
  <2>1. 1 \in Int /\ n \in Int
    OBVIOUS
  <2> QED  BY <2>1, FS_Interval
<1>3. \A t \in Trades : TradePrices[t] \in Nat /\ TradeMinutes[t] \in Minutes
  BY DEF Trades, Minutes, Range
<1> QED  BY <1>1, <1>2, <1>3

\* The larger of two numbers, and the smaller.
LEMMA LargerSmaller ==
    ASSUME NEW a \in Nat, NEW b \in Nat
    PROVE  /\ larger(a, b) \in {a, b} /\ a <= larger(a, b) /\ b <= larger(a, b)
           /\ smaller(a, b) \in {a, b} /\ smaller(a, b) <= a /\ smaller(a, b) <= b
  BY DEF larger, smaller

\* One more trade in a candle.
LEMMA UpdateShows ==
    ASSUME NEW c \in CandleRow, NEW S \in SUBSET Trades, NEW t \in Trades, Shows(c, S)
    PROVE  /\ updateCandle(c, t) \in CandleRow
           /\ Shows(updateCandle(c, t), S \cup {t})
<1>1. t \in Nat /\ TradePrices[t] \in Nat /\ S \in SUBSET Nat
  BY TradesAreNumbers
<1>2. \A u \in S : u \in Nat /\ TradePrices[u] \in Nat
  BY TradesAreNumbers
<1> DEFINE d == updateCandle(c, t)
<1>3. CASE c.count = 0
  <2>1. S = {}
    BY <1>3 DEF Shows, CandleRow
  <2>2. d = [open |-> TradePrices[t], high |-> TradePrices[t], low |-> TradePrices[t],
             close |-> TradePrices[t], last |-> t, count |-> 1]
    BY <1>3 DEF updateCandle
  <2> HIDE DEF d
  <2>3. d \in CandleRow
    BY <1>1, <2>2 DEF CandleRow
  <2>4. /\ d.count > 0 /\ d.high = TradePrices[t] /\ d.low = TradePrices[t]
        /\ d.last = t /\ d.close = TradePrices[t]
    BY <2>2
  <2>5. S \cup {t} = {t} /\ t <= t /\ TradePrices[t] <= TradePrices[t] /\ TradePrices[t] >= TradePrices[t]
    BY <1>1, <2>1
  <2>6. Shows(d, S \cup {t})
    BY <2>4, <2>5 DEF Shows
  <2> QED  BY <2>3, <2>6 DEF d
<1>4. CASE c.count # 0
  <2>1. S # {}
    BY <1>4 DEF Shows, NoCandle
  <2>2. d = [open |-> c.open, high |-> larger(c.high, TradePrices[t]),
             low |-> smaller(c.low, TradePrices[t]),
             close |-> IF t >= c.last THEN TradePrices[t] ELSE c.close,
             last |-> larger(c.last, t), count |-> c.count + 1]
    BY <1>4 DEF updateCandle, CandleRow
  <2> HIDE DEF d
  <2>3. /\ c.high \in Nat /\ c.low \in Nat /\ c.last \in Nat /\ c.close \in Nat
        /\ c.count \in Nat /\ c.open \in Nat
    BY DEF CandleRow
  <2>4. d \in CandleRow
    BY <1>1, <2>2, <2>3 DEF CandleRow, larger, smaller
  <2>5. /\ d.high = larger(c.high, TradePrices[t]) /\ d.low = smaller(c.low, TradePrices[t])
        /\ d.close = (IF t >= c.last THEN TradePrices[t] ELSE c.close)
        /\ d.last = larger(c.last, t) /\ d.count = c.count + 1
    BY <2>2
  <2>6. /\ \E u \in S : c.high = TradePrices[u]
        /\ \E u \in S : c.low = TradePrices[u]
        /\ \A u \in S : TradePrices[u] <= c.high /\ TradePrices[u] >= c.low
        /\ c.last \in S /\ c.close = TradePrices[c.last]
        /\ \A u \in S : u <= c.last
    BY <2>1 DEF Shows
  <2>7. d.count > 0
    BY <2>3, <2>5
  <2>8. \E u \in S \cup {t} : d.high = TradePrices[u]
    BY <2>5, <2>6 DEF larger
  <2>9. \E u \in S \cup {t} : d.low = TradePrices[u]
    BY <2>5, <2>6 DEF smaller
  <2>14. /\ c.high <= d.high /\ TradePrices[t] <= d.high /\ d.high \in Nat
         /\ d.low <= c.low /\ d.low <= TradePrices[t] /\ d.low \in Nat
         /\ c.last <= d.last /\ t <= d.last /\ d.last \in Nat
    <3>1. PICK x \in Nat : x = TradePrices[t]
      BY <1>1
    <3>2. larger(c.high, x) \in {c.high, x} /\ c.high <= larger(c.high, x) /\ x <= larger(c.high, x)
      BY <2>3, LargerSmaller
    <3>3. smaller(c.low, x) \in {c.low, x} /\ smaller(c.low, x) <= c.low /\ smaller(c.low, x) <= x
      BY <2>3, LargerSmaller
    <3>4. larger(c.last, t) \in {c.last, t} /\ c.last <= larger(c.last, t) /\ t <= larger(c.last, t)
      BY <1>1, <2>3, LargerSmaller
    <3> QED  BY <1>1, <2>3, <2>5, <3>1, <3>2, <3>3, <3>4
  <2>10. \A u \in S \cup {t} : TradePrices[u] <= d.high /\ TradePrices[u] >= d.low
    <3> SUFFICES ASSUME NEW u \in S PROVE TradePrices[u] <= d.high /\ TradePrices[u] >= d.low
      BY <1>1, <2>14
    <3>1. PICK x \in Nat : x = TradePrices[u] /\ x <= c.high /\ c.low <= x
      BY <1>2, <2>3, <2>6
    <3>3. PICK h \in Nat, l \in Nat, dh \in Nat, dl \in Nat :
             h = c.high /\ l = c.low /\ dh = d.high /\ dl = d.low
      BY <2>3, <2>14
    <3>4. x <= h /\ h <= dh /\ dl <= l /\ l <= x
      BY <2>14, <3>1, <3>3
    <3>5. x <= dh /\ dl <= x
      BY <3>4
    <3>2. x <= d.high /\ d.low <= x
      BY <3>3, <3>5
    <3> QED  BY <2>14, <3>1, <3>2
  <2>11. d.last \in S \cup {t} /\ d.close = TradePrices[d.last]
    BY <1>1, <1>2, <2>3, <2>5, <2>6 DEF larger
  <2>12. \A u \in S \cup {t} : u <= d.last
    <3> SUFFICES ASSUME NEW u \in S PROVE u <= d.last
      BY <2>14
    <3>1. u <= c.last /\ u \in Nat
      BY <1>2, <2>6
    <3> QED  BY <2>3, <2>14, <3>1
  <2>13. Shows(d, S \cup {t})
    BY <2>7, <2>8, <2>9, <2>10, <2>11, <2>12 DEF Shows
  <2> QED  BY <2>4, <2>13 DEF d
<1> QED  BY <1>3, <1>4

\* A later one leaves the opening price alone and adds to the volume.
LEMMA UpdateOpens ==
    ASSUME NEW c \in CandleRow, NEW S \in SUBSET Trades, NEW t \in Trades, Shows(c, S),
           Opens(c, S), \A u \in S : u < t
    PROVE  Opens(updateCandle(c, t), S \cup {t})
<1>1. IsFiniteSet(S)
  BY TradesAreNumbers, FS_Subset
<1>2. t \in Nat /\ t \notin S /\ S \in SUBSET Nat
  BY TradesAreNumbers
<1>3. Cardinality(S \cup {t}) = Cardinality(S) + 1
  BY <1>1, <1>2, FS_AddElement
<1> DEFINE d == updateCandle(c, t)
<1>4. CASE S = {}
  <2>1. d = [open |-> TradePrices[t], high |-> TradePrices[t], low |-> TradePrices[t],
             close |-> TradePrices[t], last |-> t, count |-> 1]
    BY <1>4 DEF updateCandle, Shows, NoCandle
  <2> HIDE DEF d
  <2>2. d.count = Cardinality(S \cup {t})
    BY <1>3, <1>4, <2>1, FS_EmptySet
  <2>3. t \in S \cup {t} /\ d.open = TradePrices[t] /\ \A u \in S \cup {t} : t <= u
    BY <1>2, <1>4, <2>1
  <2>4. Opens(d, S \cup {t})
    BY <2>2, <2>3 DEF Opens
  <2> QED  BY <2>4 DEF d
<1>5. CASE S # {}
  <2>1. c.count # 0
    BY <1>5 DEF Shows, CandleRow
  <2>2. d.open = c.open /\ d.count = c.count + 1
    BY <2>1 DEF updateCandle, CandleRow
  <2> HIDE DEF d
  <2>3. d.count = Cardinality(S \cup {t})
    BY <1>3, <2>2 DEF Opens
  <2>4. PICK u \in S : c.open = TradePrices[u] /\ \A v \in S : u <= v
    BY <1>5 DEF Opens
  <2>5. \A v \in S \cup {t} : u <= v
    BY <1>2, <2>4
  <2>6. Opens(d, S \cup {t})
    BY <2>2, <2>3, <2>4, <2>5 DEF Opens
  <2> QED  BY <2>6 DEF d
<1> QED  BY <1>4, <1>5

-----------------------------------------------------------------------------
(* A batch.                                                                *)

\* The body of the loop over a batch; the loops claims nothing of a context.
addTrade(c, cs, t) == [cs EXCEPT ![TradeMinutes[t]] = updateCandle(@, t)]
anything(c, cs) == TRUE

B == INSTANCE FoldLemmas WITH step <- addTrade, Good <- anything

\* The trades of a minute.
Of(m, S) == {t \in S : TradeMinutes[t] = m}

\* The candles show the trades of a set.
AllShow(cs, S) == cs \in [Minutes -> CandleRow] /\ \A m \in Minutes : Shows(cs[m], Of(m, S))

AllOpen(cs, S) == \A m \in Minutes : Opens(cs[m], Of(m, S))

\* One turn of the loop.
LEMMA AddTradeShows ==
    ASSUME NEW cs, NEW S \in SUBSET Trades, AllShow(cs, S), NEW t \in Trades, NEW c
    PROVE  /\ AllShow(addTrade(c, cs, t), S \cup {t})
           /\ AllOpen(cs, S) /\ (\A u \in S : u < t) => AllOpen(addTrade(c, cs, t), S \cup {t})
<1>1. PICK n \in Minutes : n = TradeMinutes[t]
  BY TradesAreNumbers
<1>2. cs \in [Minutes -> CandleRow]
  BY DEF AllShow
<1>3. PICK d : d = updateCandle(cs[n], t)
  OBVIOUS
<1>4. addTrade(c, cs, t) = [cs EXCEPT ![n] = d]
  BY <1>1, <1>3 DEF addTrade
<1>5. cs[n] \in CandleRow /\ Of(n, S) \in SUBSET Trades /\ Shows(cs[n], Of(n, S))
  BY <1>2 DEF AllShow, Of
<1>6. d \in CandleRow /\ Shows(d, Of(n, S) \cup {t})
  BY <1>3, <1>5, UpdateShows
<1>7. Of(n, S \cup {t}) = Of(n, S) \cup {t}
  BY <1>1 DEF Of
<1>8. \A m \in Minutes : m # n => Of(m, S \cup {t}) = Of(m, S)
  BY <1>1 DEF Of
<1>9. /\ addTrade(c, cs, t) \in [Minutes -> CandleRow]
      /\ \A m \in Minutes : addTrade(c, cs, t)[m] = IF m = n THEN d ELSE cs[m]
  BY <1>2, <1>4, <1>6
<1>10. AllShow(addTrade(c, cs, t), S \cup {t})
  BY <1>6, <1>7, <1>8, <1>9 DEF AllShow
<1>11. ASSUME AllOpen(cs, S), \A u \in S : u < t
       PROVE  AllOpen(addTrade(c, cs, t), S \cup {t})
  <2>1. Opens(cs[n], Of(n, S)) /\ \A u \in Of(n, S) : u < t
    BY <1>11 DEF AllOpen, Of
  <2>2. Opens(d, Of(n, S) \cup {t})
    BY <1>3, <1>5, <2>1, UpdateOpens
  <2> QED  BY <1>7, <1>8, <1>9, <1>11, <2>2 DEF AllOpen
<1> QED  BY <1>10, <1>11

\* The whole batch: every candle shows its trades, and opens with the first if the batch
\* is in order and behind everything that was counted.
LEMMA BatchShows ==
    ASSUME NEW cs, NEW S \in SUBSET Trades, AllShow(cs, S),
           NEW n \in Nat, NEW q \in [1..n -> Trades]
    PROVE  /\ AllShow(UpdateCandles(q, cs), S \cup Range(q))
           /\ /\ AllOpen(cs, S)
              /\ \A i, j \in 1..n : i < j => q[i] < q[j]
              /\ \A u \in S : \A i \in 1..n : u < q[i]
              => AllOpen(UpdateCandles(q, cs), S \cup Range(q))
<1> DEFINE InOrder == /\ AllOpen(cs, S)
                      /\ \A i, j \in 1..n : i < j => q[i] < q[j]
                      /\ \A u \in S : \A i \in 1..n : u < q[i]
           Upto(i) == S \cup {q[j] : j \in 1..i}
<1>1. PICK acc : B!AreValues(acc, {}, cs, q, n)
  BY B!FoldLeftSteps
<1>2. UpdateCandles(q, cs) = acc[n]
  <2>1. UpdateCandles(q, cs) = B!FoldFrom({}, cs, q)
    BY DEF UpdateCandles, addTrade, B!FoldFrom, B!FoldLeft, B!MapThenFoldSet, FoldLeft, MapThenFoldSet,
           B!Max, Max
  <2> QED  BY <1>1, <2>1 DEF B!AreValues
<1>3. acc[0] = cs /\ \A i \in 1..n : acc[i] = addTrade({}, acc[i - 1], q[i])
  BY <1>1 DEF B!AreValues
<1> DEFINE K == {i \in 0..n : AllShow(acc[i], Upto(i)) /\ (InOrder => AllOpen(acc[i], Upto(i)))}
<1> HIDE DEF InOrder
<1>4. 0 \in K
  <2>1. Upto(0) = S
    OBVIOUS
  <2> HIDE DEF Upto
  <2>2. InOrder => AllOpen(cs, S)
    BY DEF InOrder
  <2> QED  BY <1>3, <2>1, <2>2
<1>5. ASSUME NEW i \in 1..n, i - 1 \in K PROVE i \in K
  <2>1. PICK k : k = i - 1
    OBVIOUS
  <2>2. PICK T : T = Upto(k)
    OBVIOUS
  <2>3. PICK t \in Trades : t = q[i]
    OBVIOUS
  <2>4. T \in SUBSET Trades
    <3>1. \A j \in 1..k : j \in 1..n
      BY <2>1
    <3> QED  BY <2>2, <3>1
  <2>5. Upto(i) = T \cup {t}
    <3>1. 1..i = (1..k) \cup {i}
      BY <2>1
    <3> QED  BY <2>2, <2>3, <3>1
  <2>6. AllShow(acc[k], T) /\ (InOrder => AllOpen(acc[k], T))
    BY <1>5, <2>1, <2>2
  <2>7. InOrder => \A u \in T : u < t
    <3> SUFFICES ASSUME InOrder, NEW u \in T PROVE u < t
      OBVIOUS
    <3>1. u \in S \/ \E j \in 1..k : u = q[j]
      BY <2>2
    <3>2. \A j \in 1..k : j \in 1..n /\ j < i
      BY <2>1
    <3> QED  BY <2>3, <3>1, <3>2 DEF InOrder
  <2>8. acc[i] = addTrade({}, acc[k], t)
    BY <1>3, <2>1, <2>3
  <2> HIDE DEF Upto
  <2>9. /\ AllShow(addTrade({}, acc[k], t), T \cup {t})
        /\ AllOpen(acc[k], T) /\ (\A u \in T : u < t) => AllOpen(addTrade({}, acc[k], t), T \cup {t})
    BY <2>4, <2>6, AddTradeShows
  <2>10. AllShow(acc[i], Upto(i)) /\ (InOrder => AllOpen(acc[i], Upto(i)))
    BY <2>5, <2>6, <2>7, <2>8, <2>9
  <2> QED  BY <2>10
<1> HIDE DEF K
<1>6. n \in K
  BY <1>4, <1>5, B!CountTo
<1>7. Upto(n) = S \cup Range(q)
  BY DEF Range
<1> HIDE DEF Upto
<1>8. AllShow(acc[n], Upto(n)) /\ (InOrder => AllOpen(acc[n], Upto(n)))
  BY <1>6 DEF K
<1> QED  BY <1>2, <1>7, <1>8 DEF InOrder

-----------------------------------------------------------------------------
(* The steps.                                                              *)

\* Nothing is counted at the start.
LEMMA CandlesInitInv == CandlesInit => CandlesInv
<1> SUFFICES ASSUME CandlesInit PROVE CandlesInv
  OBVIOUS
<1> USE DEF CandlesInit
<1>1. CandlesTypeOK
  <2>1. NoCandle \in CandleRow /\ NoPosition \in Position /\ NoBatchRead \in BatchRead
    BY DEF NoCandle, NoPosition, NoBatchRead, CandleRow, Position, BatchRead
  <2>2. /\ candle \in [Minutes -> CandleRow] /\ position \in Position
        /\ projector \in [Projectors -> BatchRead]
    BY <2>1
  <2>3. counted \in [Trades -> 0..2] /\ mishaps \in 0..CandleFaults
    OBVIOUS
  <2>4. committed \subseteq Trades /\ late \subseteq Trades /\ raced \in BOOLEAN
    OBVIOUS
  <2> QED  BY <2>2, <2>3, <2>4 DEF CandlesTypeOK
<1>2. CountedUpTo(position.last)
  BY DEF CountedUpTo, NoPosition
<1>3. BatchesAreNext
  BY DEF BatchesAreNext, CountedUpTo, IsNextBatch, NoBatchRead, NoPosition
<1>4. OnlyCommitted /\ CountedInOrder
  BY DEF OnlyCommitted, CountedInOrder
<1>5. \A m \in Minutes : CountedIn(m) = {}
  BY DEF CountedIn
<1>6. CandlesShow
  BY <1>5, FS_EmptySet DEF CandlesShow, Shows, Opens, NoCandle
<1> QED  BY <1>1, <1>2, <1>3, <1>4, <1>6 DEF CandlesInv

\* A trade that commits behind what somebody has seen is late.
LEMMA CommitInv ==
    ASSUME CandlesInv, NEW t \in Trades, CommitTrade(t)
    PROVE  CandlesInv'
<1> USE DEF CandlesInv
<1>1. /\ t \notin committed /\ committed' = committed \cup {t}
      /\ late \subseteq late' /\ late' \subseteq late \cup {t}
      /\ t < position.last => t \in late'
      /\ \A p \in Projectors : t < projector[p].from.last => t \in late'
      /\ \A p \in Projectors : \A i \in DOMAIN projector[p].trades :
            t < projector[p].trades[i] => t \in late'
      /\ UNCHANGED <<candle, position, projector, stats, counted, raced, mishaps>>
  BY DEF CommitTrade, Range
<1>2. t \in Nat \ {0} /\ Trades \in SUBSET (Nat \ {0})
  BY TradesAreNumbers
<1>3. CandlesTypeOK'
  BY <1>1 DEF CandlesTypeOK
<1>4. ASSUME NEW last, CountedUpTo(last), t < last => t \in late'
      PROVE  last \in committed' \cup {0} /\ \A u \in committed' \ late' : u > last \/ counted'[u] > 0
  <2>1. last \in committed' \cup {0}
    BY <1>1, <1>4 DEF CountedUpTo
  <2>2. last \in Nat /\ last # t
    BY <1>1, <1>2, <1>4 DEF CountedUpTo, CandlesTypeOK
  <2>3. t > last \/ t \in late'
    BY <1>2, <1>4, <2>2
  <2> QED  BY <1>1, <1>4, <2>1, <2>3 DEF CountedUpTo
<1>5. CountedUpTo(position.last)'
  <2>1. CountedUpTo(position.last) /\ (t < position.last => t \in late')
    BY <1>1
  <2> QED  BY <1>1, <1>4, <2>1 DEF CountedUpTo
<1>6. ASSUME NEW p \in Projectors PROVE CountedUpTo(projector[p].from.last)' /\ IsNextBatch(projector[p])'
  <2>1. CountedUpTo(projector[p].from.last) /\ (t < projector[p].from.last => t \in late')
    BY <1>1 DEF BatchesAreNext
  <2>2. CountedUpTo(projector[p].from.last)'
    BY <1>1, <1>4, <2>1 DEF CountedUpTo
  <2>3. CASE projector[p].step # "project"
    <3>1. projector[p].trades = << >>
      BY <2>3 DEF BatchesAreNext, IsNextBatch
    <3>2. projector'[p] = projector[p]
      BY <1>1
    <3>3. IsNextBatch(projector[p])'
      BY <2>3, <3>1, <3>2 DEF IsNextBatch
    <3> QED  BY <2>2, <3>3
  <2>4. CASE projector[p].step = "project"
    <3>1. PICK b : b = projector[p]
      OBVIOUS
    <3>2. /\ b.trades # << >>
          /\ \A i, j \in DOMAIN b.trades : i < j => b.trades[i] < b.trades[j]
          /\ \A i \in DOMAIN b.trades : b.trades[i] \in committed /\ b.trades[i] > b.from.last
          /\ \A u \in committed \ late :
               \/ u <= b.from.last \/ u > b.trades[Len(b.trades)]
               \/ \E i \in DOMAIN b.trades : b.trades[i] = u
      BY <2>4, <3>1 DEF BatchesAreNext, IsNextBatch
    <3>3. b.trades \in Seq(Trades)
      BY <3>1 DEF CandlesTypeOK, BatchRead
    <3>4. PICK n \in DOMAIN b.trades : n = Len(b.trades)
      BY <3>2, <3>3
    <3>5. b.trades[n] \in Nat /\ b.trades[n] # t
      BY <1>1, <1>2, <3>2, <3>3
    <3>6. t > b.trades[n] \/ t \in late'
      BY <1>1, <1>2, <3>1, <3>5
    <3>7. IsNextBatch(b)'
      BY <1>1, <2>4, <3>1, <3>2, <3>4, <3>6 DEF IsNextBatch
    <3> QED  BY <1>1, <2>2, <3>1, <3>7
  <2> QED  BY <2>2, <2>3, <2>4
<1>7. BatchesAreNext'
  BY <1>6 DEF BatchesAreNext
<1>8. OnlyCommitted' /\ CountedInOrder' /\ CandlesShow'
  BY <1>1 DEF OnlyCommitted, CountedInOrder, CandlesShow, CountedIn
<1> QED  BY <1>3, <1>5, <1>7, <1>8

\* What does not touch the candles, the position or the history keeps the rest of the
\* invariant as long as what a worker has read remains right.
LEMMA ReadingInv ==
    ASSUME CandlesInv, NEW p \in Projectors, NEW b \in BatchRead,
           CountedUpTo(b.from.last), IsNextBatch(b),
           projector' = [projector EXCEPT ![p] = b], mishaps' \in 0..CandleFaults,
           UNCHANGED <<committed, candle, position, stats, counted, late, raced>>
    PROVE  CandlesInv'
<1> USE DEF CandlesInv
<1>1. \A r \in Projectors : projector'[r] = IF r = p THEN b ELSE projector[r]
  BY DEF CandlesTypeOK
<1>2. CandlesTypeOK'
  BY DEF CandlesTypeOK
<1>3. CountedUpTo(position.last)' /\ OnlyCommitted' /\ CountedInOrder' /\ CandlesShow'
  BY DEF CountedUpTo, OnlyCommitted, CountedInOrder, CandlesShow, CountedIn
<1>4. ASSUME NEW r \in Projectors PROVE CountedUpTo(projector[r].from.last)' /\ IsNextBatch(projector[r])'
  <2>1. CountedUpTo(projector'[r].from.last) /\ IsNextBatch(projector'[r])
    BY <1>1 DEF BatchesAreNext
  <2> QED  BY <2>1 DEF CountedUpTo, IsNextBatch
<1> QED  BY <1>2, <1>3, <1>4 DEF BatchesAreNext

\* Nothing has been read by an idle worker.
LEMMA NothingRead ==
    ASSUME CandlesInv
    PROVE  NoBatchRead \in BatchRead /\ CountedUpTo(NoBatchRead.from.last) /\ IsNextBatch(NoBatchRead)
<1>1. NoBatchRead \in BatchRead
  BY DEF NoPosition, NoBatchRead, Position, BatchRead
<1>2. IsNextBatch(NoBatchRead) /\ NoBatchRead.from.last = 0
  BY DEF IsNextBatch, NoBatchRead, NoPosition
<1>3. \A t \in committed : t > 0
  BY TradesAreNumbers DEF CandlesInv, CandlesTypeOK
<1> QED  BY <1>1, <1>2, <1>3 DEF CountedUpTo

\* The position that is read has been reached.
LEMMA GetOffsetInv ==
    ASSUME CandlesInv, NEW p \in Projectors, GetProjectionOffset(p)
    PROVE  CandlesInv'
<1>1. PICK b : b = [step |-> "list", from |-> position, trades |-> << >>]
  OBVIOUS
<1>2. projector' = [projector EXCEPT ![p] = b]
  <2>1. [NoBatchRead EXCEPT !.step = "list", !.from = position] = b
    <3>1. PICK none : none = NoPosition
      OBVIOUS
    <3>2. NoBatchRead = [step |-> "idle", from |-> none, trades |-> << >>]
      BY <3>1 DEF NoBatchRead
    <3>3. PICK z : z = [NoBatchRead EXCEPT !.step = "list", !.from = position]
      OBVIOUS
    <3>4. z = [step |-> "list", from |-> position, trades |-> << >>]
      BY <3>2, <3>3
    <3> QED  BY <1>1, <3>3, <3>4
  <2> QED  BY <2>1 DEF GetProjectionOffset
<1>3. b \in BatchRead /\ CountedUpTo(b.from.last) /\ IsNextBatch(b)
  BY <1>1 DEF CandlesInv, CandlesTypeOK, BatchRead, IsNextBatch
<1>4. mishaps' \in 0..CandleFaults
  BY DEF CandlesInv, CandlesTypeOK, GetProjectionOffset
<1> QED  BY <1>2, <1>3, <1>4, ReadingInv DEF GetProjectionOffset

\* The batch is what has committed behind the position, in order and without a gap.
LEMMA ListTradesInv ==
    ASSUME CandlesInv, NEW p \in Projectors, ListTradesAfter(p)
    PROVE  CandlesInv'
<1>1. mishaps' \in 0..CandleFaults /\ UNCHANGED <<committed, candle, position, stats, counted, late, raced>>
  BY DEF CandlesInv, CandlesTypeOK, ListTradesAfter
<1>2. PICK S : S = tradesAfter(projector[p].from.last)
  OBVIOUS
<1>3. CASE S = {}
  <2>1. projector' = [projector EXCEPT ![p] = NoBatchRead]
    BY <1>2, <1>3 DEF ListTradesAfter
  <2> QED  BY <1>1, <2>1, NothingRead, ReadingInv
<1>4. CASE S # {}
  <2>1. PICK q : q = firstOf(S, CandleBatch)
    OBVIOUS
  <2>2. PICK from \in Position : from = projector[p].from
    BY DEF CandlesInv, CandlesTypeOK, BatchRead
  <2>3. PICK b : b = [step |-> "project", from |-> from, trades |-> q]
    OBVIOUS
  <2>4. projector' = [projector EXCEPT ![p] = b]
    <3>2. PICK r \in BatchRead : r = projector[p]
      BY DEF CandlesInv, CandlesTypeOK
    <3>7. r = [step |-> r.step, from |-> from, trades |-> r.trades]
      BY <2>2, <3>2 DEF BatchRead
    <3>8. PICK st, tr : st = r.step /\ tr = r.trades
      OBVIOUS
    <3>4. r = [step |-> st, from |-> from, trades |-> tr]
      BY <3>7, <3>8
    <3>5. PICK z : z = [r EXCEPT !.step = "project", !.trades = q]
      OBVIOUS
    <3>6. z = [step |-> "project", from |-> from, trades |-> q]
      BY <3>4, <3>5
    <3>3. [r EXCEPT !.step = "project", !.trades = q] = b
      BY <2>3, <3>5, <3>6
    <3>1. [projector[p] EXCEPT !.step = "project", !.trades = q] = b
      BY <3>2, <3>3
    <3> QED  BY <1>2, <1>4, <2>1, <3>1 DEF ListTradesAfter
  <2>5. S = {t \in committed : t > from.last} /\ S \subseteq Trades
    BY <1>2, <2>2 DEF tradesAfter, CandlesInv, CandlesTypeOK
  <2>6. S \in SUBSET Nat /\ IsFiniteSet(S)
    BY <2>5, TradesAreNumbers, FS_Subset
  <2>7. PICK n \in Nat \ {0} :
             /\ q \in [1..n -> S]
             /\ \A i, j \in 1..n : i < j => q[i] < q[j]
             /\ \A t \in S : (\E i \in 1..n : q[i] = t) \/ \A i \in 1..n : q[i] < t
    BY <1>4, <2>1, <2>6, FirstOf
  <2>8. q \in Seq(Trades) /\ DOMAIN q = 1..n /\ Len(q) = n /\ n \in 1..n /\ q # << >>
    BY <2>5, <2>7
  <2>9. b \in BatchRead
    BY <2>3, <2>8 DEF BatchRead
  <2>10. CountedUpTo(b.from.last)
    BY <2>2, <2>3 DEF CandlesInv, BatchesAreNext
  <2>11. \A i \in 1..n : q[i] \in committed /\ q[i] > from.last
    BY <2>5, <2>7
  <2>12. ASSUME NEW t \in committed \ late
         PROVE  t <= from.last \/ t > q[n] \/ \E i \in 1..n : q[i] = t
    <3>1. t \in Nat /\ from.last \in Nat
      BY TradesAreNumbers DEF Position, CandlesInv, CandlesTypeOK
    <3>2. CASE t \in S
      <4>1. CASE \E i \in 1..n : q[i] = t
        BY <4>1
      <4>2. CASE \A i \in 1..n : q[i] < t
        <5>1. q[n] < t /\ q[n] \in Nat
          BY <2>6, <2>7, <2>8, <4>2
        <5> QED  BY <3>1, <5>1
      <4> QED  BY <2>7, <3>2, <4>1, <4>2
    <3>3. CASE t \notin S
      <4>1. ~(t > from.last)
        BY <2>5, <3>3
      <4> QED  BY <3>1, <4>1
    <3> QED  BY <3>2, <3>3
  <2>13. IsNextBatch(b)
    <3>1. b.step = "project" /\ b.trades = q /\ b.from = from
      BY <2>3
    <3> QED  BY <2>7, <2>8, <2>11, <2>12, <3>1 DEF IsNextBatch
  <2> QED  BY <1>1, <2>4, <2>9, <2>10, <2>13, ReadingInv
<1> QED  BY <1>3, <1>4

\* A batch enters the candles and moves the position in one transaction; behind a
\* position that has moved it only adds to the candles what they may have already.
LEMMA ProjectInv ==
    ASSUME CandlesInv, NEW p \in Projectors, ProjectTrades(p)
    PROVE  CandlesInv'
<1> USE DEF CandlesInv
<1>1. PICK b \in BatchRead : b = projector[p]
  BY DEF CandlesTypeOK
<1>2. b.step = "project"
  BY <1>1 DEF ProjectTrades
<1>3. PICK q \in Seq(Trades) : q = b.trades
  BY DEF BatchRead
<1>4. PICK n \in Nat : n = Len(q) /\ DOMAIN q = 1..n /\ q \in [1..n -> Trades]
  BY <1>3
<1>5. /\ q # << >>
      /\ \A i, j \in 1..n : i < j => q[i] < q[j]
      /\ \A i \in 1..n : q[i] \in committed /\ q[i] > b.from.last
      /\ \A t \in committed \ late :
            t <= b.from.last \/ t > q[n] \/ \E i \in 1..n : q[i] = t
  BY <1>1, <1>2, <1>3, <1>4 DEF BatchesAreNext, IsNextBatch
<1>6. n \in 1..n /\ n # 0
  BY <1>3, <1>4, <1>5
<1>7. b.from \in Position /\ b.from.sequence \in Nat /\ b.from.last \in Nat /\ position \in Position
      /\ position.sequence \in Nat /\ position.last \in Nat
  BY TradesAreNumbers DEF CandlesTypeOK, BatchRead, Position
<1>8. PICK to \in Position : to = reached(projector[p]) /\ to.sequence = b.from.sequence + n /\ to.last = q[n]
  <2>1. reached(projector[p]) = [sequence |-> b.from.sequence + n, last |-> q[n]]
    BY <1>1, <1>3, <1>4 DEF reached
  <2>2. b.from.sequence + n \in Nat /\ q[n] \in Trades
    BY <1>4, <1>6, <1>7
  <2> QED  BY <2>1, <2>2 DEF Position
<1>9. /\ UNCHANGED <<committed, late, mishaps>>
      /\ raced' = (raced \/ b.from # position)
      /\ projector' = [projector EXCEPT ![p] = NoBatchRead]
  BY <1>1 DEF ProjectTrades
<1>10. (\A t \in Trades : counted[t] > 0 => counted'[t] > 0)
          => BatchesAreNext' /\ projector' \in [Projectors -> BatchRead]
  <2> SUFFICES ASSUME \A t \in Trades : counted[t] > 0 => counted'[t] > 0
               PROVE  BatchesAreNext' /\ projector' \in [Projectors -> BatchRead]
    OBVIOUS
  <2>1. NoBatchRead \in BatchRead /\ CountedUpTo(NoBatchRead.from.last) /\ IsNextBatch(NoBatchRead)
    BY NothingRead
  <2>2. \A r \in Projectors : projector'[r] = IF r = p THEN NoBatchRead ELSE projector[r]
    BY <1>9 DEF CandlesTypeOK
  <2>3. ASSUME NEW r \in Projectors PROVE CountedUpTo(projector[r].from.last)' /\ IsNextBatch(projector[r])'
    <3>1. CountedUpTo(projector'[r].from.last) /\ IsNextBatch(projector'[r])
      BY <2>1, <2>2 DEF BatchesAreNext
    <3>2. committed \in SUBSET Trades
      BY DEF CandlesTypeOK
    <3>3. CountedUpTo(projector[r].from.last)'
      BY <1>9, <3>1, <3>2 DEF CountedUpTo
    <3>4. IsNextBatch(projector[r])'
      BY <1>9, <3>1 DEF IsNextBatch
    <3> QED  BY <3>3, <3>4
  <2> QED  BY <1>9, <2>1, <2>3 DEF BatchesAreNext, CandlesTypeOK
<1>11. raced \in BOOLEAN /\ raced' \in BOOLEAN /\ (raced => raced')
  BY <1>9 DEF CandlesTypeOK
<1>12. CASE conflicts(reached(projector[p]))
  <2>1. UNCHANGED <<candle, counted, stats, position>>
    BY <1>12 DEF ProjectTrades, projectUnlessConflict
  <2>2. BatchesAreNext' /\ projector' \in [Projectors -> BatchRead]
    BY <1>10, <2>1
  <2>3. CandlesTypeOK'
    BY <1>9, <1>11, <2>1, <2>2 DEF CandlesTypeOK
  <2>4. CountedUpTo(position.last)' /\ OnlyCommitted'
    BY <1>9, <2>1 DEF CountedUpTo, OnlyCommitted
  <2>5. CountedInOrder'
    BY <1>11, <2>1 DEF CountedInOrder
  <2>6. CandlesShow'
    BY <1>11, <2>1 DEF CandlesShow, CountedIn
  <2> QED  BY <2>2, <2>3, <2>4, <2>5, <2>6
<1>13. CASE ~conflicts(reached(projector[p]))
  <2>1. /\ candle' = UpdateCandles(q, candle)
        /\ counted' = [t \in Trades |-> IF t \in Range(q) THEN addOnce(counted[t]) ELSE counted[t]]
        /\ position' = advance(to)
    BY <1>1, <1>3, <1>8, <1>13 DEF ProjectTrades, projectUnlessConflict
  <2>2. \A t \in Trades : counted[t] \in 0..2
    BY DEF CandlesTypeOK
  <2>3. \A t \in Range(q) : t \in Trades /\ t \in committed /\ \E i \in 1..n : t = q[i]
    BY <1>4, <1>5 DEF Range
  <2>4. \A i \in 1..n : q[i] \in Range(q)
    BY <1>4 DEF Range
  <2>5. /\ counted' \in [Trades -> 0..2]
        /\ \A t \in Trades : counted'[t] > 0 <=> counted[t] > 0 \/ t \in Range(q)
    BY <2>1, <2>2 DEF addOnce
  <2>6. BatchesAreNext' /\ projector' \in [Projectors -> BatchRead]
    BY <1>10, <2>5
  <2> DEFINE C == {t \in Trades : counted[t] > 0}
             D == {t \in Trades : counted'[t] > 0}
  <2>7. D = C \cup Range(q)
    BY <2>3, <2>5
  <2>8. \A m \in Minutes : CountedIn(m) = Of(m, C) /\ CountedIn(m)' = Of(m, D)
    BY DEF CountedIn, Of
  <2>9. AllShow(candle, C) /\ (~raced => AllOpen(candle, C))
    BY <2>8 DEF AllShow, AllOpen, CandlesShow, CandlesTypeOK
  <2>10. C \in SUBSET Trades
    OBVIOUS
  <2> HIDE DEF C, D
  <2>11. /\ AllShow(candle', D)
         /\ /\ AllOpen(candle, C)
            /\ \A i, j \in 1..n : i < j => q[i] < q[j]
            /\ \A u \in C : \A i \in 1..n : u < q[i]
            => AllOpen(candle', D)
    BY <1>4, <2>1, <2>7, <2>9, <2>10, BatchShows
  <2>12. position' \in Position /\ position' \in {position, to}
    BY <1>7, <1>8, <2>1 DEF advance
  <2>13. CandlesTypeOK'
    BY <1>9, <1>11, <2>5, <2>6, <2>11, <2>12 DEF CandlesTypeOK, AllShow
  <2>14. CountedUpTo(to.last)'
    <3>1. to.last \in committed'
      BY <1>5, <1>6, <1>8, <1>9
    <3>2. ASSUME NEW t \in committed' \ late' PROVE t > to.last \/ counted'[t] > 0
      <4>1. t \in Trades /\ t \in committed \ late /\ t \in Nat
        BY <1>9, TradesAreNumbers DEF CandlesTypeOK
      <4>2. CASE t <= b.from.last
        <5>1. ~(t > b.from.last)
          BY <1>7, <4>1, <4>2
        <5>2. counted[t] > 0
          BY <1>1, <4>1, <5>1 DEF BatchesAreNext, CountedUpTo
        <5> QED  BY <2>5, <4>1, <5>2
      <4>3. CASE \E i \in 1..n : q[i] = t
        BY <2>4, <2>5, <4>1, <4>3
      <4> QED  BY <1>5, <1>8, <4>1, <4>2, <4>3
    <3> QED  BY <3>1, <3>2 DEF CountedUpTo
  <2>15. CountedUpTo(position.last)'
    <3>1. CASE position' = position
      <4>1. committed \in SUBSET Trades
        BY DEF CandlesTypeOK
      <4> QED  BY <1>9, <2>5, <3>1, <4>1 DEF CountedUpTo
    <3>2. CASE position' = to
      BY <2>14, <3>2 DEF CountedUpTo
    <3> QED  BY <2>12, <3>1, <3>2
  <2>16. OnlyCommitted'
    BY <1>9, <2>3, <2>5 DEF OnlyCommitted
  <2>17. CASE raced'
    <3>1. CountedInOrder'
      BY <2>17 DEF CountedInOrder
    <3>2. CandlesShow'
      BY <2>8, <2>11, <2>17 DEF CandlesShow, AllShow
    <3> QED  BY <2>6, <2>13, <2>15, <2>16, <3>1, <3>2
  <2>18. CASE ~raced'
    <3>1. ~raced /\ b.from = position
      BY <1>9, <2>18
    <3>2. \A t \in Trades : counted[t] > 0 => counted[t] = 1 /\ t <= position.last
      BY <3>1 DEF CountedInOrder
    <3>3. position' = to
      <4>1. to.sequence > position.sequence
        BY <1>6, <1>7, <1>8, <3>1
      <4> QED  BY <2>1, <4>1 DEF advance
    <3>4. \A i \in 1..n : q[i] \in Nat /\ q[i] > position.last /\ q[i] <= q[n]
      <4> SUFFICES ASSUME NEW i \in 1..n PROVE q[i] \in Nat /\ q[i] > position.last /\ q[i] <= q[n]
        OBVIOUS
      <4>1. q[i] \in Nat /\ q[n] \in Nat
        BY <1>4, <1>6, TradesAreNumbers
      <4>2. CASE i = n
        BY <1>5, <3>1, <4>1, <4>2
      <4>3. CASE i # n
        <5>1. i < n
          BY <4>3
        <5>2. q[i] < q[n]
          BY <1>5, <1>6, <5>1
        <5> QED  BY <1>5, <3>1, <4>1, <5>2
      <4> QED  BY <4>2, <4>3
    <3>5. \A u \in C : \A i \in 1..n : u < q[i]
      <4> SUFFICES ASSUME NEW u \in C, NEW i \in 1..n PROVE u < q[i]
        OBVIOUS
      <4>1. u \in Nat /\ u <= position.last
        BY <2>10, <3>2, TradesAreNumbers DEF C
      <4>2. PICK last \in Nat, v \in Nat : last = position.last /\ v = q[i]
        BY <1>7, <3>4
      <4>3. u <= last /\ last < v
        BY <3>4, <4>1, <4>2
      <4> QED  BY <4>1, <4>2, <4>3
    <3>6. AllOpen(candle', D)
      BY <1>5, <2>9, <2>11, <3>1, <3>5
    <3>7. CandlesShow'
      BY <2>8, <2>11, <3>6 DEF CandlesShow, AllShow, AllOpen
    <3>8. ASSUME NEW t \in Trades, counted'[t] > 0 PROVE counted'[t] = 1 /\ t <= position'.last
      <4>1. t \in Nat /\ position'.last \in Nat /\ position'.last = q[n]
        BY <1>8, <2>12, <3>3, TradesAreNumbers DEF Position
      <4>2. CASE t \in Range(q)
        <5>1. PICK i \in 1..n : t = q[i]
          BY <2>3, <4>2
        <5>2. ~(t <= position.last) /\ t <= q[n]
          BY <1>7, <3>4, <4>1, <5>1
        <5>3. ~(counted[t] > 0)
          BY <3>2, <5>2
        <5>4. counted[t] = 0
          BY <2>2, <5>3
        <5>5. counted'[t] = 1
          BY <2>1, <4>2, <5>4 DEF addOnce
        <5> QED  BY <4>1, <5>2, <5>5
      <4>3. CASE t \notin Range(q)
        <5>1. counted'[t] = counted[t]
          BY <2>1, <4>3
        <5>2. counted[t] = 1 /\ t <= position.last
          BY <3>2, <3>8, <5>1
        <5>3. position.last < q[n]
          BY <1>6, <3>4
        <5> QED  BY <1>7, <4>1, <5>1, <5>2, <5>3
      <4> QED  BY <4>2, <4>3
    <3>9. CountedInOrder'
      BY <3>8 DEF CountedInOrder
    <3> QED  BY <2>6, <2>13, <2>15, <2>16, <3>7, <3>9
  <2> QED  BY <2>17, <2>18
<1> QED  BY <1>12, <1>13

\* A failure loses what was read and nothing else.
LEMMA ProjectorFailsInv ==
    ASSUME CandlesInv, NEW p \in Projectors, ProjectorFails(p)
    PROVE  CandlesInv'
<1>1. mishaps' \in 0..CandleFaults
  BY DEF CandlesInv, CandlesTypeOK, ProjectorFails
<1>2. /\ projector' = [projector EXCEPT ![p] = NoBatchRead]
      /\ UNCHANGED <<committed, candle, position, stats, counted, late, raced>>
  BY DEF ProjectorFails
<1> QED  BY <1>1, <1>2, NothingRead, ReadingInv

\* Behind no position everything is still to be counted.
LEMMA ResetInv ==
    ASSUME CandlesInv, ResetPosition
    PROVE  CandlesInv'
<1> USE DEF CandlesInv
<1>1. /\ position' = NoPosition /\ raced' = TRUE
      /\ UNCHANGED <<committed, candle, projector, stats, counted, late>>
      /\ mishaps' \in 0..CandleFaults
  BY DEF ResetPosition, CandlesTypeOK
<1>2. NoPosition \in Position /\ NoPosition.last = 0
  BY DEF NoPosition, Position
<1>3. CandlesTypeOK'
  BY <1>1, <1>2 DEF CandlesTypeOK
<1>4. \A t \in committed' : t > 0
  BY <1>3, TradesAreNumbers DEF CandlesTypeOK
<1>5. CountedUpTo(position.last)'
  BY <1>1, <1>2, <1>4 DEF CountedUpTo
<1>6. BatchesAreNext'
  BY <1>1 DEF BatchesAreNext, CountedUpTo, IsNextBatch
<1>7. OnlyCommitted' /\ CountedInOrder' /\ CandlesShow'
  BY <1>1 DEF OnlyCommitted, CountedInOrder, CandlesShow, CountedIn
<1> QED  BY <1>3, <1>5, <1>6, <1>7

\* Every step keeps it.
LEMMA CandlesNextInv ==
    ASSUME CandlesInv, [CandlesNext]_candleVars
    PROVE  CandlesInv'
<1>1. CASE UNCHANGED candleVars
  BY <1>1 DEF candleVars, CandlesInv, CandlesTypeOK, CountedUpTo, BatchesAreNext, IsNextBatch,
       OnlyCommitted, CountedInOrder, CandlesShow, CountedIn
<1>2. CASE \E t \in Trades : CommitTrade(t)
  BY <1>2, CommitInv
<1>3. CASE \E p \in Projectors : ProjectorStep(p) \/ ProjectorFails(p)
  BY <1>3, GetOffsetInv, ListTradesInv, ProjectInv, ProjectorFailsInv DEF ProjectorStep
<1>4. CASE ResetPosition
  BY <1>4, ResetInv
<1> QED  BY <1>1, <1>2, <1>3, <1>4 DEF CandlesNext

\* The inductive invariant of the market data workers: every position anybody has seen has
\* all trades in time behind it in the candles, every batch is the next stretch of trades,
\* and every candle shows the trades that were added to it.
THEOREM CandlesInvariant == CandlesSpec => []CandlesInv
<1> QED  BY CandlesInitInv, CandlesNextInv, PTL DEF CandlesSpec

-----------------------------------------------------------------------------
(* The property.                                                           *)

\* A number of a set that no other exceeds is its maximum; likewise for the minimum.
LEMMA MaxMinAre ==
    ASSUME NEW S \in SUBSET Nat, NEW x \in S
    PROVE  /\ (\A y \in S : y <= x) => Max(S) = x
           /\ (\A y \in S : y >= x) => Min(S) = x
<1>1. ASSUME \A y \in S : y <= x PROVE Max(S) = x
  <2>1. \A y \in S : x >= y
    BY <1>1
  <2>2. Max(S) \in S /\ \A y \in S : Max(S) >= y
    BY <2>1 DEF Max
  <2>3. Max(S) >= x /\ x >= Max(S) /\ x \in Nat /\ Max(S) \in Nat
    BY <2>1, <2>2
  <2> QED  BY <2>3
<1>2. ASSUME \A y \in S : y >= x PROVE Min(S) = x
  <2>1. \A y \in S : x <= y
    BY <1>2
  <2>2. Min(S) \in S /\ \A y \in S : Min(S) <= y
    BY <2>1 DEF Min
  <2>3. Min(S) <= x /\ x <= Min(S) /\ x \in Nat /\ Min(S) \in Nat
    BY <2>1, <2>2
  <2> QED  BY <2>3
<1> QED  BY <1>1, <1>2

\* The invariant says what the property says.
LEMMA CandlesInvIsRight == CandlesInv => CandlesAreRight
<1> SUFFICES ASSUME CandlesInv PROVE CandlesAreRight
  OBVIOUS
<1> USE DEF CandlesInv
<1>1. CountedOnce
  <2> SUFFICES ASSUME NEW t \in committed
               PROVE  /\ t \in late \/ t > position.last \/ counted[t] >= 1
                      /\ raced \/ counted[t] <= 1
    BY DEF CountedOnce
  <2>1. t \in Trades /\ counted[t] \in 0..2
    BY DEF CandlesTypeOK
  <2>2. t \in late \/ t > position.last \/ counted[t] >= 1
    BY <2>1 DEF CountedUpTo
  <2>3. raced \/ counted[t] <= 1
    BY <2>1 DEF CountedInOrder
  <2> QED  BY <2>2, <2>3
<1>2. ASSUME NEW m \in Minutes
      PROVE  LET in == {t \in Trades : counted[t] > 0 /\ TradeMinutes[t] = m}
             IN  IF in = {} THEN candle[m] = NoCandle
                 ELSE /\ candle[m].high = Max({TradePrices[t] : t \in in})
                      /\ candle[m].low = Min({TradePrices[t] : t \in in})
                      /\ candle[m].close = TradePrices[Max(in)]
                      /\ raced \/ /\ candle[m].open = TradePrices[Min(in)]
                                  /\ candle[m].count = Cardinality(in)
  <2>1. PICK S : S = CountedIn(m)
    OBVIOUS
  <2>2. S \in SUBSET Trades /\ S \in SUBSET Nat
    BY <2>1, TradesAreNumbers DEF CountedIn
  <2>3. PICK c \in CandleRow : c = candle[m]
    BY DEF CandlesTypeOK
  <2>4. Shows(c, S) /\ (raced \/ Opens(c, S))
    BY <2>1, <2>3 DEF CandlesShow
  <2>5. CASE S = {}
    BY <2>1, <2>3, <2>4, <2>5 DEF Shows, CountedIn
  <2>6. CASE S # {}
    <3>1. PICK P : P = {TradePrices[t] : t \in S}
      OBVIOUS
    <3>2. P \in SUBSET Nat /\ c.high \in P /\ c.low \in P /\ \A x \in P : x <= c.high /\ x >= c.low
      BY <2>2, <2>4, <2>6, <3>1, TradesAreNumbers DEF Shows
    <3>3. c.high = Max(P) /\ c.low = Min(P)
      BY <3>2, MaxMinAre
    <3>4. Max(S) = c.last
      BY <2>2, <2>4, <2>6, MaxMinAre DEF Shows
    <3>5. c.close = TradePrices[Max(S)]
      BY <2>4, <2>6, <3>4 DEF Shows
    <3>6. raced \/ (c.open = TradePrices[Min(S)] /\ c.count = Cardinality(S))
      <4> SUFFICES ASSUME Opens(c, S) PROVE c.open = TradePrices[Min(S)] /\ c.count = Cardinality(S)
        BY <2>4
      <4>1. PICK t \in S : c.open = TradePrices[t] /\ \A u \in S : t <= u
        BY <2>6 DEF Opens
      <4>2. \A u \in S : u >= t
        BY <2>2, <4>1
      <4>3. Min(S) = t
        BY <2>2, <4>2, MaxMinAre
      <4> QED  BY <4>1, <4>3 DEF Opens
    <3>7. S = {t \in Trades : counted[t] > 0 /\ TradeMinutes[t] = m}
      BY <2>1 DEF CountedIn
    <3> QED  BY <2>3, <2>6, <3>1, <3>3, <3>5, <3>6, <3>7
  <2> QED  BY <2>5, <2>6
<1>3. CandlesMatchTrades
  BY <1>2 DEF CandlesMatchTrades
<1> QED  BY <1>1, <1>3 DEF CandlesAreRight

\* However many workers, batches, failures, resets and late trades there are: a trade that
\* the position has passed is in its candle unless it committed late, it is there once unless
\* a batch was added when the position had moved, and each candle is what its trades say.
THEOREM CandlesFollowTrades == CandlesSpec => []CandlesAreRight
<1> QED  BY CandlesInvariant, CandlesInvIsRight, PTL
=============================================================================
