------------------------------- MODULE Outbox -------------------------------
(***************************************************************************)
(* The outbox table and the workers that publish its events on the event   *)
(* backend (postgres notify, redis, nats or kafka).                        *)
(*                                                                         *)
(* A worker claims a batch under a lock that expires, publishes one event  *)
(* after the other and marks each published or failed.  Nothing checks     *)
(* that the row still belongs to the worker that marks it.  The backend    *)
(* may have taken a message although the call returns an error.            *)
(***************************************************************************)
EXTENDS Naturals, FiniteSets, EventStream

CONSTANTS
    NumEvents,      \* events 1 .. NumEvents, in the order of created_at (bound)
    Publishers,     \* worker processes
    OutboxBatch,    \* OUTBOX_BATCH_SIZE
    OutboxAttempts, \* OUTBOX_MAX_ATTEMPTS
    OutboxFaults    \* crashes and lost database connections of the workers (bound)

ASSUME OutboxAssumption ==
    /\ NumEvents \in Nat
    /\ OutboxBatch \in Nat \ {0}
    /\ OutboxAttempts \in Nat \ {0}
    /\ OutboxFaults \in Nat

Events == 1..NumEvents

VARIABLES
    event,     \* exchange_outbox_events
    publisher, \* what each worker is doing
    copies,    \* how often the backend has taken an event: 0, 1 or 2 (often)
    disturbed, \* history: events that met an expired lock, a crash or an unclear error
    crashes    \* faults so far

outboxVars == <<backend, event, publisher, copies, disturbed, crashes>>

-----------------------------------------------------------------------------
(* Rows.  stale: locked_at <= now - OUTBOX_LOCK_TTL; due: available_at <=  *)
(* now.  Attempts beyond OUTBOX_MAX_ATTEMPTS are not told apart.           *)

EventRow == [status : {"none", "pending", "processing", "published", "failed"},
             attempts : 0..OutboxAttempts, stale : BOOLEAN, due : BOOLEAN]

NoEvent == [status |-> "none", attempts |-> 0, stale |-> FALSE, due |-> FALSE]

createdEvent == [status |-> "pending", attempts |-> 0, stale |-> FALSE, due |-> TRUE]

\* Mutant: an event in processing waits for the worker that claimed it.
claimableByOwner(row) == row.status = "pending" /\ row.due

\* Mutant: the age of the lock is not looked at.
claimableAnyLock(row) ==
    row.status = "processing" \/ (row.status = "pending" /\ row.due)

claimableEvent(row) ==
    \/ row.status = "pending" /\ row.due
    \/ row.status = "processing" /\ row.stale

claimedEvent(row) ==
    [row EXCEPT !.status = "processing", !.stale = FALSE,
                !.attempts = IF @ < OutboxAttempts THEN @ + 1 ELSE @]

publishedRow(row) == [row EXCEPT !.status = "published", !.stale = FALSE]

failedEvent(row) ==
    [row EXCEPT !.status = IF row.attempts >= OutboxAttempts THEN "failed" ELSE "pending",
                !.stale = FALSE,
                !.due = row.attempts >= OutboxAttempts]

-----------------------------------------------------------------------------
(* The workers.                                                            *)

Publisher == [todo : SUBSET Events, step : {"idle", "publish", "published", "failed"}]

NoBatch == [todo |-> {}, step |-> "idle"]

OutboxInit ==
    /\ NewFromEnv
    /\ event = [e \in Events |-> NoEvent]
    /\ publisher = [w \in Publishers |-> NoBatch]
    /\ copies = [e \in Events |-> 0]
    /\ disturbed = {}
    /\ crashes = 0

\* Create, called by the matcher, the order service and the pool scanner.
CreateEvent(e) ==
    /\ event[e].status = "none"
    /\ \A d \in 1..(e - 1) : event[d].status # "none"
    /\ event' = [event EXCEPT ![e] = createdEvent]
    /\ UNCHANGED <<backend, publisher, copies, disturbed, crashes>>

\* The oldest claimable events, at most OutboxBatch of them.
claimedBatch(S) == {e \in S : Cardinality({d \in S : d < e}) < OutboxBatch}

claimableEvents == {e \in Events : claimableEvent(event[e])}

\* Claim locks with SKIP LOCKED and runs as one transaction.
Claim(w) ==
    /\ publisher[w].step = "idle"
    /\ claimableEvents # {}
    /\ event' = [e \in Events |-> IF e \in claimedBatch(claimableEvents)
                                  THEN claimedEvent(event[e]) ELSE event[e]]
    /\ publisher' = [publisher EXCEPT ![w] =
                        [todo |-> claimedBatch(claimableEvents), step |-> "publish"]]
    /\ UNCHANGED <<backend, copies, disturbed, crashes>>

\* The event the worker is at: the batch is in the order of creation.
isNext(w, e) == e \in publisher[w].todo /\ \A d \in publisher[w].todo : e <= d

PublishEvent(w, e) ==
    /\ publisher[w].step = "publish"
    /\ isNext(w, e)
    /\ \E a \in Publish :
         /\ copies' = IF a.taken /\ copies[e] < 2
                      THEN [copies EXCEPT ![e] = @ + 1] ELSE copies
         /\ disturbed' = IF a.taken /\ ~a.ok THEN disturbed \cup {e} ELSE disturbed
         /\ publisher' = [publisher EXCEPT ![w].step = IF a.ok THEN "published" ELSE "failed"]
    /\ UNCHANGED <<backend, event, crashes>>

nextOfBatch(w, e) ==
    publisher' = [publisher EXCEPT ![w] =
        [todo |-> @.todo \ {e}, step |-> IF @.todo = {e} THEN "idle" ELSE "publish"]]

MarkPublished(w, e) ==
    /\ publisher[w].step = "published"
    /\ isNext(w, e)
    /\ event' = [event EXCEPT ![e] = publishedRow(@)]
    /\ nextOfBatch(w, e)
    /\ UNCHANGED <<backend, copies, disturbed, crashes>>

MarkFailed(w, e) ==
    /\ publisher[w].step = "failed"
    /\ isNext(w, e)
    /\ event' = [event EXCEPT ![e] = failedEvent(@)]
    /\ nextOfBatch(w, e)
    /\ UNCHANGED <<backend, copies, disturbed, crashes>>

\* A crash and restart, or a row that cannot be marked: runOnce returns, the rest
\* of the batch stays locked.
AbandonBatch(w) ==
    /\ publisher[w].step # "idle"
    /\ crashes < OutboxFaults
    /\ crashes' = crashes + 1
    /\ disturbed' = disturbed \cup publisher[w].todo
    /\ publisher' = [publisher EXCEPT ![w] = NoBatch]
    /\ UNCHANGED <<backend, event, copies>>

EventLockExpires(e) ==
    /\ event[e].status = "processing"
    /\ ~event[e].stale
    /\ event' = [event EXCEPT ![e].stale = TRUE]
    /\ disturbed' = disturbed \cup {e}
    /\ UNCHANGED <<backend, publisher, copies, crashes>>

EventRetryDue(e) ==
    /\ event[e].status = "pending"
    /\ ~event[e].due
    /\ event' = [event EXCEPT ![e].due = TRUE]
    /\ UNCHANGED <<backend, publisher, copies, disturbed, crashes>>

PublishNext(w, e) ==
    PublishEvent(w, e) \/ MarkPublished(w, e) \/ MarkFailed(w, e)

OutboxNext ==
    \/ \E w \in Publishers : Claim(w) \/ AbandonBatch(w)
    \/ \E w \in Publishers, e \in Events : PublishNext(w, e)
    \/ \E e \in Events : CreateEvent(e) \/ EventLockExpires(e) \/ EventRetryDue(e)

\* Run polls forever, each call returns, and time passes.
OutboxFairness ==
    /\ \A w \in Publishers : WF_outboxVars(Claim(w))
    /\ \A w \in Publishers : WF_outboxVars(\E e \in Events : PublishNext(w, e))
    /\ \A e \in Events : WF_outboxVars(EventLockExpires(e)) /\ WF_outboxVars(EventRetryDue(e))

-----------------------------------------------------------------------------
(* Properties.                                                             *)

\* Claim, publish and mark are three transactions, and yet an event goes out once
\* unless its lock expired in a worker's hands, its worker died or the backend's answer
\* was lost.
OnceUnlessDisturbed == \A e \in Events \ disturbed : copies[e] <= 1

\* In the end every event is published or given up, and stays so, although workers
\* die with a batch in hand and late workers mark rows they no longer own.
EventsEnd == <>[](\A e \in Events : event[e].status \in {"none", "published", "failed"})

\* The outbox is a queue that publishes at least once: an event counts as published
\* only after the backend took it and is given up only after all its attempts.
eventState(row) ==
    IF row.status = "none" THEN "absent"
    ELSE IF row.status = "published" THEN "finished"
    ELSE IF row.status = "failed" THEN "abandoned" ELSE "open"

OutboxQueue == INSTANCE WorkQueue WITH
    Items <- Events, MaxTries <- OutboxAttempts,
    state <- [e \in Events |-> eventState(event[e])],
    tries <- [e \in Events |-> event[e].attempts],
    done <- {e \in Events : copies[e] > 0}

ImplementsQueue == OutboxQueue!QueueSpec
=============================================================================
