----------------------------- MODULE WorkQueue -----------------------------
(***************************************************************************)
(* What the tables of match jobs and of outbox events promise, without     *)
(* workers, locks and clocks: an item is handed out any number of times,   *)
(* it is finished only after its work was done at least once, and it is    *)
(* given up only after it was handed out MaxTries times, for good unless   *)
(* a late success finishes it.  A late failure may reopen a finished item  *)
(* that has tries left, so the work is done at least once, not once.       *)
(***************************************************************************)
EXTENDS Naturals

CONSTANTS Items, MaxTries

VARIABLES
    state,  \* absent, open, finished or abandoned, for each item
    tries,  \* how often an item was handed out, counted up to MaxTries
    done    \* the items whose work was done at least once

queueVars == <<state, tries, done>>

QueueInit ==
    /\ state = [i \in Items |-> "absent"]
    /\ tries = [i \in Items |-> 0]
    /\ done = {}

Enqueue(i) ==
    /\ state[i] = "absent"
    /\ state' = [state EXCEPT ![i] = "open"]
    /\ UNCHANGED <<tries, done>>

oneMore(n) == IF n < MaxTries THEN n + 1 ELSE MaxTries

HandOut(batch) ==
    /\ \A i \in batch : state[i] = "open"
    /\ tries' = [i \in Items |-> IF i \in batch THEN oneMore(tries[i]) ELSE tries[i]]
    /\ UNCHANGED <<state, done>>

Process(i) ==
    /\ state[i] # "absent"
    /\ done' = done \cup {i}
    /\ UNCHANGED <<state, tries>>

Finish(i) ==
    /\ state[i] # "absent"
    /\ i \in done
    /\ state' = [state EXCEPT ![i] = "finished"]
    /\ UNCHANGED <<tries, done>>

\* A failure of the last try, late or not.
Abandon(i) ==
    /\ state[i] # "absent"
    /\ tries[i] >= MaxTries
    /\ state' = [state EXCEPT ![i] = "abandoned"]
    /\ UNCHANGED <<tries, done>>

\* A late failure of an item that another worker has finished.
Reopen(i) ==
    /\ state[i] = "finished"
    /\ tries[i] < MaxTries
    /\ state' = [state EXCEPT ![i] = "open"]
    /\ UNCHANGED <<tries, done>>

QueueNext ==
    \/ \E batch \in SUBSET Items : HandOut(batch)
    \/ \E i \in Items :
          Enqueue(i) \/ Process(i) \/ Finish(i) \/ Abandon(i) \/ Reopen(i)

QueueSpec == QueueInit /\ [][QueueNext]_queueVars
=============================================================================
