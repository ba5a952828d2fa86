----------------------------- MODULE MCResident -----------------------------
(***************************************************************************)
(* Matching beside the cancels of the users, for TLC: by the resident      *)
(* matcher of a market, and by workers that each match in transactions of  *)
(* their own.  Each is checked by itself, with the other at rest.          *)
(***************************************************************************)
EXTENDS Resident, MatchLocks

VARIABLE part

Incoming(id, user, side, price, stop, qty) ==
    [id |-> id, user |-> user, side |-> side, type |-> IF stop = 0 THEN "limit" ELSE "stop_limit",
     tif |-> "gtc", status |-> IF stop = 0 THEN "open" ELSE "pending_stop",
     price |-> price, stop |-> stop, filled |-> 0, remaining |-> qty]

\* A bid, asks that trade with it, a stop that the first trade triggers, and an ask
\* of the bidder's own, which expires when the bid is met.
Commands ==
    {Incoming(1, 1, "buy", 2, 0, 4),
     Incoming(2, 2, "sell", 2, 0, 1),
     Incoming(3, 3, "sell", 2, 2, 1),
     Incoming(4, 2, "sell", 1, 0, 3),
     Incoming(5, 1, "sell", 1, 0, 1)}

\* Two asks, a bid that takes the first and then meets its own user's, an immediate bid
\* for the same ask, and another ask for the bid.
AskOrders == {Incoming(1, 1, "sell", 1, 0, 1), Incoming(2, 2, "sell", 2, 0, 1)}

pending(o) == [o EXCEPT !.status = "pending_match"]

NewOrders ==
    {pending(Incoming(3, 2, "buy", 2, 0, 3)),
     pending([Incoming(4, 3, "buy", 1, 0, 2) EXCEPT !.tif = "ioc"]),
     pending(Incoming(5, 1, "sell", 2, 0, 1))}

\* A bid and an ask at one price.
CrossingOrders ==
    {pending(Incoming(3, 3, "buy", 2, 0, 3)), pending(Incoming(5, 1, "sell", 2, 0, 1))}

MCInit ==
    /\ part \in {"resident", "workers"}
    /\ Init /\ LocksInit
    /\ part = "workers" => runtime = "book"

MCNext ==
    /\ UNCHANGED part
    /\ \/ part = "resident" /\ Next /\ UNCHANGED locksVars
       \/ part = "workers" /\ LocksNext /\ UNCHANGED vars

\* The loop of the resident matcher and time go on; see Resident and MatchLocks.
MCFairness ==
    /\ part = "resident" => []<><<Cycle>>_vars
    /\ \A id \in Ids : /\ WF_vars(part = "resident" /\ LockExpires(id))
                       /\ WF_vars(part = "resident" /\ RetryDue(id))
    /\ part = "workers" => \A s \in Sessions : SessionGoesOn(s)
    /\ WF_locksVars(part = "workers" /\ SomeDeadlockDetected)

MCSpec == MCInit /\ [][MCNext]_<<part, vars, locksVars>> /\ MCFairness

\* The workers alone.
WorkersSpec == part = "workers" /\ MCInit /\ [][MCNext]_<<part, vars, locksVars>>
=============================================================================
