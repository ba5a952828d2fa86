----------------------------- MODULE MCMatcher ------------------------------
(***************************************************************************)
(* What the matchers work from, for TLC: the job table that several        *)
(* workers share, and the book a matcher keeps in memory.  Each is checked *)
(* by itself, with the other at rest.                                      *)
(***************************************************************************)
EXTENDS MatchJobs, BookReplay

VARIABLE part

Incoming(id, user, side, type, tif, price, qty) ==
    [id |-> id, user |-> user, side |-> side, type |-> type, tif |-> tif,
     status |-> "open", price |-> price, stop |-> 0, filled |-> 0, remaining |-> qty]

\* Two bids at one price and one below, two asks that reach all of them, and an
\* immediate ask.  The last ask can meet its own user's bid, at once or after a
\* trade.  With SCALE 4 a trade of one unit at price 1 is below the smallest
\* amount, which the first ask finds out after a trade.
Commands ==
    {Incoming(1, 1, "buy", "limit", "gtc", 2, 2),
     Incoming(2, 1, "buy", "limit", "gtc", 1, 2),
     Incoming(3, 2, "sell", "limit", "gtc", 1, 3),
     Incoming(4, 3, "buy", "limit", "gtc", 2, 3),
     Incoming(5, 2, "sell", "limit", "ioc", 2, 4),
     Incoming(6, 1, "sell", "limit", "gtc", 1, 4)}

MCInit == part \in {"jobs", "book"} /\ Init /\ ReplayInit

MCNext ==
    /\ UNCHANGED part
    /\ \/ part = "jobs" /\ Next /\ UNCHANGED replayVars
       \/ part = "book" /\ ReplayNext /\ UNCHANGED vars

\* The fairness of MatchJobs, whose workers run while the book is at rest.
MCFairness ==
    /\ \A w \in Workers : WF_vars(part = "jobs" /\ ClaimMatchJobs(w))
    /\ \A w \in Workers : WF_vars(part = "jobs" /\ \E j \in Jobs : Work(w, j))
    /\ \A j \in Jobs : WF_vars(part = "jobs" /\ LockExpires(j)) /\ WF_vars(part = "jobs" /\ RetryDue(j))

MCSpec == MCInit /\ [][MCNext]_<<part, vars, replayVars>> /\ MCFairness
=============================================================================
