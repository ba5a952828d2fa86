----------------------------- MODULE BookReplay -----------------------------
(***************************************************************************)
(* The book of one market under any commands: an order is applied to the   *)
(* book, or the book is restored from the copy taken before when that      *)
(* fails; a snapshot and the results of the orders applied after it are    *)
(* what the book is rebuilt from.                                          *)
(***************************************************************************)
EXTENDS MarketBook

VARIABLES
    book,    \* MarketBook
    applied, \* ids of the orders that were applied
    snap,    \* the last snapshot: its active orders
    tape,    \* the results logged since the snapshot
    gone     \* history: orders canceled since the snapshot

replayVars == <<book, applied, snap, tape, gone>>

-----------------------------------------------------------------------------
(* The matcher's use of the book.                                          *)

ReplayInit ==
    /\ book = NewMarketBook
    /\ applied = {}
    /\ snap = <<>>
    /\ tape = <<>>
    /\ gone = {}

ApplySucceeds(t, r) ==
    /\ ~r.err
    /\ book' = r.book
    /\ tape' = Append(tape, [taker |-> r.taker, makers |-> r.makers, trades |-> r.trades])
    /\ applied' = applied \cup {t.id}
    /\ UNCHANGED <<snap, gone>>

\* Mutant: the book is not restored after an error.
ApplyFailsUnrestored(t, r) ==
    /\ book' = r.book
    /\ UNCHANGED <<applied, snap, tape, gone>>

\* A trade below the smallest amount, or the result cannot be persisted: the copy
\* taken before is restored.
ApplyFails(t, r) ==
    /\ book' = RestoreMarketBook(CaptureState(book))
    /\ UNCHANGED <<applied, snap, tape, gone>>

\* Commands are applied in any order: one that failed comes again later.
ProcessCommand(t) ==
    /\ t.id \notin applied
    /\ ApplySucceeds(t, Apply(book, t)) \/ ApplyFails(t, Apply(book, t))

\* Mutant: the order is taken out of its queue and stays in the index.
CancelUnindexed(id) ==
    /\ id \in DOMAIN book.orders
    /\ book' = [removeOrder(book, id) EXCEPT !.orders = book.orders]
    /\ gone' = gone \cup {id}
    /\ UNCHANGED <<applied, snap, tape>>

Cancel(id) ==
    /\ id \in DOMAIN book.orders
    /\ book' = removeOrder(book, id)
    /\ gone' = gone \cup {id}
    /\ UNCHANGED <<applied, snap, tape>>

TakeSnapshot ==
    /\ snap' = CaptureState(book)
    /\ tape' = <<>>
    /\ gone' = {}
    /\ UNCHANGED <<book, applied>>

ReplayNext ==
    \/ \E t \in Takers : ProcessCommand(t)
    \/ \E id \in OrderIds : Cancel(id)
    \/ TakeSnapshot

ReplaySpec == ReplayInit /\ [][ReplayNext]_replayVars

-----------------------------------------------------------------------------
(* Properties.                                                             *)

queued(s) ==
    {x \in (DOMAIN s.levels) \X OrderIds : x[2] <= Len(s.levels[x[1]])}

inSide(s) == {s.levels[x[1]][x[2]] : x \in queued(s)}

sameSet(seq, S) == Len(seq) = Cardinality(S) /\ {seq[i] : i \in 1..Len(seq)} = S

\* The book's three structures agree after any orders, fills, cancels and failed
\* matches: the prices of a side are exactly those with a queue, best first; queues
\* are in sequence order and hold bookable orders of their price; and the
\* index knows every queued order and no other.
StructuresAgree ==
    /\ book.ok
    /\ \A sd \in Sides :
          /\ sameSet(book.side[sd].prices, DOMAIN book.side[sd].levels)
          /\ \A i, j \in 1..Len(book.side[sd].prices) : i < j =>
                IF sd = "buy" THEN book.side[sd].prices[i] > book.side[sd].prices[j]
                              ELSE book.side[sd].prices[i] < book.side[sd].prices[j]
          /\ \A x \in queued(book.side[sd]) :
                LET o == book.side[sd].levels[x[1]][x[2]]
                IN  /\ o.price = x[1] /\ o.side = sd /\ isBookable(o)
                    /\ x[2] > 1 => book.side[sd].levels[x[1]][x[2] - 1].id < o.id
    /\ DOMAIN book.orders = {o.id : o \in inSide(book.side["buy"]) \cup inSide(book.side["sell"])}
    /\ \A sd \in Sides : \A o \in inSide(book.side[sd]) :
          book.orders[o.id] = [side |-> sd, price |-> o.price]

\* No bid in the book reaches an ask, although orders are applied out of sequence.
BookNeverCrossed ==
    \A b \in inSide(book.side["buy"]), s \in inSide(book.side["sell"]) : b.price < s.price

\* The resident book is well formed and uncrossed after every command, failed ones
\* included.
BookConsistent == StructuresAgree /\ BookNeverCrossed

\* Orders in price-time priority, as the engine gets them.
inPriority(S) ==
    CHOOSE l \in SetToSeqs(S) : \A i, j \in 1..Cardinality(S) : i < j => ahead(l[i], l[j])

engineResult(t) == MatchLimit(t, inPriority(inSide(book.side[oppositeSide(t.side)])))

\* The taker as the order service leaves it after MatchLimit.
engineTaker(o) ==
    IF o.remaining > 0 /\ isImmediateOnlyBookOrder(o) THEN [o EXCEPT !.status = "expired"] ELSE o

sameMatch(r, e) ==
    /\ r.err = e.err
    /\ ~r.err => /\ r.trades = e.trades
                 /\ r.makers = e.makers
                 /\ r.taker = engineTaker(e.taker)

\* The book, which works on its queues and removes what it fills, does to every
\* order what the engine does with a sorted list of the whole other side: the
\* same trades, makers and rest, and an error for the same orders.
AgreesWithEngine ==
    \A t \in Takers : t.id \notin applied => sameMatch(Apply(book, t), engineResult(t))

\* The latest snapshot with the results logged since, replayed, is the live book,
\* down to the order in the queues, but for the orders canceled since: they are
\* not in the log.  A match that failed half way leaves no trace.
ReplayRebuilds ==
    FoldLeft(removeOrder, FoldLeft(ApplyResult, RestoreMarketBook(snap), tape),
             SetToSeq(gone)) = book
=============================================================================
