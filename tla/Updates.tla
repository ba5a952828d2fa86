------------------------------ MODULE Updates ------------------------------
(***************************************************************************)
(* How an update reaches the browsers: the subscription of the API process *)
(* calls the handler of apiruntime.Run for each message, and the handler   *)
(* broadcasts it through the websocket hub.  Broadcasts of the goroutines  *)
(* of the subscription, joining and leaving clients and the answers to     *)
(* their pings interleave.                                                 *)
(***************************************************************************)
EXTENDS Naturals, Sequences, FiniteSetsExt, EventStream

CONSTANTS
    Clients,    \* websocket connections, each used once
    MaxMessages \* messages published (bound)

PriceTopic == "price_updates"

ASSUME UpdatesAssumption ==
    /\ PriceTopic \in Topics
    /\ MaxMessages \in Nat

VARIABLES
    stream,     \* how many messages the backend has taken, for each topic
    taken,      \* how many of them the subscription has read or missed
    subscribed, \* Subscribe has not returned
    away,       \* the connection: up, down (to be made again), back (lost once: bound)
    conn,       \* each connection: none, open, broken (a write failed), closed
    listed,     \* Hub.clients
    task,       \* the broadcast each goroutine is at
    writeMu,    \* the goroutine that holds Hub.writeMu, or {}
    got,        \* what each client has received
    handled     \* history: the messages the handler was called for, for each topic

updatesVars == <<backend, stream, taken, subscribed, away, conn, listed, task, writeMu, got, handled>>

streamVars == <<stream, taken, subscribed, away, handled>>
hubVars == <<conn, listed, task, writeMu, got>>

NoMessage == [topic |-> PriceTopic, id |-> 0, prices |-> 0]

NoTask == [step |-> "idle", msg |-> NoMessage, left |-> {}]

UpdatesInit ==
    /\ NewFromEnv
    /\ stream = [t \in Topics |-> 0]
    /\ taken = [t \in Topics |-> 0]
    /\ subscribed = TRUE
    /\ away = "up"
    /\ conn = [c \in Clients |-> "none"]
    /\ listed = {}
    /\ task = [g \in Goroutines |-> NoTask]
    /\ writeMu = {}
    /\ got = [c \in Clients |-> << >>]
    /\ handled = [t \in Topics |-> << >>]

-----------------------------------------------------------------------------
(* The backend and the subscription.                                       *)

\* A worker publishes an event.  A price event follows the pools it is about, so
\* the number of price messages is also the version of the saved pools.
Announce(t) ==
    /\ MapThenSumSet(LAMBDA u : stream[u], Topics) < MaxMessages
    /\ stream' = [stream EXCEPT ![t] = @ + 1]
    /\ taken' = IF away = "down" /\ losesWhileAway THEN [taken EXCEPT ![t] = @ + 1] ELSE taken
    /\ UNCHANGED <<backend, subscribed, away, handled>> /\ UNCHANGED hubVars

ConnectionLost ==
    /\ subscribed
    /\ away = "up"
    /\ away' = IF errorEndsSubscribe THEN "up" ELSE "down"
    /\ subscribed' = ~errorEndsSubscribe
    /\ UNCHANGED <<backend, stream, taken, handled>> /\ UNCHANGED hubVars

Reconnect ==
    /\ away = "down"
    /\ away' = "back"
    /\ UNCHANGED <<backend, stream, taken, subscribed, handled>> /\ UNCHANGED hubVars

\* A price event names its symbol; its prices are read now, unless that fails or
\* the event brought its prices.
priceUpdateSocketPayload(m) == {m, [m EXCEPT !.prices = stream[PriceTopic]]}

socketPayload(t, m) == IF t = PriceTopic THEN priceUpdateSocketPayload(m) ELSE {m}

\* The handler: Hub.Publish copies the list of clients, then waits for the lock.
Handle(g, t) ==
    /\ subscribed /\ away # "down"
    /\ t \in g
    /\ taken[t] < stream[t]
    /\ task[g].step = "idle"
    /\ taken' = [taken EXCEPT ![t] = @ + 1]
    /\ \E m \in socketPayload(t, [topic |-> t, id |-> taken[t] + 1, prices |-> 0]) :
         /\ task' = [task EXCEPT ![g] = [step |-> "waiting", msg |-> m, left |-> listed]]
         /\ handled' = [handled EXCEPT ![t] = Append(@, m)]
    /\ UNCHANGED <<backend, stream, subscribed, away, conn, listed, writeMu, got>>

-----------------------------------------------------------------------------
(* The hub.                                                                *)

BeginBroadcast(g) ==
    /\ task[g].step = "waiting"
    /\ writeMu = {}
    /\ writeMu' = g
    /\ task' = [task EXCEPT ![g].step = "writing"]
    /\ UNCHANGED <<backend, conn, listed, got>> /\ UNCHANGED streamVars

\* One write.  It fails on a connection that is closed or broken, and whenever the
\* client does not read for two seconds; then the client leaves the list.
writeTo(c, m) ==
    \/ /\ conn[c] = "open"
       /\ got' = [got EXCEPT ![c] = Append(@, m)]
       /\ UNCHANGED <<conn, listed>>
    \/ /\ conn' = [conn EXCEPT ![c] = IF @ = "open" THEN "broken" ELSE @]
       /\ listed' = listed \ {c}
       /\ UNCHANGED got

\* Mutant: the lock is taken for each write, not for the whole broadcast.
WriteClientLockingEach(g, c) ==
    /\ task[g].step = "writing"
    /\ c \in task[g].left
    /\ writeTo(c, task[g].msg)
    /\ task' = [task EXCEPT ![g].left = @ \ {c}, ![g].step = "waiting"]
    /\ writeMu' = {}
    /\ UNCHANGED <<backend>> /\ UNCHANGED streamVars

WriteClient(g, c) ==
    /\ task[g].step = "writing"
    /\ c \in task[g].left
    /\ writeTo(c, task[g].msg)
    /\ task' = [task EXCEPT ![g].left = @ \ {c}]
    /\ UNCHANGED <<backend, writeMu>> /\ UNCHANGED streamVars

\* Mutant: the lock is not given back.
EndBroadcastLocked(g) ==
    /\ task[g].step = "writing"
    /\ task[g].left = {}
    /\ task' = [task EXCEPT ![g] = NoTask]
    /\ UNCHANGED <<backend, conn, listed, got, writeMu>> /\ UNCHANGED streamVars

EndBroadcast(g) ==
    /\ task[g].step = "writing"
    /\ task[g].left = {}
    /\ task' = [task EXCEPT ![g] = NoTask]
    /\ writeMu' = {}
    /\ UNCHANGED <<backend, conn, listed, got>> /\ UNCHANGED streamVars

Join(c) ==
    /\ conn[c] = "none"
    /\ conn' = [conn EXCEPT ![c] = "open"]
    /\ listed' = listed \cup {c}
    /\ UNCHANGED <<backend, task, writeMu, got>> /\ UNCHANGED streamVars

\* The handler of the connection answers a ping through writeMessage, under the lock.
\* On a broken connection that fails: the handler ends and closes the connection.
Ping(c) ==
    /\ writeMu = {}
    /\ conn[c] = "broken"
    /\ conn' = [conn EXCEPT ![c] = "closed"]
    /\ listed' = listed \ {c}
    /\ UNCHANGED <<backend, task, writeMu, got>> /\ UNCHANGED streamVars

\* The client goes: the handler closes the connection and then takes it off the list.
Leave(c) ==
    /\ conn[c] \in {"open", "broken"}
    /\ conn' = [conn EXCEPT ![c] = "closed"]
    /\ UNCHANGED <<backend, listed, task, writeMu, got>> /\ UNCHANGED streamVars

remove(c) ==
    /\ conn[c] = "closed"
    /\ c \in listed
    /\ listed' = listed \ {c}
    /\ UNCHANGED <<backend, conn, task, writeMu, got>> /\ UNCHANGED streamVars

Broadcast(g) ==
    BeginBroadcast(g) \/ (\E c \in Clients : WriteClient(g, c)) \/ EndBroadcast(g)

UpdatesNext ==
    \/ \E t \in Topics : Announce(t)
    \/ ConnectionLost \/ Reconnect
    \/ \E g \in Goroutines : Broadcast(g) \/ \E t \in Topics : Handle(g, t)
    \/ \E c \in Clients : Join(c) \/ Ping(c) \/ Leave(c) \/ remove(c)

\* A goroutine of the subscription runs and every write ends, by its deadline at
\* the latest; a browser pings again and again, as the frontend does.
UpdatesFairness ==
    /\ \A t \in Topics : WF_updatesVars(\E g \in Goroutines : Handle(g, t))
    /\ WF_updatesVars(Reconnect)
    /\ \A t \in Topics : WF_updatesVars(\E g \in Goroutines : t \in g /\ Broadcast(g))
    /\ \A c \in Clients : WF_updatesVars(Ping(c)) /\ WF_updatesVars(remove(c))

-----------------------------------------------------------------------------
(* Properties.                                                             *)

positions(s, m) == {i \in DOMAIN s : s[i].topic = m.topic /\ s[i].id = m.id}

\* Hub.Publish holds writeMu for a whole broadcast: two clients never see two
\* updates in different orders, although the topics have goroutines of their own.
SameOrderForAll ==
    \A c, d \in Clients : \A i, j \in DOMAIN got[c] : i < j =>
        \A k \in positions(got[d], got[c][i]), l \in positions(got[d], got[c][j]) : k < l

\* The places, in the history of a topic, of the updates that a client has got.
seen(c, t) == {k \in DOMAIN handled[t] : \E i \in DOMAIN got[c] : got[c][i] = handled[t][k]}

\* A client gets the updates of a topic from some point on without a gap, repetition or
\* change of order, up to the end if it is still listed and nothing is under way.
NoGaps ==
    \A c \in Clients, t \in Topics :
        /\ \A i, j \in DOMAIN got[c] :
              i < j /\ got[c][i].topic = t /\ got[c][j].topic = t => got[c][i].id < got[c][j].id
        /\ \A i \in DOMAIN got[c] :
              got[c][i].topic = t => \E k \in seen(c, t) : got[c][i] = handled[t][k]
        /\ \A k, l \in seen(c, t) : k..l \subseteq seen(c, t)
        /\ (seen(c, t) # {} /\ conn[c] = "open" /\ \A r \in Goroutines : task[r].step = "idle")
              => Len(handled[t]) \in seen(c, t)

\* The prices of an update are read when it is handled, not when it was published; no
\* client sees prices go back to an older scan.
PricesNeverGoBack ==
    \A c \in Clients : \A i, j \in DOMAIN got[c] :
        i < j /\ got[c][i].prices > 0 /\ got[c][j].prices > 0 =>
            got[c][i].prices <= got[c][j].prices

\* While the subscription lives, every update is handled and its broadcast ends: slow,
\* broken and leaving clients do not stop the hub.
UpdatesGetThrough ==
    (taken # stream) ~> \/ ~subscribed
                        \/ taken = stream /\ \A g \in Goroutines : task[g].step = "idle"

\* A client that a failed write took off the list does not stay connected for ever
\* without updates: the answer to its next ping fails and closes the connection.
NoZombies == <>[](\A c \in Clients : conn[c] # "broken")

\* Any two clients, however slow, broken or late, see parts of one stream of updates
\* that loses nothing, keeps its order and does not go back in time.
ClientsSeeOneStream == SameOrderForAll /\ NoGaps /\ PricesNeverGoBack

\* The hub goes on serving whoever can be served, and lets go of the others.
ClientsAreServed == UpdatesGetThrough /\ NoZombies
=============================================================================
