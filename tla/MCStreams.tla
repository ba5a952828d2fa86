----------------------------- MODULE MCStreams -----------------------------
(***************************************************************************)
(* The three parts that carry what the exchange has committed to its       *)
(* readers, for TLC: the outbox, the websocket updates and the candles.    *)
(* They share nothing but the choice of the backend, so a behaviour is     *)
(* one of one part, with the others at rest in their initial states.       *)
(***************************************************************************)
EXTENDS Outbox, Updates, Candles

VARIABLE part

Prices == <<2, 3, 1>>
OpenTimes == <<1, 1, 2>>

vars == <<part, outboxVars, updatesVars, candleVars>>

\* The variables of each part without the backend.
outboxOnly == <<event, publisher, copies, disturbed, crashes>>
updatesOnly == <<streamVars, hubVars>>

Init ==
    /\ part \in {"outbox", "updates", "candles"}
    /\ part = "candles" => backend = CHOOSE b \in Backends : TRUE
    /\ OutboxInit /\ UpdatesInit /\ CandlesInit

Next ==
    /\ UNCHANGED part
    /\ \/ part = "outbox" /\ OutboxNext /\ UNCHANGED updatesOnly /\ UNCHANGED candleVars
       \/ part = "updates" /\ UpdatesNext /\ UNCHANGED outboxOnly /\ UNCHANGED candleVars
       \/ part = "candles" /\ CandlesNext /\ UNCHANGED outboxVars /\ UNCHANGED updatesOnly

\* No step of the outbox or of the updates that is fair is enabled in their initial
\* states; the projectors always have one, and run in their part only.
Spec == Init /\ [][Next]_vars /\ OutboxFairness /\ UpdatesFairness
             /\ (part = "candles" => CandlesFairness)
=============================================================================
