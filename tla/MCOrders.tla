------------------------------ MODULE MCOrders ------------------------------
(***************************************************************************)
(* Small instances of Orders for TLC: who asks for what.                   *)
(***************************************************************************)
EXTENDS Orders

\* A request without a command id of its own.
Ask(no, client, user, side, type, tif, price, stop, qty) ==
    [no |-> no, command |-> 0, client |-> client, user |-> user, side |-> side,
     type |-> type, tif |-> tif, price |-> price, stop |-> stop, qty |-> qty]

\* Two asks of one user, a bid that takes both and is sent twice, and a stop of
\* each side; the sell stop can meet its own user's bid.
SyncRequests ==
    {Ask(1, 1, 1, "sell", "limit", "gtc", 1, 0, 1),
     Ask(2, 2, 1, "sell", "limit", "gtc", 2, 0, 2),
     Ask(3, 3, 2, "buy", "limit", "gtc", 2, 0, 2),
     Ask(4, 3, 2, "buy", "limit", "gtc", 2, 0, 2),
     Ask(5, 5, 2, "buy", "stop_limit", "gtc", 1, 2, 1),
     Ask(6, 6, 2, "sell", "stop_limit", "gtc", 1, 1, 1)}

\* An ask and a bid that leave less than MinActive of each other, a market sell,
\* an immediate-or-cancel sell that can meet its own user's bid, and a stop whose
\* limit price can be outside the price band when it is triggered.
AsyncRequests ==
    {Ask(1, 1, 1, "sell", "limit", "gtc", 2, 0, 3),
     Ask(2, 2, 2, "buy", "limit", "gtc", 3, 0, 4),
     Ask(3, 3, 1, "sell", "market", "ioc", 2, 0, 2),
     Ask(4, 4, 2, "sell", "limit", "ioc", 3, 0, 2),
     Ask(5, 5, 2, "buy", "stop_limit", "gtc", 5, 3, 2)}

\* A sell stop of the user who also has the best bid.
StopMeetsOwnBid ==
    {Ask(1, 1, 2, "buy", "limit", "gtc", 2, 0, 1),
     Ask(2, 2, 2, "sell", "stop_limit", "gtc", 1, 1, 1)}

\* A buy stop placed while the trade that should trigger it happens.
StopDuringTrade ==
    {Ask(1, 1, 1, "sell", "limit", "gtc", 2, 0, 1),
     Ask(2, 2, 2, "buy", "limit", "gtc", 2, 0, 1),
     Ask(3, 3, 2, "buy", "stop_limit", "gtc", 2, 2, 1)}
=============================================================================
