----------------------------- MODULE MCAccounts -----------------------------
(***************************************************************************)
(* Small instances of Accounts for TLC.                                    *)
(***************************************************************************)
EXTENDS Accounts

VARIABLE story   \* which of the three instances this behaviour is about

Delivery(n, r, k, status, amount) ==
    [no |-> n, ref |-> r, account |-> k, status |-> status, amount |-> amount]

\* One payment announced once and reported settled twice, concurrently, and a
\* second one of which only the settlement is reported.
GatewayDeliveries ==
    {Delivery(1, 1, <<1, Base>>, "pending", 2),
     Delivery(2, 1, <<1, Base>>, "settled", 2),
     Delivery(3, 1, <<1, Base>>, "settled", 2),
     Delivery(4, 2, <<1, Base>>, "settled", 1)}

rowsOfOthers == [k \in {x \in AccountKeys : x[1] # 1} |-> bal[k]]
laterOrders == [o \in OrderIds \ {1} |-> ords[o]]
laterWithdrawals == [w \in WithdrawalIds \ {1} |-> wds[w]]
quoteRow == bal[<<1, Quote>>]

\* The gateway's callbacks with two withdrawals, in the asset of the deposits.
GatewayOnly == <<cb, wds>>' # <<cb, wds>> /\ UNCHANGED <<ords, rowsOfOthers, quoteRow>>

\* The operator's deposits with a withdrawal and an order of the first user.
OperatorOnly == UNCHANGED <<cb, rowsOfOthers, laterOrders, laterWithdrawals>>

\* Orders and trades.
TradingOnly == UNCHANGED <<cb, manual, wds>>

MCInit == Init /\ story \in {"gateway", "operator", "trading"}

MCNext ==
    /\ Next
    /\ UNCHANGED story
    /\ story = "gateway" => GatewayOnly
    /\ story = "operator" => OperatorOnly
    /\ story = "trading" => TradingOnly

MCSpec == MCInit /\ [][MCNext]_<<vars, story>>
=============================================================================
