------------------------------ MODULE RpcPool ------------------------------
(***************************************************************************)
(* How a call finds an endpoint that answers: the pool of EVM clients      *)
(* (rpc.Pool) and the Solana client (onchain.RPC).  Concurrent calls share *)
(* one counter that goes round the endpoints; the Solana client also       *)
(* leaves an endpoint alone for some time after certain errors.            *)
(***************************************************************************)
EXTENDS Naturals, FiniteSets

CONSTANTS
    NumEndpoints,  \* endpoints 0 .. NumEndpoints - 1
    Callers,       \* goroutines with a call under way
    CallsEach      \* calls of one goroutine (bound)

ASSUME RpcAssumption == NumEndpoints \in Nat

VARIABLES
    chain,    \* "evm" or "solana"
    next,     \* the shared counter, modulo the number of endpoints
    disabled, \* disabledUntil has not passed
    call      \* the call of each goroutine

rpcVars == <<chain, next, disabled, call>>

Endpoints == 0..(NumEndpoints - 1)

\* done: how many calls have ended; tried, missed and alone are histories: the
\* endpoints asked, those that were disabled meanwhile, no other call overlapped.
NoCall == [step |-> "idle", op |-> "none", attempt |-> 0, done |-> 0, tried |-> {}, missed |-> {}, alone |-> TRUE]

RpcInit ==
    /\ chain \in {"evm", "solana"}
    /\ next = 0
    /\ disabled = {}
    /\ call = [c \in Callers |-> NoCall]

attempts == IF NumEndpoints = 0 THEN 3 ELSE 3 * NumEndpoints

turn(n, k) == (n + k) % NumEndpoints

\* Mutant: a retry goes to the endpoint that failed.
ClientSticky == {[url |-> next, next |-> IF \E c \in Callers : call[c].attempt > 0
                                         THEN next ELSE turn(next, 1)]}

\* Pool.Client: the next endpoint in turn.
Client == {[url |-> next, next |-> turn(next, 1)]}

\* RPC.endpoint: the next endpoint in turn that is not disabled; if all are, the one
\* after a whole round.
endpoint ==
    IF Endpoints \subseteq disabled THEN {[url |-> next, next |-> turn(next, 1)]}
    ELSE {[url |-> turn(next, k), next |-> turn(next, k + 1)] :
             k \in {k \in 0..(NumEndpoints - 1) : /\ turn(next, k) \notin disabled
                                                 /\ \A j \in 0..(k - 1) : turn(next, j) \in disabled}}

\* The answers an EVM client tells apart: an error worth a retry, and any other.
evmAnswers == {"ok", "retry", "fatal"}

\* A Solana client also knows errors that disable the endpoint, all worth a retry.
solanaAnswers == {"ok", "retry", "cooldown", "fatal"}

disableEndpoint(url, answer) == IF answer = "cooldown" THEN disabled \cup {url} ELSE disabled

operations == IF chain = "evm" THEN {"contract", "balance"} ELSE {"rpc"}

Begin(c) ==
    /\ call[c].step = "idle"
    /\ call[c].done < CallsEach
    /\ \E op \in operations :
       LET others == {d \in Callers \ {c} : call[d].step = "trying"}
       IN  call' = [d \in Callers |->
              IF d = c THEN [NoCall EXCEPT !.step = "trying", !.op = op, !.done = call[c].done,
                                           !.missed = disabled, !.alone = (others = {})]
              ELSE IF d \in others THEN [call[d] EXCEPT !.alone = FALSE] ELSE call[d]]
    /\ UNCHANGED <<chain, next, disabled>>

outOfAttempts(i) == i + 1 >= attempts

\* A call after an attempt, with the endpoints that are disabled by then.
afterAttempt(x, url, answer, nowDisabled) ==
    [x EXCEPT !.tried = @ \cup {url},
              !.missed = @ \cup nowDisabled,
              !.attempt = @ + 1,
              !.step = IF answer \in {"ok", "fatal"} THEN "ended"
                       ELSE IF outOfAttempts(x.attempt) THEN "gave_up"
                       ELSE "trying"]

\* One round of the loop of a call.
round(c, picked, answers) ==
    /\ call[c].step = "trying"
    /\ \E p \in picked, answer \in answers :
         /\ next' = p.next
         /\ disabled' = disableEndpoint(p.url, answer)
         /\ call' = [call EXCEPT ![c] = afterAttempt(call[c], p.url, answer, disabled')]
    /\ UNCHANGED chain

CallContract(c) == call[c].op = "contract" /\ round(c, Client, evmAnswers)

BalanceAt(c) == call[c].op = "balance" /\ round(c, Client, evmAnswers)

RPCCall(c) == call[c].op = "rpc" /\ round(c, endpoint, solanaAnswers)

\* The caller takes the result; what it was is of no interest any more.
Return(c) ==
    /\ call[c].step \in {"ended", "gave_up"}
    /\ call' = [call EXCEPT ![c] = [NoCall EXCEPT !.done = call[c].done + 1]]
    /\ UNCHANGED <<chain, next, disabled>>

CooldownEnds(e) ==
    /\ e \in disabled
    /\ disabled' = disabled \ {e}
    /\ UNCHANGED <<chain, next, call>>

RpcNext ==
    \/ \E c \in Callers : Begin(c) \/ CallContract(c) \/ BalanceAt(c) \/ RPCCall(c) \/ Return(c)
    \/ \E e \in Endpoints : CooldownEnds(e)

RpcSpec == RpcInit /\ [][RpcNext]_rpcVars

-----------------------------------------------------------------------------
(* Properties.                                                             *)

\* A call that gives up after its retries, and that no other call overlapped, has asked
\* every endpoint, or left out only endpoints disabled by earlier errors: the shared
\* counter and the skipping of disabled endpoints never keep it from a healthy one.
GivesUpAfterAll ==
    \A c \in Callers : call[c].step = "gave_up" /\ call[c].alone =>
        Endpoints \subseteq call[c].tried \cup call[c].missed
=============================================================================
