---------------------------- MODULE EventStream ----------------------------
(***************************************************************************)
(* The four event backends behind eventstream.Bus.  The servers are        *)
(* external; what is modelled is what a call of each client may answer     *)
(* and how the subscriber's handler is run.                                *)
(***************************************************************************)

CONSTANTS
    Backends,  \* the values of EVENT_BACKEND a run looks at
    Topics     \* the topics the API subscribes to

VARIABLE backend  \* the backend of this deployment

NewFromEnv ==
    /\ Backends \subseteq {"postgres", "redis", "nats", "kafka"}
    /\ backend \in Backends

-----------------------------------------------------------------------------
(* Publish.  An answer says whether the backend took the message and       *)
(* whether the call returned nil.                                          *)

answer(taken, ok) == [taken |-> taken, ok |-> ok]

\* One statement on a database connection: refused, run, or run with a lost answer.
PostgresPublish == {answer(TRUE, TRUE), answer(FALSE, FALSE), answer(TRUE, FALSE)}

\* One command to the server.
RedisPublish == {answer(TRUE, TRUE), answer(FALSE, FALSE), answer(TRUE, FALSE)}

\* Mutant: the message is left in the buffer of the connection, without the flush.
NATSPublishUnflushed == {answer(TRUE, TRUE), answer(FALSE, TRUE), answer(FALSE, FALSE)}

\* Publish writes to a buffer; only the flush says that the server has it.
NATSPublish == {answer(TRUE, TRUE), answer(FALSE, FALSE), answer(TRUE, FALSE)}

\* RequireAll and a synchronous writer: nil only when all replicas have it.
KafkaPublish == {answer(TRUE, TRUE), answer(FALSE, FALSE), answer(TRUE, FALSE)}

Publish ==
    CASE backend = "postgres" -> PostgresPublish
      [] backend = "redis" -> RedisPublish
      [] backend = "nats" -> NATSPublish
      [] backend = "kafka" -> KafkaPublish

-----------------------------------------------------------------------------
(* Subscribe.  A subscription is a set of goroutines; each calls the       *)
(* handler for the messages of its topics, one at a time.                  *)

\* One listener, with a connection of its own, for each topic.
PostgresSubscribe == {{t} : t \in Topics}

\* One loop over the messages of all channels.
RedisSubscribe == {Topics}

\* One callback goroutine for each subscription.
NATSSubscribe == {{t} : t \in Topics}

\* One reader, in a consumer group of its own, for each topic.
KafkaSubscribe == {{t} : t \in Topics}

Goroutines ==
    CASE backend = "postgres" -> PostgresSubscribe
      [] backend = "redis" -> RedisSubscribe
      [] backend = "nats" -> NATSSubscribe
      [] backend = "kafka" -> KafkaSubscribe

\* The listener of postgres and the connection of nats reconnect by themselves and
\* miss what is published in the meantime; a reader of kafka goes on where it was;
\* an error of redis or kafka ends Subscribe, and with it all its goroutines.
losesWhileAway == backend \in {"postgres", "nats"}
errorEndsSubscribe == backend \in {"redis", "kafka"}
=============================================================================
