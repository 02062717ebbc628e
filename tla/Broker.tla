------------------------------- MODULE Broker -------------------------------
(***************************************************************************)
(* The message broker (Kafka, RabbitMQ or Google Pub/Sub behind            *)
(* Watermill) as the relay and the worker consumers see it: a bag of       *)
(* messages, each waiting for a consumer to acknowledge it.  It promises   *)
(* no order, and an unacknowledged message is delivered again.             *)
(***************************************************************************)
EXTENDS Naturals

CONSTANTS Events      \* outbox event ids, which are also the message ids

VARIABLE queue        \* queue[e]: copies of e that no consumer holds

(* A broker holding one more copy of e: a publish, or a redelivery.        *)
Enqueued(e) == [queue EXCEPT ![e] = @ + 1]

(* A broker that handed one copy of e to a consumer.                       *)
Dequeued(e) == [queue EXCEPT ![e] = @ - 1]
=============================================================================
