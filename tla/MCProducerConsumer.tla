------------------------- MODULE MCProducerConsumer -------------------------
(* The producer and the consumer on a ring of two items.                   *)
EXTENDS ProducerConsumer
=============================================================================
