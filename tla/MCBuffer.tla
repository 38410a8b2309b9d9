------------------------------ MODULE MCBuffer ------------------------------
(* Values for the constants of Buffer that a .cfg cannot write.            *)
EXTENDS BufferProperties, TLC

CONSTANTS a, b, t1, t2

TwoProducers       == (a :> {"enqueue"}) @@ (b :> {"enqueue"})
ProducerAndFlusher == (a :> {"enqueue"}) @@ (b :> {"enqueue", "flush"})
ProducerAndCloser  == (a :> {"enqueue"}) @@ (b :> {"close", "exit"})
CloserAndFlusher   == (a :> {"enqueue", "flush"}) @@ (b :> {"close"})
=============================================================================
