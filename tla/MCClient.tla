------------------------------ MODULE MCClient ------------------------------
(* Values for the constants of Client that a .cfg cannot write.            *)
EXTENDS ClientProperties, TLC

CONSTANTS a, b, d, w1, w2

First0 == [endpoint |-> "old host", path |-> "/old"]
Second == [endpoint |-> "new host", path |-> "/new"]
Hosts  == {"old host", "new host"}
Both   == {First0, Second}

WriterSetterCloser ==
    (a :> {"track_batch"}) @@ (b :> {"consent", "variation", "recommend", "set_config"})
    @@ (d :> {"opt_out", "opt_in", "close", "flush"})
ReaderAndWriter == (a :> {"recommend"}) @@ (b :> {"track"})
WriterAndCloser == (a :> {"track"}) @@ (b :> {"close"})

WorkerSymmetry == Permutations(Workers)
=============================================================================
