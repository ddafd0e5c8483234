---------------------------- MODULE MCWorkerPool ----------------------------
(***************************************************************************)
(* An instance of WorkerPool for TLC: two workers, three client objects of *)
(* which two share a queue, queues of two batches.                         *)
(***************************************************************************)
EXTENDS WorkerPool, TLC

CONSTANTS a, b, c

MCClients == {a, b, c}
MCHash == (a :> 4) @@ (b :> 6) @@ (c :> 7)
MCBatches == {<<"send", "disconnect">>, <<>>}
MCLimitedKinds == {"send", "subscribe"}
=============================================================================
