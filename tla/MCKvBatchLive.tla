-------------------------- MODULE MCKvBatchLive --------------------------
(* Small instances of the batched store for liveness. *)
EXTENDS KvBatch

CONSTANTS t1, t2

TwoThreads == {t1, t2}
===========================================================================
