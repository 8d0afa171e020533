---------------------------- MODULE MCKvBatch ----------------------------
(* Small instances of the store with batched index threads. *)
EXTENDS KvBatch, KvHistory

CONSTANTS t1, t2, t3

TwoThreads == {t1, t2}
ThreeThreads == {t1, t2, t3}

\* KvHistory's recording on top of the batched store.
SpecBH ==
    InitB /\ InitHistory /\ [][NextB /\ Record]_<<varsB, histVars>>

ThreadSymmetry == Permutations(CThreads)
===========================================================================
