------------------------------- MODULE MCKv -------------------------------
(* Small instances of the key-value store for TLC. *)
EXTENDS KvHistory, KvRefinement, TLC

CONSTANTS t1, t2, t3

OneThread == {t1}
TwoThreads == {t1, t2}
ThreeThreads == {t1, t2, t3}

\* Client threads are interchangeable: no action tells two of them apart.
ThreadSymmetry == Permutations(CThreads)
===========================================================================
