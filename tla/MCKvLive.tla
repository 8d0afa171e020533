----------------------------- MODULE MCKvLive -----------------------------
(* Small instances of the key-value store without the history variables,   *)
(* for the liveness properties.                                            *)
EXTENDS KvRefinement

CONSTANTS t1, t2, t3

OneThread == {t1}
TwoThreads == {t1, t2}
===========================================================================
