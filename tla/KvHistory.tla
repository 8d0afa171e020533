---------------------------- MODULE KvHistory ----------------------------
(***************************************************************************)
(* What a client of the key-value store can observe, as history variables  *)
(* on top of KvStore, and the correctness condition stated with them.      *)
(*                                                                         *)
(* The operations on a key fall into clusters: a write and the reads that  *)
(* returned its value. Cluster a precedes cluster b when some operation of *)
(* a returned before some operation of b was called. Since every write has *)
(* its own value, the history of the key is linearizable exactly when no   *)
(* two clusters precede each other.                                        *)
(***************************************************************************)
EXTENDS KvProperties

VARIABLES
    seen,   \* seen[k]: clusters of key k one of whose operations has returned,
            \* each as <<cluster, the operation was the write>>
    snap,   \* snap[c]: seen[key] when the request of coroutine c was called
    prec    \* prec[k]: <<a, b, w>>: an operation of cluster a, the write if w,
            \* returned before one of cluster b was called

histVars == <<seen, snap, prec>>

\* cluster 0 is the value a key has before any write
InitHistory ==
    /\ seen = [k \in Keys |-> {<<0, TRUE>>}]
    /\ snap = [c \in Coros |-> {}]
    /\ prec = [k \in Keys |-> {}]

Called(c) == ctx[c].pc = "free" /\ ctx'[c].pc # "free"
Returned(c) == ctx[c].pc # "free" /\ ctx'[c].pc = "free"
Writing(c) == ctx[c].pc \in {"put_value", "put_index"}

\* The cluster a returning request belongs to. A log entry of another key means
\* the key has not been written: every key starts out pointing to log id 0.
Cluster(c) ==
    CASE Writing(c) -> ctx[c].val
      [] ctx[c].pc = "get_index" -> 0
      [] ctx[c].pc = "get_value" ->
            LET e == Head(s2c[c[1]]).entry
            IN  IF e.key = ctx[c].key THEN e.val ELSE 0

\* A read that failed the read_ok test returns nothing.
Discarded(c) ==
    /\ ctx[c].pc = "get_value"
    /\ ~ read_ok(ctx[c].key, Head(s2c[c[1]]).entry)

\* Cluster v comes after the operations of s.
After(s, v) == { <<o[1], v, o[2]>> : o \in { o \in s : o[1] # v } }

RecordCall(c) ==
    LET k == ctx'[c].key IN
    /\ snap' = [snap EXCEPT ![c] = seen[k]]
    /\ prec' = IF ctx'[c].pc = "put_value"
               THEN [prec EXCEPT ![k] = @ \cup After(seen[k], ctx'[c].val)]
               ELSE prec
    /\ UNCHANGED seen

RecordReturn(c) ==
    LET k == ctx[c].key
        v == Cluster(c)
    IN  /\ seen' = [seen EXCEPT ![k] = @ \cup {<<v, Writing(c)>>}]
        /\ prec' = [prec EXCEPT ![k] = @ \cup After(snap[c], v)]
        /\ snap' = [snap EXCEPT ![c] = {}]

Record ==
    \/ \E c \in Coros : Called(c) /\ RecordCall(c)
    \/ \E c \in Coros : Returned(c) /\ ~ Discarded(c) /\ RecordReturn(c)
    \/ /\ \A c \in Coros : ~ Called(c) /\ (Returned(c) => Discarded(c))
       /\ UNCHANGED histVars

SpecH == Init /\ InitHistory /\ [][Next /\ Record]_<<vars, histVars>>

-----------------------------------------------------------------------------
Opposite(p, q) == p[1] = q[2] /\ p[2] = q[1]

(***************************************************************************)
(* Linearizable: a completed write is seen by every later read, and two    *)
(* reads in sequence never see two writes in the opposite of an observed   *)
(* order, whichever mix of slot hits, slot misses, fast writes and slow    *)
(* writes served them. This is what asynchronous index updates with        *)
(* in-network visibility have to preserve.                                 *)
(***************************************************************************)
Linearizable ==
    \A k \in Keys : \A p, q \in prec[k] : ~ Opposite(p, q)

(***************************************************************************)
(* Fresh: of two writes in sequence, a read called after the second one    *)
(* has returned never returns the first. Unlike Linearizable it leaves     *)
(* open what reads that overlap the second write tell each other. A fast   *)
(* write returns before any index holds it, so this is the promise of the  *)
(* visibility slot.                                                        *)
(***************************************************************************)
Fresh ==
    \A k \in Keys : \A p, q \in prec[k] : p[3] /\ q[3] => ~ Opposite(p, q)
=============================================================================
