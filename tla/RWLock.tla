------------------------------ MODULE RWLock ------------------------------
(***************************************************************************)
(* What LockService promises: at every address either one writer or any    *)
(* number of readers. How long a thread waits is not said here.            *)
(***************************************************************************)
CONSTANTS Threads, Addresses

VARIABLES
    writers,  \* writers[a]: the threads inside a write lock of address a
    readers   \* readers[a]: the threads inside a read lock of address a

Init ==
    /\ writers = [a \in Addresses |-> {}]
    /\ readers = [a \in Addresses |-> {}]

BeginWrite(t, a) ==
    /\ writers[a] = {} /\ readers[a] = {}
    /\ writers' = [writers EXCEPT ![a] = {t}]
    /\ UNCHANGED readers

EndWrite(t, a) ==
    /\ t \in writers[a]
    /\ writers' = [writers EXCEPT ![a] = {}]
    /\ UNCHANGED readers

BeginRead(t, a) ==
    /\ writers[a] = {}
    /\ readers' = [readers EXCEPT ![a] = @ \cup {t}]
    /\ UNCHANGED writers

EndRead(t, a) ==
    /\ t \in readers[a]
    /\ readers' = [readers EXCEPT ![a] = @ \ {t}]
    /\ UNCHANGED writers

Next ==
    \E t \in Threads, a \in Addresses :
        BeginWrite(t, a) \/ EndWrite(t, a) \/ BeginRead(t, a) \/ EndRead(t, a)

Spec == Init /\ [][Next]_<<writers, readers>>
=============================================================================
